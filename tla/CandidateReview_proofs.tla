----------------------- MODULE CandidateReview_proofs -----------------------
(***************************************************************************)
(* How a Candidate comes to be and is reviewed, for any commands, windows, *)
(* fields, contents and drafts.                                            *)
(*                                                                         *)
(* CandidateReview: what the store holds is sound, the model is asked      *)
(* once, and a command acts on what its actor saw.  The inductive          *)
(* invariant says that a run asks only for a Candidate that is not stored, *)
(* with what its owner confirmed (RunsInv), that equal revisions are equal *)
(* Candidates (WindowsTrail), and that a published Candidate names a       *)
(* Version whose content is what its decisions made of the draft           *)
(* (StoredInv).                                                            *)
(*                                                                         *)
(* CandidateProposal: what is sent was confirmed, one run of a command at  *)
(* a time, and what is stored can be audited.  The invariant says how far  *)
(* each run has come and what its log holds by then (RunFits).             *)
(***************************************************************************)
EXTENDS CandidateReview, CandidateProposal, TLAPS, WellFoundedInduction, SequenceTheorems, FiniteSetTheorems

-----------------------------------------------------------------------------
\* A set of numbers that is not empty has a least one.
LEMMA Least ==
  ASSUME NEW S \in SUBSET Nat, S # {}
  PROVE  \E m \in S : \A x \in S : m <= x
<1>1. PICK m \in S : \A x \in S : <<x, m>> \notin OpToRel(<, Nat)
  BY NatLessThanWellFounded, WFMin
<1>2. \A x \in S : ~(x < m)
  BY <1>1 DEF OpToRel
<1> QED
  BY <1>2

\* One that is bounded has a greatest one.
LEMMA Greatest ==
  ASSUME NEW n \in Nat, NEW S \in SUBSET (1..n), S # {}
  PROVE  \E m \in S : \A x \in S : x <= m
<1> DEFINE Rest == {n - x : x \in S}
<1>1. Rest \in SUBSET Nat /\ Rest # {}
  <2>1. PICK y \in S : TRUE
    OBVIOUS
  <2>2. n - y \in Rest
    BY <2>1
  <2>3. \A x \in S : n - x \in Nat
    OBVIOUS
  <2> QED
    BY <2>2, <2>3
<1>2. PICK r \in Rest : \A x \in Rest : r <= x
  <2> HIDE DEF Rest
  <2> QED
    BY <1>1, Least
<1>3. PICK m \in S : r = n - m
  BY <1>2
<1>4. ASSUME NEW x \in S PROVE x <= m
  <2>1. n - m <= n - x
    BY <1>2, <1>3
  <2> QED
    BY <2>1
<1> QED
  BY <1>4

-----------------------------------------------------------------------------
\* What the store, the runs and the windows hold.
Statuses == {"eligible", "candidate_only", "ineligible"}
Readings == [rev: 0..MaxRead, status: Statuses]
Calls ==
  {Idle} \cup [phase: {"inspected", "reading"}, shown: Readings]
    \cup [phase: {"asking"}, shown: Readings, read: Readings]
Decision == [field: Fields, kind: {"accept", "reject", "edit"}, value: Values, supersedes: Nat]
States == {"proposed", "in_review", "accepted", "published", "rejected", "withdrawn"}
Candidate ==
  [state: States, rev: 1..MaxRev, draft: DraftContents, missing: BOOLEAN, status: Statuses,
   confirmed: Readings, read: Readings, decisions: Seq(Decision), disposed: BOOLEAN, version: Nat]
Version == [content: DraftContents, active: BOOLEAN]

TypesInv ==
  /\ session \in Readings /\ calls \in [Commands -> Calls] /\ open \in [Commands -> Nat]
  /\ candidates \in [Commands -> Candidate \cup {NoCandidate}]
  /\ experiences \in Seq(Version)
  /\ seen \in [Actors -> [Commands -> Candidate \cup {NoCandidate}]]

\* A run asks for a Candidate that is not stored, once, with what its owner confirmed.
RunsInv ==
  \A p \in Commands :
    /\ calls[p].phase \in {"reading", "asking"} => candidates[p] = NoCandidate
    /\ calls[p].phase = "asking" => calls[p].read = calls[p].shown
    /\ open[p] = IF calls[p].phase = "asking" THEN 1 ELSE 0

\* A decision without an edit is about the drafted value.
Kept(c) ==
  \A i \in DOMAIN c.decisions :
    c.decisions[i].kind # "edit" => c.decisions[i].value = c.draft[c.decisions[i].field]

\* What was published is what the review made of the draft.
Published(c) ==
  c.version # 0 =>
    /\ c.version \in DOMAIN experiences /\ experiences[c.version].content = Resolve(c)
    /\ Unresolved(Resolve(c)) = {}

Reviewed(c) == StoredSemantics(c) /\ Kept(c) /\ c.read = c.confirmed

StoredInv ==
  \A p \in Commands : candidates[p] # NoCandidate => Reviewed(candidates[p]) /\ Published(candidates[p])

Inv == TypesInv /\ RunsInv /\ WindowsTrail /\ StoredInv /\ KernelsDiffer

-----------------------------------------------------------------------------
\* The decisions of a Candidate.
LEMMA CandidateIs ==
  ASSUME NEW c \in Candidate
  PROVE  /\ c # NoCandidate /\ c.decisions \in Seq(Decision) /\ c.draft \in DraftContents
         /\ Len(c.decisions) \in Nat /\ DOMAIN c.decisions = 1..Len(c.decisions)
         /\ \A i \in DOMAIN c.decisions : c.decisions[i] \in Decision
<1>1. c.decisions \in Seq(Decision) /\ c.draft \in DraftContents /\ c.state \in States
  BY DEF Candidate
<1>2. c # NoCandidate
  BY <1>1 DEF NoCandidate, States
<1> QED
  BY <1>1, <1>2, LenProperties, ElementOfSeq

\* The decision that counts is the last one about the field.
LEMMA CurrentIs ==
  ASSUME NEW c \in Candidate, NEW f
  PROVE  \/ /\ CurrentDecision(c, f) = 0
            /\ \A i \in DOMAIN c.decisions : c.decisions[i].field # f
         \/ /\ CurrentDecision(c, f) \in DOMAIN c.decisions
            /\ c.decisions[CurrentDecision(c, f)].field = f
            /\ \A j \in DOMAIN c.decisions : c.decisions[j].field = f => j <= CurrentDecision(c, f)
<1> DEFINE of == {i \in DOMAIN c.decisions : c.decisions[i].field = f}
<1>1. CurrentDecision(c, f) = IF of = {} THEN 0 ELSE CHOOSE i \in of : \A j \in of : j <= i
  BY DEF CurrentDecision
<1>2. CASE of = {}
  BY <1>1, <1>2
<1>3. CASE of # {}
  <2>1. of \in SUBSET (1..Len(c.decisions)) /\ Len(c.decisions) \in Nat
    BY CandidateIs
  <2>2. \E m \in of : \A x \in of : x <= m
    <3> HIDE DEF of
    <3> QED
      BY <1>3, <2>1, Greatest
  <2>3. CurrentDecision(c, f) \in of /\ \A j \in of : j <= CurrentDecision(c, f)
    <3> HIDE DEF of
    <3> QED
      BY <1>1, <1>3, <2>2
  <2> QED
    BY <2>3
<1> QED
  BY <1>2, <1>3

\* What the review makes of a Candidate depends on its draft and its decisions alone.
LEMMA SameReview ==
  ASSUME NEW c, NEW d, c.decisions = d.decisions, c.draft = d.draft
  PROVE  /\ Resolve(c) = Resolve(d) /\ Resolvable(c) = Resolvable(d)
         /\ AllDecided(c) = AllDecided(d) /\ NoneRejected(c) = NoneRejected(d)
         /\ ValidChain(c) = ValidChain(d) /\ Kept(c) = Kept(d)
<1>1. \A f : CurrentDecision(c, f) = CurrentDecision(d, f)
  BY DEF CurrentDecision
<1>2. \A f, kind : Decided(c, f, kind) = Decided(d, f, kind)
  BY <1>1 DEF Decided
<1>3. Resolve(c) = Resolve(d)
  BY <1>1, <1>2 DEF Resolve
<1>4. Resolvable(c) = Resolvable(d)
  BY <1>3 DEF Resolvable
<1>5. AllDecided(c) = AllDecided(d)
  BY <1>1 DEF AllDecided
<1>6. NoneRejected(c) = NoneRejected(d)
  BY <1>2 DEF NoneRejected
<1>7. ValidChain(c) = ValidChain(d)
  BY DEF ValidChain
<1>8. Kept(c) = Kept(d)
  BY DEF Kept
<1> QED
  BY <1>3, <1>4, <1>5, <1>6, <1>7, <1>8

LEMMA ResolveIs ==
  ASSUME NEW c \in Candidate
  PROVE  Resolve(c) \in DraftContents
<1>1. c.draft \in [Fields -> Values]
  BY CandidateIs DEF DraftContents
<1>2. ASSUME NEW f \in Fields, Decided(c, f, "edit") PROVE c.decisions[CurrentDecision(c, f)].value \in Values
  <2>1. CurrentDecision(c, f) \in DOMAIN c.decisions
    BY <1>2, CurrentIs DEF Decided
  <2> QED
    BY <2>1, CandidateIs DEF Decision
<1> QED
  BY <1>1, <1>2 DEF Resolve, DraftContents

\* The last of some decisions, and the decisions about the field of one, before it.
Latest(S) == IF S = {} THEN 0 ELSE CHOOSE i \in S : \A j \in S : j <= i
Earlier(c, i) == {j \in 1..(i - 1) : c.decisions[j].field = c.decisions[i].field}

LEMMA ChainIs ==
  ASSUME NEW c
  PROVE  /\ ValidChain(c) <=> \A i \in DOMAIN c.decisions : c.decisions[i].supersedes = Latest(Earlier(c, i))
         /\ \A f : CurrentDecision(c, f) = Latest({i \in DOMAIN c.decisions : c.decisions[i].field = f})
<1>1. ValidChain(c) <=> \A i \in DOMAIN c.decisions : c.decisions[i].supersedes = Latest(Earlier(c, i))
  BY Zenon DEF ValidChain, Latest, Earlier
<1>2. \A f : CurrentDecision(c, f) = Latest({i \in DOMAIN c.decisions : c.decisions[i].field = f})
  BY DEF CurrentDecision, Latest
<1> QED
  BY <1>1, <1>2

\* A decision appended to the chain names the one before it.
LEMMA ChainGrows ==
  ASSUME NEW c \in Candidate, ValidChain(c), Kept(c), NEW d, d.draft = c.draft,
         NEW x \in Decision, x.supersedes = CurrentDecision(c, x.field),
         x.kind # "edit" => x.value = c.draft[x.field], d.decisions = Append(c.decisions, x)
  PROVE  ValidChain(d) /\ Kept(d)
<1> PICK n : n = Len(c.decisions)
  OBVIOUS
<1>1. /\ n \in Nat /\ DOMAIN c.decisions = 1..n /\ DOMAIN d.decisions = 1..(n + 1)
      /\ d.decisions[n + 1] = x /\ \A i \in 1..n : d.decisions[i] = c.decisions[i]
  BY CandidateIs, AppendProperties
<1>2. ASSUME NEW i \in 1..n PROVE d.decisions[i].supersedes = Latest(Earlier(d, i))
  <2>1. Earlier(d, i) = Earlier(c, i)
    BY <1>1 DEF Earlier
  <2>2. c.decisions[i].supersedes = Latest(Earlier(c, i))
    BY <1>1, ChainIs
  <2> QED
    BY <1>1, <2>1, <2>2
<1>3. d.decisions[n + 1].supersedes = Latest(Earlier(d, n + 1))
  <2>1. Earlier(d, n + 1) = {j \in DOMAIN c.decisions : c.decisions[j].field = x.field}
    BY <1>1 DEF Earlier
  <2> QED
    BY <1>1, <2>1, ChainIs
<1>5. ValidChain(d)
  <2>1. \A i \in 1..(n + 1) : i \in 1..n \/ i = n + 1
    BY <1>1
  <2>2. \A i \in DOMAIN d.decisions : d.decisions[i].supersedes = Latest(Earlier(d, i))
    BY <1>1, <1>2, <1>3, <2>1
  <2> QED
    BY <2>2, ChainIs
<1>6. Kept(d)
  <2>1. \A i \in 1..(n + 1) : i \in 1..n \/ i = n + 1
    BY <1>1
  <2> QED
    BY <1>1, <2>1 DEF Kept
<1> QED
  BY <1>5, <1>6

\* Every field of a published Version was decided, and says what its last decision says.
LEMMA ReviewedIs ==
  ASSUME NEW c \in Candidate, StoredSemantics(c), Kept(c), c.version # 0, NEW f \in Fields,
         Unresolved(Resolve(c)) = {}
  PROVE  \E i \in DOMAIN c.decisions :
           /\ c.decisions[i].field = f
           /\ \A j \in (i + 1)..Len(c.decisions) : c.decisions[j].field # f
           /\ c.decisions[i].kind # "reject"
           /\ Resolve(c)[f].content = c.decisions[i].value.content
           /\ Resolve(c)[f].sources # {}
<1> PICK i : i = CurrentDecision(c, f)
  OBVIOUS
<1>1. i # 0 /\ ~Decided(c, f, "reject")
  BY DEF StoredSemantics, AllDecided, NoneRejected
<1>2. /\ i \in DOMAIN c.decisions /\ c.decisions[i].field = f
      /\ \A j \in DOMAIN c.decisions : c.decisions[j].field = f => j <= i
  BY <1>1, CurrentIs
<1>3. DOMAIN c.decisions = 1..Len(c.decisions) /\ Len(c.decisions) \in Nat
  BY CandidateIs
<1>4. \A j \in (i + 1)..Len(c.decisions) : c.decisions[j].field # f
  BY <1>2, <1>3
<1>5. c.decisions[i].kind # "reject"
  BY <1>1 DEF Decided
<1>6. Resolve(c)[f] = c.decisions[i].value
  <2>1. CASE c.decisions[i].kind = "edit"
    BY <1>1, <2>1 DEF Resolve, Decided
  <2>2. CASE c.decisions[i].kind # "edit"
    <3>1. c.decisions[i].value = c.draft[f]
      BY <1>2, <2>2 DEF Kept
    <3> QED
      BY <2>2, <3>1 DEF Resolve, Decided
  <2> QED
    BY <2>1, <2>2
<1>7. Resolve(c)[f].sources # {}
  BY DEF Unresolved
<1> QED
  BY <1>2, <1>4, <1>5, <1>6, <1>7

-----------------------------------------------------------------------------
LEMMA InitOk == Init => Inv
<1> SUFFICES ASSUME Init PROVE Inv
  OBVIOUS
<1>1. Idle \in Calls /\ \A p \in Commands : calls[p] = Idle /\ open[p] = 0
  BY DEF Init, Calls
<1>2. experiences \in Seq(Version) /\ DOMAIN experiences = {}
  BY EmptySeq DEF Init
<1>3. session \in Readings
  BY ConstantsAssumption DEF Init, Readings, Statuses
<1>4. TypesInv
  BY <1>1, <1>2, <1>3 DEF TypesInv, Init
<1>5. RunsInv
  BY <1>1 DEF RunsInv, Idle
<1>6. WindowsTrail /\ StoredInv /\ KernelsDiffer
  BY <1>2 DEF WindowsTrail, StoredInv, KernelsDiffer, Init
<1> QED
  BY <1>4, <1>5, <1>6 DEF Inv

-----------------------------------------------------------------------------
\* What every step does to the store: Versions keep their content, and a Candidate is kept,
\* is new, or is the next revision that an actor made of the one it saw.
VersionsKept ==
  \A i \in DOMAIN experiences : i \in DOMAIN experiences' /\ experiences'[i].content = experiences[i].content

Ended == {"published", "rejected", "withdrawn"}

Revised(c, d) ==
  /\ c # NoCandidate /\ c.state \notin Ended
  /\ d.decisions = c.decisions \/ \E x \in Decision : d.decisions = Append(c.decisions, x)

\* The window that acts knows what it did, or is left with what it knew.
Acted(a, p, next) ==
  /\ candidates' = [candidates EXCEPT ![p] = next]
  /\ seen' = [seen EXCEPT ![a][p] = next] \/ seen' = seen
  /\ seen[a][p] = candidates[p] /\ Revised(candidates[p], next)

LEMMA PublishedKept ==
  ASSUME NEW c, Published(c), VersionsKept
  PROVE  Published(c)'
BY DEF Published, VersionsKept

\* The store with one Candidate replaced.
LEMMA StoredWith ==
  ASSUME TypesInv, StoredInv, VersionsKept, NEW p \in Commands, NEW next \in Candidate,
         candidates' = [candidates EXCEPT ![p] = next], Reviewed(next), Published(next)'
  PROVE  StoredInv'
<1>1. candidates'[p] = next /\ \A q \in Commands \ {p} : candidates'[q] = candidates[q]
  BY DEF TypesInv
<1> SUFFICES ASSUME NEW q \in Commands, candidates'[q] # NoCandidate
             PROVE  Reviewed(candidates[q])' /\ Published(candidates[q])'
  BY DEF StoredInv
<1> PICK d : d = candidates'[q]
  OBVIOUS
<1>2. Reviewed(d) /\ Published(d)'
  <2>1. CASE q = p
    BY <1>1, <2>1
  <2>2. CASE q # p
    <3>1. d = candidates[q] /\ d # NoCandidate
      BY <1>1, <2>2
    <3>2. Reviewed(d) /\ Published(d)
      BY <3>1 DEF StoredInv
    <3> QED
      BY <3>2, PublishedKept
  <2> QED
    BY <2>1, <2>2
<1> QED
  BY <1>2 DEF Published

LEMMA StoredSame ==
  ASSUME StoredInv, VersionsKept, UNCHANGED candidates
  PROVE  StoredInv'
<1> SUFFICES ASSUME NEW q \in Commands, candidates'[q] # NoCandidate
             PROVE  Reviewed(candidates[q])' /\ Published(candidates[q])'
  BY DEF StoredInv
<1> PICK d : d = candidates'[q]
  OBVIOUS
<1>1. d = candidates[q] /\ Reviewed(d) /\ Published(d)
  BY DEF StoredInv
<1>2. Published(d)'
  BY <1>1, PublishedKept
<1> QED
  BY <1>1, <1>2 DEF Published

\* The windows, when one of them stored the next revision.
LEMMA StoreIs ==
  ASSUME TypesInv, RunsInv, WindowsTrail, NEW a \in Actors, NEW p \in Commands, NEW next \in Candidate,
         ExpectedRevision(a, p), Store(a, p, next), next.rev = candidates[p].rev + 1,
         Revised(candidates[p], next), experiences' \in Seq(Version)
  PROVE  TypesInv' /\ RunsInv' /\ WindowsTrail' /\ Acted(a, p, next)
<1>1. /\ candidates' = [candidates EXCEPT ![p] = next]
      /\ seen' = [seen EXCEPT ![a][p] = next] \/ seen' = seen
      /\ UNCHANGED <<session, calls, open>>
  BY DEF Store
<1>2. TypesInv'
  <2>1. CASE seen' = [seen EXCEPT ![a][p] = next]
    BY <1>1, <2>1 DEF TypesInv
  <2>2. CASE seen' = seen
    BY <1>1, <2>2 DEF TypesInv
  <2> QED
    BY <1>1, <2>1, <2>2
<1>3. candidates'[p] = next /\ \A q \in Commands \ {p} : candidates'[q] = candidates[q]
  BY <1>1 DEF TypesInv
<1>4. \A b \in Actors, q \in Commands :
        seen'[b][q] = seen[b][q] \/ (b = a /\ q = p /\ seen'[b][q] = next)
  <2>1. CASE seen' = [seen EXCEPT ![a][p] = next]
    BY <2>1 DEF TypesInv
  <2>2. CASE seen' = seen
    BY <2>2
  <2> QED
    BY <1>1, <2>1, <2>2
<1>5. next # NoCandidate /\ candidates[p] # NoCandidate /\ candidates[p] \in Candidate
  BY CandidateIs DEF ExpectedRevision, TypesInv
<1>6. RunsInv'
  BY <1>1, <1>3, <1>5 DEF RunsInv
<1>7. WindowsTrail'
  <2> SUFFICES ASSUME NEW b \in Actors, NEW q \in Commands, seen'[b][q] # NoCandidate
               PROVE  /\ candidates'[q] # NoCandidate
                      /\ seen'[b][q].rev <= candidates'[q].rev
                      /\ seen'[b][q].rev = candidates'[q].rev => seen'[b][q] = candidates'[q]
    BY DEF WindowsTrail
  <2>1. CASE q # p
    BY <1>3, <1>4, <2>1 DEF WindowsTrail
  <2>2. CASE q = p /\ seen'[b][q] = next
    BY <1>3, <1>5, <2>2 DEF Candidate
  <2>3. CASE q = p /\ seen'[b][q] = seen[b][q]
    <3>1. seen[b][p] # NoCandidate /\ seen'[b][q] = seen[b][p] /\ seen[b][p] \in Candidate
      BY <2>3 DEF TypesInv
    <3>2. seen[b][p].rev <= candidates[p].rev
      BY <3>1 DEF WindowsTrail
    <3>3. seen[b][p].rev \in Nat /\ candidates[p].rev \in Nat
      BY <1>5, <3>1 DEF Candidate
    <3> QED
      BY <1>3, <1>5, <2>3, <3>1, <3>2, <3>3
  <2> QED
    BY <1>4, <2>1, <2>2, <2>3
<1>8. seen[a][p] = candidates[p]
  BY DEF WindowsTrail, ExpectedRevision
<1> QED
  BY <1>1, <1>2, <1>6, <1>7, <1>8 DEF Acted

-----------------------------------------------------------------------------
\* A Candidate that goes to another state with the draft and the decisions it has.
Moved(c, state, disposed, version) ==
  [c EXCEPT !.state = state, !.rev = c.rev + 1, !.disposed = disposed, !.version = version]

LEMMA MovedIs ==
  ASSUME NEW c \in Candidate, Reviewed(c), c.rev + 1 <= MaxRev, NEW state \in States \ {"proposed"},
         NEW disposed \in BOOLEAN, NEW version \in Nat, NEW d, d = Moved(c, state, disposed, version),
         (state = "published") <=> (version # 0),
         (state \in {"rejected", "withdrawn"}) <=> disposed,
         state \in {"accepted", "published"}
           => AllDecided(c) /\ NoneRejected(c) /\ Resolvable(c) /\ ValidDraft(Resolve(c))
  PROVE  /\ d \in Candidate /\ Reviewed(d) /\ Resolve(d) = Resolve(c)
         /\ d.decisions = c.decisions /\ d.version = version /\ d.rev = c.rev + 1 /\ d.state = state
<1>1. MaxRev \in Nat /\ c.rev + 1 \in 1..MaxRev
  BY ConstantsAssumption DEF Candidate
<1>2. /\ d \in Candidate /\ d.decisions = c.decisions /\ d.draft = c.draft /\ d.version = version
      /\ d.rev = c.rev + 1 /\ d.state = state /\ d.disposed = disposed /\ d.read = c.read
      /\ d.confirmed = c.confirmed
  <2> PICK rev : rev = c.rev + 1
    OBVIOUS
  <2>1. d = [c EXCEPT !.state = state, !.rev = rev, !.disposed = disposed, !.version = version]
    BY DEF Moved
  <2> QED
    BY <1>1, <2>1 DEF Candidate
<1>3. /\ Resolve(d) = Resolve(c) /\ Resolvable(d) = Resolvable(c)
      /\ AllDecided(d) = AllDecided(c) /\ NoneRejected(d) = NoneRejected(c)
      /\ ValidChain(d) = ValidChain(c) /\ Kept(d) = Kept(c)
  BY <1>2, SameReview
<1>4. StoredSemantics(d)
  BY <1>2, <1>3 DEF Reviewed, StoredSemantics
<1> QED
  BY <1>2, <1>3, <1>4 DEF Reviewed

\* What a step of the review keeps.
Reviews ==
  TypesInv' /\ RunsInv' /\ WindowsTrail' /\ StoredInv' /\ KernelsDiffer' /\ VersionsKept
    /\ \E a \in Actors, p \in Commands, next \in Candidate : Acted(a, p, next) /\ UNCHANGED open

\* A command that takes the Candidate to another state, and what it has to have checked.
Movable(a, p, c, state, disposed, version) ==
  /\ c = candidates[p] /\ ExpectedRevision(a, p) /\ c.state \notin Ended
  /\ state \in States \ {"proposed"} /\ disposed \in BOOLEAN /\ version \in Nat
  /\ Store(a, p, Moved(c, state, disposed, version))
  /\ (state = "published") <=> (version # 0)
  /\ (state \in {"rejected", "withdrawn"}) <=> disposed
  /\ state \in {"accepted", "published"}
       => AllDecided(c) /\ NoneRejected(c) /\ Resolvable(c) /\ ValidDraft(Resolve(c))

Publishes(c, version) ==
  /\ experiences' \in Seq(Version) /\ VersionsKept /\ KernelsDiffer'
  /\ version # 0 => /\ version \in DOMAIN experiences' /\ experiences'[version].content = Resolve(c)
                    /\ Unresolved(Resolve(c)) = {}

LEMMA ReviewMoves ==
  ASSUME Inv, NEW a \in Actors, NEW p \in Commands, NEW c, NEW state, NEW disposed, NEW version,
         Movable(a, p, c, state, disposed, version), Publishes(c, version)
  PROVE  Reviews
<1> PICK d : d = Moved(c, state, disposed, version)
  OBVIOUS
<1> USE DEF Movable, Publishes
<1>1. c \in Candidate /\ c # NoCandidate /\ Reviewed(c)
  BY DEF ExpectedRevision, Inv, TypesInv, StoredInv
<1>2. c.rev + 1 <= MaxRev
  BY <1>1 DEF Store, Moved, Candidate
<1>3. /\ d \in Candidate /\ Reviewed(d) /\ Resolve(d) = Resolve(c)
      /\ d.decisions = c.decisions /\ d.version = version /\ d.rev = c.rev + 1 /\ d.state = state
  BY <1>1, <1>2, MovedIs
<1>4. Revised(c, d)
  BY <1>1, <1>3 DEF Revised
<1>5. TypesInv' /\ RunsInv' /\ WindowsTrail' /\ Acted(a, p, d)
  BY <1>3, <1>4, StoreIs DEF Inv
<1>6. Published(d)'
  BY <1>3 DEF Published
<1>7. StoredInv'
  BY <1>3, <1>5, <1>6, StoredWith DEF Inv, Acted
<1> QED
  BY <1>3, <1>5, <1>7 DEF Reviews, Store

LEMMA MoveSteps ==
  ASSUME Inv, NEW a \in Actors, NEW p \in Commands,
         Submit(a, p) \/ Accept(a, p) \/ Reject(a, p) \/ Withdraw(a, p)
  PROVE  Reviews
<1> PICK c : c = candidates[p]
  OBVIOUS
<1>1. ExpectedRevision(a, p) /\ UNCHANGED experiences
  BY DEF Submit, Accept, Reject, Withdraw
<1>2. c \in Candidate /\ Reviewed(c)
  BY <1>1 DEF ExpectedRevision, Inv, TypesInv, StoredInv
<1>3. experiences' \in Seq(Version) /\ VersionsKept /\ KernelsDiffer'
  BY <1>1 DEF Inv, TypesInv, VersionsKept, KernelsDiffer
<1>4. c.state \in States \ Ended => c.version = 0 /\ c.disposed = FALSE
  BY <1>2 DEF Reviewed, StoredSemantics, Ended, Candidate
<1>5. CASE Submit(a, p)
  <2> PICK d : d = Moved(c, "in_review", FALSE, 0)
    OBVIOUS
  <2>1. c.state = "proposed" /\ Store(a, p, [c EXCEPT !.state = "in_review", !.rev = @ + 1])
    BY <1>5 DEF Submit
  <2>2. d = [c EXCEPT !.state = "in_review", !.rev = @ + 1]
    BY <1>2, <1>4, <2>1 DEF Moved, Candidate, States, Ended
  <2>4. Movable(a, p, c, "in_review", FALSE, 0)
    BY <1>1, <2>1, <2>2 DEF Movable, States, Ended
  <2> QED
    BY <1>3, <2>4, ReviewMoves DEF Publishes
<1>6. CASE Accept(a, p)
  <2> PICK d : d = Moved(c, "accepted", FALSE, 0)
    OBVIOUS
  <2>1. c.state = "in_review" /\ Store(a, p, [c EXCEPT !.state = "accepted", !.rev = @ + 1])
    BY <1>6 DEF Accept
  <2>2. d = [c EXCEPT !.state = "accepted", !.rev = @ + 1]
    BY <1>2, <1>4, <2>1 DEF Moved, Candidate, States, Ended
  <2>3. AllDecided(c) /\ NoneRejected(c) /\ Resolvable(c) /\ ValidDraft(Resolve(c))
    BY <1>6 DEF Accept, Acceptable
  <2>4. Movable(a, p, c, "accepted", FALSE, 0)
    BY <1>1, <2>1, <2>2, <2>3 DEF Movable, States, Ended
  <2> QED
    BY <1>3, <2>4, ReviewMoves DEF Publishes
<1>7. CASE Reject(a, p)
  <2> PICK d : d = Moved(c, "rejected", TRUE, 0)
    OBVIOUS
  <2>1. c.state = "in_review" /\ Store(a, p, [c EXCEPT !.state = "rejected", !.rev = @ + 1, !.disposed = TRUE])
    BY <1>7 DEF Reject
  <2>2. d = [c EXCEPT !.state = "rejected", !.rev = @ + 1, !.disposed = TRUE]
    BY <1>2, <1>4, <2>1 DEF Moved, Candidate, States, Ended
  <2>4. Movable(a, p, c, "rejected", TRUE, 0)
    BY <1>1, <2>1, <2>2 DEF Movable, States, Ended
  <2> QED
    BY <1>3, <2>4, ReviewMoves DEF Publishes
<1>8. CASE Withdraw(a, p)
  <2> PICK d : d = Moved(c, "withdrawn", TRUE, 0)
    OBVIOUS
  <2>1. c.state \notin Ended /\ Store(a, p, [c EXCEPT !.state = "withdrawn", !.rev = @ + 1, !.disposed = TRUE])
    BY <1>8 DEF Withdraw, Withdrawable, Ended
  <2>2. d = [c EXCEPT !.state = "withdrawn", !.rev = @ + 1, !.disposed = TRUE]
    BY <1>2, <1>4, <2>1 DEF Moved, Candidate, States, Ended
  <2>4. Movable(a, p, c, "withdrawn", TRUE, 0)
    BY <1>1, <2>1, <2>2 DEF Movable, States, Ended
  <2> QED
    BY <1>3, <2>4, ReviewMoves DEF Publishes
<1> QED
  BY <1>5, <1>6, <1>7, <1>8

\* A published draft has a kernel that no active Experience has.
LEMMA PublishStep ==
  ASSUME Inv, NEW a \in Actors, NEW p \in Commands, Publish(a, p)
  PROVE  Reviews
<1> PICK c : c = candidates[p]
  OBVIOUS
<1> PICK n : n = Len(experiences)
  OBVIOUS
<1> PICK v : v = [content |-> Resolve(c), active |-> TRUE]
  OBVIOUS
<1> PICK d : d = Moved(c, "published", FALSE, n + 1)
  OBVIOUS
<1>1. /\ ExpectedRevision(a, p) /\ c.state = "accepted"
      /\ ValidDraft(Resolve(c)) /\ Unresolved(Resolve(c)) = {} /\ ~Holds(Kernel(Resolve(c)))
      /\ experiences' = Append(experiences, v)
      /\ Store(a, p, [c EXCEPT !.state = "published", !.rev = @ + 1, !.version = n + 1])
  BY DEF Publish
<1>2. c \in Candidate /\ Reviewed(c)
  BY <1>1 DEF ExpectedRevision, Inv, TypesInv, StoredInv
<1>3. d = [c EXCEPT !.state = "published", !.rev = @ + 1, !.version = n + 1]
  BY <1>1, <1>2 DEF Moved, Candidate, Reviewed, StoredSemantics
<1>4. AllDecided(c) /\ NoneRejected(c) /\ Resolvable(c)
  BY <1>1, <1>2 DEF Reviewed, StoredSemantics
<1>5. v \in Version /\ v.content = Resolve(c)
  BY <1>2, ResolveIs DEF Version
<1>6. /\ n \in Nat /\ DOMAIN experiences = 1..n /\ experiences' \in Seq(Version) /\ DOMAIN experiences' = 1..(n + 1)
      /\ experiences'[n + 1] = v /\ \A i \in 1..n : experiences'[i] = experiences[i]
  BY <1>1, <1>5, LenProperties, AppendProperties DEF Inv, TypesInv
<1>7. VersionsKept
  BY <1>6 DEF VersionsKept
<1>8. KernelsDiffer'
  <2> SUFFICES ASSUME NEW i \in 1..(n + 1), NEW j \in 1..(n + 1), i # j, experiences'[i].active, experiences'[j].active
               PROVE  Kernel(experiences'[i].content) # Kernel(experiences'[j].content)
    BY <1>6 DEF KernelsDiffer
  <2>1. \A k \in 1..n : experiences[k].active => Kernel(experiences[k].content) # Kernel(v.content)
    BY <1>1, <1>5, <1>6 DEF Holds
  <2>2. CASE i \in 1..n /\ j \in 1..n
    BY <1>6, <2>2 DEF Inv, KernelsDiffer
  <2>3. CASE i = n + 1 /\ j \in 1..n
    BY <1>6, <2>1, <2>3
  <2>4. CASE j = n + 1 /\ i \in 1..n
    BY <1>6, <2>1, <2>4
  <2> QED
    BY <1>6, <2>2, <2>3, <2>4
<1>9. n + 1 \in Nat /\ n + 1 # 0 /\ n + 1 \in DOMAIN experiences' /\ experiences'[n + 1].content = Resolve(c)
  BY <1>5, <1>6
<1>10. Movable(a, p, c, "published", FALSE, n + 1)
  BY <1>1, <1>3, <1>4, <1>9 DEF Movable, States, Ended
<1>11. Publishes(c, n + 1)
  BY <1>1, <1>6, <1>7, <1>8, <1>9 DEF Publishes
<1> QED
  BY <1>10, <1>11, ReviewMoves

\* A decision is appended to the chain of a Candidate in review.
LEMMA DecideStep ==
  ASSUME Inv, NEW a \in Actors, NEW p \in Commands, NEW f \in Fields,
         NEW kind \in {"accept", "reject", "edit"}, NEW value \in Values,
         kind # "edit" => value = candidates[p].draft[f], DecideField(a, p, f, kind, value)
  PROVE  Reviews
<1> PICK c : c = candidates[p]
  OBVIOUS
<1> PICK x : x = [field |-> f, kind |-> kind, value |-> value, supersedes |-> CurrentDecision(c, f)]
  OBVIOUS
<1> PICK rev : rev = c.rev + 1
  OBVIOUS
<1> PICK chain : chain = Append(c.decisions, x)
  OBVIOUS
<1> PICK d : d = [c EXCEPT !.decisions = chain, !.rev = rev]
  OBVIOUS
<1>1. /\ ExpectedRevision(a, p) /\ c.state = "in_review" /\ UNCHANGED experiences
      /\ Store(a, p, [c EXCEPT !.decisions = Append(@, x), !.rev = @ + 1])
  BY DEF DecideField
<1>2. c \in Candidate /\ c # NoCandidate /\ Reviewed(c)
  BY <1>1 DEF ExpectedRevision, Inv, TypesInv, StoredInv
<1>3. Store(a, p, d)
  <2>1. d = [c EXCEPT !.decisions = Append(@, x), !.rev = @ + 1]
    BY <1>2 DEF Candidate
  <2> QED
    BY <1>1, <2>1
<1>4. x \in Decision
  <2>1. CurrentDecision(c, f) \in Nat
    <3>1. CurrentDecision(c, f) = 0 \/ CurrentDecision(c, f) \in 1..Len(c.decisions)
      BY <1>2, CurrentIs, CandidateIs
    <3> QED
      BY <1>2, <3>1, CandidateIs
  <2> QED
    BY <2>1 DEF Decision
<1>5. chain \in Seq(Decision)
  BY <1>2, <1>4, CandidateIs, AppendProperties
<1>6. /\ d.decisions = chain /\ d.rev = rev /\ d.draft = c.draft /\ d.state = "in_review"
      /\ d.disposed = c.disposed /\ d.version = c.version /\ d.read = c.read
      /\ d.confirmed = c.confirmed
  BY <1>1, <1>2 DEF Candidate
<1>7. rev \in 1..MaxRev
  <2>1. rev <= MaxRev
    BY <1>3, <1>6 DEF Store
  <2> QED
    BY <1>2, <2>1, ConstantsAssumption DEF Candidate
<1>8. d \in Candidate
  BY <1>2, <1>5, <1>7 DEF Candidate
<1>9. ValidChain(d) /\ Kept(d)
  BY <1>2, <1>4, <1>6, ChainGrows DEF Reviewed, StoredSemantics
<1>10. Reviewed(d)
  BY <1>1, <1>2, <1>6, <1>9 DEF Reviewed, StoredSemantics
<1>11. d.version = 0
  BY <1>1, <1>2, <1>6 DEF Reviewed, StoredSemantics
<1>12. Published(d)'
  BY <1>11 DEF Published
<1>13. VersionsKept /\ experiences' \in Seq(Version) /\ KernelsDiffer'
  BY <1>1 DEF Inv, TypesInv, VersionsKept, KernelsDiffer
<1>14. Revised(c, d)
  BY <1>1, <1>2, <1>4, <1>6 DEF Revised, Ended
<1>15. TypesInv' /\ RunsInv' /\ WindowsTrail' /\ Acted(a, p, d)
  BY <1>1, <1>3, <1>6, <1>8, <1>13, <1>14, StoreIs DEF Inv
<1>16. StoredInv'
  BY <1>8, <1>10, <1>12, <1>13, <1>15, StoredWith DEF Inv, Acted
<1> QED
  BY <1>3, <1>8, <1>13, <1>15, <1>16 DEF Reviews, Store

-----------------------------------------------------------------------------
\* The steps that are no review: what a step does to the runs when the store stays.
LEMMA SourcesSteps ==
  ASSUME Inv, NEW p,
         SourcesChange \/ (p \in Commands /\ (Inspect(p) \/ Propose(p) \/ Read(p) \/ AskFails(p)))
  PROVE  Inv'
<1> USE DEF Inv
<1>1. UNCHANGED <<candidates, experiences, seen>>
  BY DEF SourcesChange, Inspect, Propose, Read, AskFails
<1>2. WindowsTrail' /\ KernelsDiffer' /\ VersionsKept
  BY <1>1 DEF WindowsTrail, KernelsDiffer, VersionsKept
<1>3. StoredInv'
  BY <1>1, <1>2, StoredSame
<1>4. calls \in [Commands -> Calls] /\ open \in [Commands -> Nat] /\ session \in Readings
  BY DEF TypesInv
<1>5. p \in Commands /\ calls[p].phase \in {"inspected", "reading"} => calls[p].shown \in Readings
  BY <1>4 DEF Calls, Idle
<1>6. TypesInv' /\ RunsInv'
  <2>1. CASE SourcesChange
    <3>1. session' \in Readings
      <4>1. session.rev \in 0..MaxRead /\ session.rev < MaxRead
        BY <1>4, <2>1 DEF SourcesChange, Readings
      <4>2. session.rev + 1 \in 0..MaxRead
        BY <4>1, ConstantsAssumption
      <4> QED
        BY <2>1, <4>2 DEF SourcesChange, Readings, Statuses
    <3>2. UNCHANGED <<calls, open>>
      BY <2>1 DEF SourcesChange
    <3> QED
      BY <1>1, <3>1, <3>2 DEF TypesInv, RunsInv
  <2>2. CASE p \in Commands /\ Inspect(p)
    <3> p \in Commands
      BY <2>2
    <3> PICK x : x = [phase |-> "inspected", shown |-> session]
      OBVIOUS
    <3>1. /\ calls[p].phase \in {"idle", "inspected"} /\ calls' = [calls EXCEPT ![p] = x]
          /\ UNCHANGED <<session, open>>
      BY <2>2 DEF Inspect
    <3>2. x \in Calls /\ x.phase = "inspected"
      BY <1>4 DEF Calls
    <3>3. calls' \in [Commands -> Calls]
      BY <1>4, <3>1, <3>2
    <3>4. calls'[p] = x /\ \A q \in Commands \ {p} : calls'[q] = calls[q]
      BY <1>4, <3>1
    <3> QED
      BY <1>1, <3>1, <3>2, <3>3, <3>4 DEF TypesInv, RunsInv
  <2>3. CASE p \in Commands /\ Propose(p)
    <3> p \in Commands
      BY <2>3
    <3> PICK x : x = [phase |-> "reading", shown |-> calls[p].shown]
      OBVIOUS
    <3>1. /\ calls[p].phase = "inspected" /\ candidates[p] = NoCandidate
          /\ calls' = [calls EXCEPT ![p] = x] /\ UNCHANGED <<session, open>>
      BY <2>3 DEF Propose, Startable, NotCommitted
    <3>2. x \in Calls /\ x.phase = "reading"
      BY <1>5, <3>1 DEF Calls
    <3>3. calls' \in [Commands -> Calls]
      BY <1>4, <3>1, <3>2
    <3>4. calls'[p] = x /\ \A q \in Commands \ {p} : calls'[q] = calls[q]
      BY <1>4, <3>1
    <3> QED
      BY <1>1, <3>1, <3>2, <3>3, <3>4 DEF TypesInv, RunsInv
  <2>4. CASE p \in Commands /\ Read(p) /\ AsConfirmed(p)
    <3> p \in Commands
      BY <2>4
    <3> PICK x : x = [phase |-> "asking", shown |-> calls[p].shown, read |-> session]
      OBVIOUS
    <3>1. /\ calls[p].phase = "reading" /\ session = calls[p].shown
          /\ calls' = [calls EXCEPT ![p] = x] /\ open' = [open EXCEPT ![p] = open[p] + 1]
          /\ UNCHANGED session
      BY <2>4 DEF Read, AsConfirmed
    <3>2. x \in Calls /\ x.phase = "asking" /\ x.read = x.shown
      BY <1>4, <3>1 DEF Calls
    <3>3. open[p] = 0 /\ candidates[p] = NoCandidate
      BY <3>1 DEF RunsInv
    <3>4. calls' \in [Commands -> Calls] /\ open' \in [Commands -> Nat]
      BY <1>4, <3>1, <3>2
    <3>5. /\ calls'[p] = x /\ open'[p] = 1
          /\ \A q \in Commands \ {p} : calls'[q] = calls[q] /\ open'[q] = open[q]
      BY <1>4, <3>1, <3>3
    <3> QED
      BY <1>1, <3>1, <3>2, <3>3, <3>4, <3>5 DEF TypesInv, RunsInv
  <2>5. CASE p \in Commands /\ ((Read(p) /\ ~AsConfirmed(p)) \/ AskFails(p))
    <3> p \in Commands
      BY <2>5
    <3>1. /\ calls' = [calls EXCEPT ![p] = Idle] /\ UNCHANGED session
          /\ open' = [open EXCEPT ![p] = 0] \/ (calls[p].phase = "reading" /\ UNCHANGED open)
      BY <2>5 DEF Read, AskFails
    <3>2. Idle \in Calls /\ Idle.phase = "idle"
      BY DEF Calls, Idle
    <3>3. calls' \in [Commands -> Calls] /\ open' \in [Commands -> Nat]
      BY <1>4, <3>1, <3>2
    <3>4. calls'[p] = Idle /\ \A q \in Commands \ {p} : calls'[q] = calls[q] /\ open'[q] = open[q]
      BY <1>4, <3>1
    <3>5. open'[p] = 0
      BY <1>4, <3>1 DEF RunsInv
    <3> QED
      BY <1>1, <3>1, <3>2, <3>3, <3>4, <3>5 DEF TypesInv, RunsInv
  <2> QED
    BY <2>1, <2>2, <2>3, <2>4, <2>5
<1> QED
  BY <1>2, <1>3, <1>6

\* An answer is stored as it was asked for, unreviewed.
LEMMA AnswerStep ==
  ASSUME Inv, NEW p \in Commands, NEW draft \in DraftContents, NEW missing \in BOOLEAN,
         Answer(p, draft, missing)
  PROVE  Inv' /\ candidates[p] = NoCandidate
<1> USE DEF Inv
<1> PICK x : x = [state |-> "proposed", rev |-> 1, draft |-> draft, missing |-> missing,
                  status |-> calls[p].read.status, confirmed |-> calls[p].shown, read |-> calls[p].read,
                  decisions |-> <<>>, disposed |-> FALSE, version |-> 0]
  OBVIOUS
<1>1. calls[p].phase = "asking" /\ candidates[p] = NoCandidate /\ open[p] = 1 /\ calls[p].read = calls[p].shown
  BY DEF Answer, RunsInv
<1>2. /\ ValidDraft(draft) /\ open' = [open EXCEPT ![p] = open[p] - 1] /\ calls' = [calls EXCEPT ![p] = Idle]
      /\ candidates' = [candidates EXCEPT ![p] = x] /\ UNCHANGED <<session, experiences, seen>>
  BY <1>1 DEF Answer
<1>3. calls[p].read \in Readings /\ calls[p].shown \in Readings
  <2>1. calls[p] \in Calls
    BY DEF TypesInv
  <2> QED
    BY <1>1, <2>1 DEF Calls, Idle
<1>4. x \in Candidate
  <2>1. 1 \in 1..MaxRev
    BY ConstantsAssumption
  <2>2. calls[p].read.status \in Statuses
    BY <1>3 DEF Readings
  <2>3. <<>> \in Seq(Decision)
    BY EmptySeq
  <2> QED
    BY <1>3, <2>1, <2>2, <2>3 DEF Candidate, States
<1>5. Reviewed(x)
  <2>1. x.decisions = <<>> /\ DOMAIN x.decisions = {}
    BY EmptySeq
  <2>2. ValidChain(x) /\ Kept(x)
    BY <2>1 DEF ValidChain, Kept
  <2> QED
    BY <1>1, <1>2, <2>1, <2>2 DEF Reviewed, StoredSemantics
<1>6. VersionsKept /\ KernelsDiffer'
  BY <1>2 DEF VersionsKept, KernelsDiffer
<1>7. Published(x)'
  BY DEF Published
<1>8. StoredInv'
  BY <1>2, <1>4, <1>5, <1>6, <1>7, StoredWith
<1>9. TypesInv'
  <2>1. Idle \in Calls /\ open[p] - 1 \in Nat
    BY <1>1 DEF Calls
  <2> QED
    BY <1>2, <1>4, <2>1 DEF TypesInv
<1>10. /\ candidates'[p] = x /\ calls'[p] = Idle /\ open'[p] = 0
       /\ \A q \in Commands \ {p} : candidates'[q] = candidates[q] /\ calls'[q] = calls[q] /\ open'[q] = open[q]
  <2>1. open[p] - 1 = 0
    BY <1>1
  <2>2. open' = [open EXCEPT ![p] = 0]
    BY <1>2, <2>1
  <2> QED
    BY <1>2, <2>2 DEF TypesInv
<1>11. RunsInv'
  BY <1>10 DEF RunsInv, Idle
<1>12. WindowsTrail'
  BY <1>1, <1>2, <1>10 DEF WindowsTrail
<1> QED
  BY <1>1, <1>6, <1>8, <1>9, <1>11, <1>12

LEMMA LookStep ==
  ASSUME Inv, NEW a \in Actors, NEW p \in Commands, Look(a, p)
  PROVE  Inv'
<1> USE DEF Inv
<1>1. /\ candidates[p] # NoCandidate /\ seen' = [seen EXCEPT ![a][p] = candidates[p]]
      /\ UNCHANGED <<session, calls, open, candidates, experiences>>
  BY DEF Look
<1>2. VersionsKept /\ KernelsDiffer' /\ RunsInv'
  BY <1>1 DEF VersionsKept, KernelsDiffer, RunsInv
<1>3. StoredInv'
  BY <1>1, <1>2, StoredSame
<1>4. TypesInv'
  BY <1>1 DEF TypesInv
<1>5. /\ seen'[a][p] = candidates[p]
      /\ \A b \in Actors, q \in Commands : b # a \/ q # p => seen'[b][q] = seen[b][q]
  BY <1>1 DEF TypesInv
<1>6. candidates[p].rev \in Nat
  BY <1>1 DEF TypesInv, Candidate
<1>7. WindowsTrail'
  <2> SUFFICES ASSUME NEW b \in Actors, NEW q \in Commands, seen'[b][q] # NoCandidate
               PROVE  /\ candidates[q] # NoCandidate
                      /\ seen'[b][q].rev <= candidates[q].rev
                      /\ seen'[b][q].rev = candidates[q].rev => seen'[b][q] = candidates[q]
    BY <1>1 DEF WindowsTrail
  <2>1. CASE b = a /\ q = p
    BY <1>1, <1>5, <1>6, <2>1
  <2>2. CASE b # a \/ q # p
    BY <1>5, <2>2 DEF WindowsTrail
  <2> QED
    BY <2>1, <2>2
<1> QED
  BY <1>2, <1>3, <1>4, <1>7

LEMMA ForgetStep ==
  ASSUME Inv, NEW i \in DOMAIN experiences, Forget(i)
  PROVE  Inv'
<1> USE DEF Inv
<1>1. /\ experiences' = [experiences EXCEPT ![i].active = FALSE]
      /\ UNCHANGED <<session, calls, open, candidates, seen>>
  BY DEF Forget
<1> PICK v : v = [experiences[i] EXCEPT !.active = FALSE]
  OBVIOUS
<1>2. v \in Version /\ v.content = experiences[i].content /\ v.active = FALSE
  <2>1. experiences[i] \in Version
    BY ElementOfSeq, LenProperties DEF TypesInv
  <2> QED
    BY <2>1 DEF Version
<1>3. experiences' = [experiences EXCEPT ![i] = v]
  BY <1>1
<1>4. experiences' \in Seq(Version)
  BY <1>2, <1>3, ExceptSeq DEF TypesInv
<1>5. /\ DOMAIN experiences' = DOMAIN experiences /\ experiences'[i] = v
      /\ \A j \in DOMAIN experiences \ {i} : experiences'[j] = experiences[j]
  BY <1>3
<1>6. VersionsKept
  BY <1>2, <1>5 DEF VersionsKept
<1>7. KernelsDiffer'
  BY <1>2, <1>5 DEF KernelsDiffer
<1>8. StoredInv'
  BY <1>1, <1>6, StoredSame
<1>9. TypesInv' /\ RunsInv' /\ WindowsTrail'
  BY <1>1, <1>4 DEF TypesInv, RunsInv, WindowsTrail
<1> QED
  BY <1>7, <1>8, <1>9

LEMMA Stutter ==
  ASSUME Inv, UNCHANGED vars
  PROVE  Inv'
<1> USE DEF Inv, vars
<1>1. VersionsKept /\ KernelsDiffer'
  BY DEF VersionsKept, KernelsDiffer
<1>2. StoredInv'
  BY <1>1, StoredSame
<1> QED
  BY <1>1, <1>2 DEF TypesInv, RunsInv, WindowsTrail

-----------------------------------------------------------------------------
\* What a step does to the decisions and to the requests.
CommandActs ==
  \A p \in Commands : candidates[p] # NoCandidate /\ candidates'[p] # candidates[p] =>
    LET done == candidates[p].decisions IN
    /\ SubSeq(candidates'[p].decisions, 1, Len(done)) = done
    /\ candidates[p].state \notin {"published", "rejected", "withdrawn"}
    /\ \E a \in Actors : seen[a][p] = candidates[p]
    /\ \A a \in Actors : seen'[a] # seen[a] => seen[a][p] = candidates[p]

AsksOnce ==
  \A p \in Commands : open'[p] > open[p] => open[p] = 0 /\ candidates[p] = NoCandidate

LEMMA DecisionsGrow ==
  ASSUME NEW c \in Candidate, NEW d, Revised(c, d)
  PROVE  SubSeq(d.decisions, 1, Len(c.decisions)) = c.decisions
<1> PICK s : s = c.decisions
  OBVIOUS
<1>1. s \in Seq(Decision) /\ Len(s) \in Nat
  BY CandidateIs
<1>2. CASE d.decisions = s
  BY <1>1, <1>2, SubSeqFull
<1>3. CASE \E x \in Decision : d.decisions = Append(s, x)
  <2> PICK x \in Decision : d.decisions = Append(s, x)
    BY <1>3
  <2> PICK t : t = Append(s, x)
    OBVIOUS
  <2> PICK u : u = SubSeq(t, 1, Len(s))
    OBVIOUS
  <2>1. t \in Seq(Decision) /\ Len(t) = Len(s) + 1 /\ \A i \in 1..Len(s) : t[i] = s[i]
    BY <1>1, AppendProperties
  <2>2. \A i \in 1..Len(s) : t[i] \in Decision
    BY <1>1, <2>1, ElementOfSeq
  <2>3. u \in Seq(Decision) /\ Len(u) = Len(s) /\ \A i \in 1..Len(s) : u[i] = t[i]
    BY <1>1, <2>2, SubSeqProperties
  <2> QED
    BY <1>1, <2>1, <2>3, SeqEqual
<1> QED
  BY <1>2, <1>3 DEF Revised

LEMMA ReviewActs ==
  ASSUME Inv, Reviews
  PROVE  Inv' /\ CommandActs /\ AsksOnce
<1> PICK a \in Actors, p \in Commands, next \in Candidate : Acted(a, p, next) /\ UNCHANGED open
  BY DEF Reviews
<1>1. /\ candidates' = [candidates EXCEPT ![p] = next]
      /\ seen' = [seen EXCEPT ![a][p] = next] \/ seen' = seen
      /\ seen[a][p] = candidates[p] /\ Revised(candidates[p], next)
  BY DEF Acted
<1>2. candidates[p] \in Candidate
  BY <1>1 DEF Revised, Inv, TypesInv
<1>3. candidates'[p] = next /\ \A q \in Commands \ {p} : candidates'[q] = candidates[q]
  BY <1>1 DEF Inv, TypesInv
<1>4. \A b \in Actors \ {a} : seen'[b] = seen[b]
  BY <1>1 DEF Inv, TypesInv
<1>5. CommandActs
  <2>1. SubSeq(next.decisions, 1, Len(candidates[p].decisions)) = candidates[p].decisions
    BY <1>1, <1>2, DecisionsGrow
  <2>2. candidates[p].state \notin {"published", "rejected", "withdrawn"}
    BY <1>1 DEF Revised, Ended
  <2> QED
    BY <1>1, <1>3, <1>4, <2>1, <2>2 DEF CommandActs
<1>6. AsksOnce
  BY DEF AsksOnce, Inv, TypesInv
<1> QED
  BY <1>5, <1>6 DEF Inv, Reviews

\* The steps of a run ask once, for a Candidate that is not stored.
LEMMA RunAsks ==
  ASSUME Inv, NEW p,
         SourcesChange \/ (p \in Commands /\ (Inspect(p) \/ Propose(p) \/ Read(p) \/ AskFails(p)))
  PROVE  CommandActs /\ AsksOnce
<1>1. UNCHANGED candidates
  BY DEF SourcesChange, Inspect, Propose, Read, AskFails
<1>2. CommandActs
  BY <1>1 DEF CommandActs
<1>3. open \in [Commands -> Nat]
  BY DEF Inv, TypesInv
<1>4. CASE UNCHANGED open
  <2>1. ASSUME NEW q \in Commands PROVE ~(open'[q] > open[q])
    <3>1. open[q] \in Nat /\ open'[q] = open[q]
      BY <1>3, <1>4
    <3> QED
      BY <3>1
  <2> QED
    BY <1>2, <2>1 DEF AsksOnce
<1>5. CASE p \in Commands /\ Read(p) /\ open' = [open EXCEPT ![p] = open[p] + 1]
  <2>1. open[p] = 0 /\ candidates[p] = NoCandidate
    BY <1>5 DEF Read, Inv, RunsInv
  <2>2. ASSUME NEW q \in Commands, q # p PROVE ~(open'[q] > open[q])
    <3>1. open[q] \in Nat /\ open'[q] = open[q]
      BY <1>3, <1>5, <2>2
    <3> QED
      BY <3>1
  <2> QED
    BY <1>2, <2>1, <2>2 DEF AsksOnce
<1>6. CASE p \in Commands /\ open' = [open EXCEPT ![p] = 0]
  <2>1. ASSUME NEW q \in Commands PROVE ~(open'[q] > open[q])
    <3>1. open[q] \in Nat /\ (open'[q] = open[q] \/ open'[q] = 0)
      BY <1>3, <1>6
    <3> QED
      BY <3>1
  <2> QED
    BY <1>2, <2>1 DEF AsksOnce
<1>7. UNCHANGED open \/ (p \in Commands /\ Read(p) /\ open' = [open EXCEPT ![p] = open[p] + 1])
        \/ (p \in Commands /\ open' = [open EXCEPT ![p] = 0])
  BY DEF SourcesChange, Inspect, Propose, Read, AskFails
<1> QED
  BY <1>2, <1>4, <1>5, <1>6, <1>7

LEMMA AnswerActs ==
  ASSUME Inv, NEW p \in Commands, NEW draft \in DraftContents, NEW missing \in BOOLEAN,
         Answer(p, draft, missing)
  PROVE  CommandActs /\ AsksOnce
<1>1. candidates[p] = NoCandidate /\ open[p] = 1
  BY DEF Answer, Inv, RunsInv
<1>2. open \in [Commands -> Nat] /\ candidates \in [Commands -> Candidate \cup {NoCandidate}]
  BY DEF Inv, TypesInv
<1>3. \A q \in Commands \ {p} : candidates'[q] = candidates[q] /\ open'[q] = open[q]
  BY <1>2 DEF Answer
<1>4. open'[p] = open[p] - 1
  BY <1>2 DEF Answer
<1>5. CommandActs
  BY <1>1, <1>3 DEF CommandActs
<1>6. AsksOnce
  <2>1. \A q \in Commands : open[q] \in Nat
    BY <1>2
  <2>2. ~(open'[p] > open[p])
    BY <1>1, <1>4
  <2> QED
    BY <1>3, <2>1, <2>2 DEF AsksOnce
<1> QED
  BY <1>5, <1>6

LEMMA NextOk ==
  ASSUME Inv, [Next]_vars
  PROVE  Inv' /\ CommandActs /\ AsksOnce
<1>1. CASE UNCHANGED vars
  <2>1. Inv'
    BY <1>1, Stutter
  <2>2. CommandActs /\ AsksOnce
    BY <1>1 DEF vars, CommandActs, AsksOnce, Inv, TypesInv
  <2> QED
    BY <2>1, <2>2
<1>2. CASE SourcesChange
  BY <1>2, SourcesSteps, RunAsks
<1>3. ASSUME NEW p \in Commands, Inspect(p) \/ Propose(p) \/ Read(p) \/ AskFails(p)
      PROVE  Inv' /\ CommandActs /\ AsksOnce
  BY <1>3, SourcesSteps, RunAsks
<1>4. ASSUME NEW p \in Commands, NEW d \in Proposals, Answer(p, d.draft, d.missing)
      PROVE  Inv' /\ CommandActs /\ AsksOnce
  <2>1. d.draft \in DraftContents /\ d.missing \in BOOLEAN
    BY ConstantsAssumption
  <2> QED
    BY <1>4, <2>1, AnswerStep, AnswerActs
<1>5. ASSUME NEW p \in Commands, NEW a \in Actors, Look(a, p)
      PROVE  Inv' /\ CommandActs /\ AsksOnce
  <2>1. UNCHANGED <<candidates, open>>
    BY <1>5 DEF Look
  <2>2. CommandActs /\ AsksOnce
    BY <2>1 DEF CommandActs, AsksOnce, Inv, TypesInv
  <2> QED
    BY <1>5, <2>2, LookStep
<1>6. ASSUME NEW p \in Commands, NEW a \in Actors,
             Submit(a, p) \/ Accept(a, p) \/ Reject(a, p) \/ Withdraw(a, p)
      PROVE  Inv' /\ CommandActs /\ AsksOnce
  BY <1>6, MoveSteps, ReviewActs
<1>7. ASSUME NEW p \in Commands, NEW a \in Actors, Publish(a, p)
      PROVE  Inv' /\ CommandActs /\ AsksOnce
  BY <1>7, PublishStep, ReviewActs
<1>8. ASSUME NEW p \in Commands, NEW a \in Actors, NEW f \in Fields, NEW kind \in {"accept", "reject"},
             KeepOrReject(a, p, f, kind)
      PROVE  Inv' /\ CommandActs /\ AsksOnce
  <2> PICK value : value = candidates[p].draft[f]
    OBVIOUS
  <2>1. candidates[p] # NoCandidate /\ DecideField(a, p, f, kind, value)
    BY <1>8 DEF KeepOrReject
  <2>2. value \in Values
    BY <2>1 DEF Inv, TypesInv, Candidate, DraftContents
  <2> QED
    BY <2>1, <2>2, DecideStep, ReviewActs
<1>9. ASSUME NEW p \in Commands, NEW a \in Actors, NEW f \in Fields, NEW value \in Edits,
             DecideField(a, p, f, "edit", value)
      PROVE  Inv' /\ CommandActs /\ AsksOnce
  <2>1. value \in Values
    BY ConstantsAssumption
  <2> QED
    BY <1>9, <2>1, DecideStep, ReviewActs
<1>10. ASSUME NEW i \in DOMAIN experiences, Forget(i)
       PROVE  Inv' /\ CommandActs /\ AsksOnce
  <2>1. UNCHANGED <<candidates, open>>
    BY <1>10 DEF Forget
  <2>2. CommandActs /\ AsksOnce
    BY <2>1 DEF CommandActs, AsksOnce, Inv, TypesInv
  <2> QED
    BY <1>10, <2>2, ForgetStep
<1> QED
  BY <1>1, <1>2, <1>3, <1>4, <1>5, <1>6, <1>7, <1>8, <1>9, <1>10 DEF Next

-----------------------------------------------------------------------------
\* The inductive invariant has what the runs check.
LEMMA InvTypes == Inv => TypeOK
<1> SUFFICES ASSUME Inv PROVE TypeOK
  OBVIOUS
<1> USE DEF Inv
<1>1. session \in [rev: 0..MaxRead, status: {"eligible", "candidate_only", "ineligible"}]
  BY DEF TypesInv, Readings, Statuses
<1>2. ASSUME NEW p \in Commands
      PROVE  /\ calls[p].phase \in {"idle", "inspected", "reading", "asking"}
             /\ open[p] \in Nat
             /\ candidates[p] # NoCandidate =>
                  /\ candidates[p].state \in {"proposed", "in_review", "accepted", "published",
                                              "rejected", "withdrawn"}
                  /\ candidates[p].rev \in 1..MaxRev
                  /\ candidates[p].draft \in DraftContents
                  /\ candidates[p].version \in 0..Len(experiences)
  <2>1. calls[p] \in Calls /\ open[p] \in Nat
    BY DEF TypesInv
  <2>2. calls[p].phase \in {"idle", "inspected", "reading", "asking"}
    BY <2>1 DEF Calls, Idle
  <2>3. ASSUME candidates[p] # NoCandidate
        PROVE  /\ candidates[p].state \in States /\ candidates[p].rev \in 1..MaxRev
               /\ candidates[p].draft \in DraftContents /\ candidates[p].version \in 0..Len(experiences)
    <3>1. candidates[p] \in Candidate
      BY <2>3 DEF TypesInv
    <3>2. Len(experiences) \in Nat /\ DOMAIN experiences = 1..Len(experiences)
      BY LenProperties DEF TypesInv
    <3>3. candidates[p].version # 0 => candidates[p].version \in DOMAIN experiences
      BY <2>3 DEF StoredInv, Published
    <3> QED
      BY <3>1, <3>2, <3>3 DEF Candidate
  <2> QED
    BY <2>1, <2>2, <2>3 DEF States
<1>3. ASSUME NEW i \in DOMAIN experiences PROVE experiences[i].content \in DraftContents
  <2>1. experiences[i] \in Version
    BY ElementOfSeq, LenProperties DEF TypesInv
  <2> QED
    BY <2>1 DEF Version
<1>4. DOMAIN seen = Actors /\ \A a \in Actors : DOMAIN seen[a] = Commands
  BY DEF TypesInv
<1> QED
  BY <1>1, <1>2, <1>3, <1>4 DEF TypeOK

\* A Candidate that cannot be shown is one an edit that counts has made so, and it is not
\* one that a Version comes or came from.
LEMMA UnviewableIs ==
  ASSUME NEW c \in Candidate, StoredSemantics(c), ~Resolvable(c)
  PROVE  /\ c.state \in {"in_review", "rejected", "withdrawn"}
         /\ \E f \in PlainFields : /\ Decided(c, f, "edit")
                                   /\ c.decisions[CurrentDecision(c, f)].value.content = Malformed
<1>1. PICK f \in PlainFields : Resolve(c)[f].content = Malformed
  BY DEF Resolvable
<1>2. f \in Fields /\ c.draft[f].content # Malformed
  BY DEF Fields, StoredSemantics, ValidDraft
<1>3. Resolve(c)[f] = IF Decided(c, f, "edit") THEN c.decisions[CurrentDecision(c, f)].value
                      ELSE c.draft[f]
  BY <1>2 DEF Resolve
<1>4. Decided(c, f, "edit") /\ c.decisions[CurrentDecision(c, f)].value.content = Malformed
  BY <1>1, <1>2, <1>3
<1>5. c.decisions # <<>>
  BY <1>4 DEF Decided, CurrentDecision
<1>6. c.state \in States \ {"proposed", "accepted", "published"}
  BY <1>5 DEF Candidate, StoredSemantics
<1> QED
  BY <1>4, <1>6 DEF States

LEMMA InvSound == Inv => CandidateSound
<1> SUFFICES ASSUME Inv PROVE CandidateSound
  OBVIOUS
<1> USE DEF Inv
<1>1. TypeOK
  BY InvTypes
<1>2. CandidateStored /\ ExtractedAsConfirmed
  BY UnviewableIs DEF StoredInv, TypesInv, Reviewed, CandidateStored, ExtractedAsConfirmed
<1>3. PublishedIsReviewed
  <2> SUFFICES ASSUME NEW p \in Commands, candidates[p] # NoCandidate /\ candidates[p].version # 0,
                      NEW f \in Fields
               PROVE  \E i \in DOMAIN candidates[p].decisions :
                        /\ candidates[p].decisions[i].field = f
                        /\ \A j \in (i + 1)..Len(candidates[p].decisions) :
                             candidates[p].decisions[j].field # f
                        /\ candidates[p].decisions[i].kind # "reject"
                        /\ experiences[candidates[p].version].content[f].content
                             = candidates[p].decisions[i].value.content
                        /\ experiences[candidates[p].version].content[f].sources # {}
    BY DEF PublishedIsReviewed
  <2> PICK c : c = candidates[p]
    OBVIOUS
  <2>1. c \in Candidate /\ StoredSemantics(c) /\ Kept(c) /\ Published(c)
    BY DEF TypesInv, StoredInv, Reviewed
  <2>2. experiences[c.version].content = Resolve(c) /\ Unresolved(Resolve(c)) = {}
    BY <2>1 DEF Published
  <2>3. c.version # 0
    OBVIOUS
  <2> QED
    BY <2>1, <2>2, <2>3, ReviewedIs
<1>4. ReadinessAgrees
  BY DEF ReadinessAgrees, Ready, Acceptable
<1> QED
  BY <1>1, <1>2, <1>3, <1>4 DEF CandidateSound

LEMMA Invariance == Spec => []Inv
<1>1. Init => Inv
  BY InitOk
<1>2. Inv /\ [Next]_vars => Inv'
  BY NextOk
<1> QED
  BY <1>1, <1>2, PTL DEF Spec

-----------------------------------------------------------------------------
\* What review leaves in the store is sound: the windows, the model's answers, the changed
\* sources and Forget may come in any order, over any number of Candidates.  A Candidate that
\* an edit of another shape keeps from being shown is never accepted or published with it.
THEOREM StoredIsSound == Spec => []CandidateSound
<1>1. Inv => CandidateSound
  BY InvSound
<1> QED
  BY <1>1, Invariance, PTL

\* The model is asked by one run of a command at a time, and not once its Candidate is stored.
THEOREM AskedOnce == Spec => NotAskedAgain
<1>1. Inv /\ [Next]_vars => AsksOnce
  BY NextOk
<1>2. Spec => [][AsksOnce]_vars
  BY <1>1, Invariance, PTL DEF Spec
<1> QED
  BY <1>2 DEF NotAskedAgain, AsksOnce

\* A command acts on the Candidate that some window last read or made, adds to the decisions and
\* rewrites none; what was published, rejected or withdrawn stays as it is.
THEOREM ReviewsWhatItSaw == Spec => ActsOnWhatItSaw
<1>1. Inv /\ [Next]_vars => CommandActs
  BY NextOk
<1>2. Spec => [][CommandActs]_vars
  BY <1>1, Invariance, PTL DEF Spec
<1> QED
  BY <1>2 DEF ActsOnWhatItSaw, CommandActs

-----------------------------------------------------------------------------
(* The proposal of a Candidate by a model.  A run that goes on is the one  *)
(* its command waits for; from the second disclosure on it holds the       *)
(* packet that was confirmed, and its log is that of a Session in which    *)
(* every turn, step and call will be ended.                                *)

Events == {"turn/start", "step/start", "step/end", "turn/end", "system/message", "user/message",
           "request/header", "request/context", "assistant/message", "call", "accepted", "rejected"}
Settled == [packet : Packet, settings : Nat, effort : Efforts, max : {0, 1}]
Stages == {"reading", "resolving", "preparing", "streaming", "flushing", "storing", "ended"}
Runs == [command : ProposalCommands, pc : Stages, settings : Nat, packet : Packet,
         log : Seq(Events), ok : BOOLEAN, sent : Settled \cup {Nil}]
Worlds == [packet : Packet, settings : Nat, route : [effort : Efforts, max : {0, 1}]]

ProposalTypes ==
  /\ world \in Worlds
  /\ confirmed \in [ProposalCommands -> Settled \cup {Nil}]
  /\ inFlight \in [ProposalCommands -> Nat]
  /\ \A c \in ProposalCommands : inFlight[c] \in 0..Len(runs)
  /\ runs \in Seq(Runs) /\ durable \in Seq(Seq(Events)) /\ Len(durable) = Len(runs)
  /\ stored \in [ProposalCommands -> [run : Nat, packet : Packet] \cup {Nil}]

\* The prefixes of a log.
Opened == <<"turn/start", "step/start">>
Request == <<"system/message", "user/message", "request/header", "request/context">>

\* One call was accepted, for the packet that was sent.
Answered(r, log) ==
  /\ Count(log, "call") = 1 /\ Count(log, "accepted") = 1
  /\ runs[r].sent.packet = runs[r].packet

\* How far a run has come.
RunFits(r) ==
  LET run == runs[r]
      shown == confirmed[run.command]
  IN  /\ shown # Nil
      /\ run.pc # "ended" => inFlight[run.command] = r
      /\ run.pc \in {"reading", "resolving"} => run.sent = Nil
      /\ run.pc = "preparing" => /\ shown = Disclosure(run.packet, run.settings, shown.effort, shown.max)
                                 /\ run.log = Opened /\ run.sent = Nil
      /\ run.pc = "streaming" => run.log = Opened \o Request /\ run.sent.packet = run.packet
      /\ run.pc = "flushing" => SessionComplete(run.log) /\ (run.ok => Answered(r, run.log))
      /\ run.pc = "storing" => Answered(r, durable[r])

\* What was stored names a run that has ended.
StoredFits(c) ==
  stored[c] # Nil => /\ stored[c].run \in DOMAIN runs /\ runs[stored[c].run].pc = "ended"
                     /\ CandidateAuditable(stored[c])

ProposalInv ==
  /\ ProposalTypes
  /\ SentAsDisclosed
  /\ \A r \in DOMAIN runs : RunFits(r)
  /\ \A r \in DOMAIN durable : SessionComplete(durable[r])
  /\ \A c \in ProposalCommands : StoredFits(c)

-----------------------------------------------------------------------------
\* Counting the events of a log.
LEMMA CountConcat ==
  ASSUME NEW l \in Seq(Events), NEW m \in Seq(Events), NEW e
  PROVE  /\ Count(l, e) \in Nat
         /\ Count(l \o m, e) = Count(l, e) + Count(m, e)
<1> DEFINE At(s) == {i \in DOMAIN s : s[i] = e}
           moved == {i + Len(l) : i \in At(m)}
<1>1. Len(l) \in Nat /\ Len(m) \in Nat /\ DOMAIN l = 1..Len(l) /\ DOMAIN m = 1..Len(m)
  OBVIOUS
<1>2. /\ IsFiniteSet(1..Len(l)) /\ IsFiniteSet(1..Len(m))
      /\ At(l) \in SUBSET (1..Len(l)) /\ At(m) \in SUBSET (1..Len(m))
  <2>1. IsFiniteSet(1..Len(l)) /\ IsFiniteSet(1..Len(m))
    <3>1. 1 \in Int /\ Len(l) \in Int /\ Len(m) \in Int
      BY <1>1
    <3> QED BY <3>1, FS_Interval
  <2>2. At(l) \subseteq 1..Len(l) /\ At(m) \subseteq 1..Len(m)
    BY <1>1
  <2> QED BY <2>1, <2>2
<1>3. IsFiniteSet(At(l)) /\ IsFiniteSet(At(m))
  <2> HIDE DEF At
  <2> QED BY <1>2, FS_Subset
<1>4. IsFiniteSet(moved) /\ Cardinality(moved) = Cardinality(At(m))
  <2> DEFINE f == [i \in At(m) |-> i + Len(l)]
  <2>1. f \in Bijection(At(m), moved)
    <3>1. \A i \in At(m) : f[i] \in moved /\ i \in Nat
      BY <1>1
    <3>2. \A i, j \in At(m) : f[i] = f[j] => i = j
      BY <3>1, <1>1
    <3>3. \A x \in moved : \E i \in At(m) : f[i] = x
      OBVIOUS
    <3>4. DOMAIN f = At(m) /\ f = [i \in DOMAIN f |-> f[i]]
      OBVIOUS
    <3> HIDE DEF f, moved, At
    <3>5. f \in [At(m) -> moved]
      BY <3>1, <3>4
    <3> QED BY <3>2, <3>3, <3>5 DEF Bijection, Injection, Surjection, IsInjective
  <2> HIDE DEF f, moved, At
  <2>2. ExistsBijection(At(m), moved)
    BY <2>1 DEF ExistsBijection
  <2> QED BY <2>2, <1>3, FS_Bijection
<1>5. At(l \o m) = At(l) \cup moved /\ At(l) \cap moved = {}
  <2>1. DOMAIN (l \o m) = 1..(Len(l) + Len(m))
    BY <1>1
  <2>2. \A i \in 1..Len(l) : (l \o m)[i] = l[i]
    BY <1>1
  <2>3. \A i \in 1..Len(m) : (l \o m)[i + Len(l)] = m[i]
    BY <1>1
  <2>4. ASSUME NEW i \in At(l \o m) PROVE i \in At(l) \cup moved
    <3>1. i \in 1..(Len(l) + Len(m)) /\ (l \o m)[i] = e
      BY <2>1
    <3>2. CASE i \in 1..Len(l)
      BY <3>1, <3>2, <2>2, <1>1
    <3>3. CASE i \notin 1..Len(l)
      <4>1. i - Len(l) \in 1..Len(m) /\ (i - Len(l)) + Len(l) = i
        BY <3>1, <3>3, <1>1
      <4>2. m[i - Len(l)] = e
        BY <4>1, <2>3, <3>1
      <4> QED BY <4>1, <4>2, <1>1
    <3> QED BY <3>2, <3>3
  <2>5. ASSUME NEW i \in At(l) PROVE i \in At(l \o m)
    BY <2>1, <2>2, <1>1
  <2>6. ASSUME NEW i \in At(m) PROVE i + Len(l) \in At(l \o m)
    <3>1. i \in 1..Len(m) /\ m[i] = e
      BY <1>1
    <3>2. i + Len(l) \in 1..(Len(l) + Len(m))
      BY <3>1, <1>1
    <3> QED BY <3>1, <3>2, <2>1, <2>3
  <2>7. At(l) \cap moved = {}
    BY <1>1
  <2> QED BY <2>4, <2>5, <2>6, <2>7
<1>6. Cardinality(At(l)) \in Nat /\ Cardinality(At(m)) \in Nat
  <2> HIDE DEF At
  <2> QED BY <1>3, FS_CardinalityType
<1>7. Cardinality(At(l) \cup moved) = Cardinality(At(l)) + Cardinality(At(m))
  <2> HIDE DEF At, moved
  <2>1. Cardinality(At(l) \cap moved) = 0
    BY <1>5, FS_EmptySet
  <2>2. Cardinality(At(l) \cup moved)
          = Cardinality(At(l)) + Cardinality(moved) - Cardinality(At(l) \cap moved)
    BY <1>3, <1>4, FS_Union
  <2> QED BY <1>4, <1>6, <2>1, <2>2
<1> QED BY <1>5, <1>6, <1>7 DEF Count

\* A log of one event.
LEMMA CountOne ==
  ASSUME NEW a \in Events, NEW e
  PROVE  /\ <<a>> \in Seq(Events)
         /\ Count(<<a>>, e) = IF a = e THEN 1 ELSE 0
<1>1. <<a>> \in Seq(Events) /\ DOMAIN <<a>> = {1} /\ <<a>>[1] = a
  OBVIOUS
<1>2. {i \in DOMAIN <<a>> : <<a>>[i] = e} = IF a = e THEN {1} ELSE {}
  BY <1>1
<1> QED BY <1>1, <1>2, FS_EmptySet, FS_Singleton DEF Count

LEMMA CountNone ==
  ASSUME NEW e
  PROVE  <<>> \in Seq(Events) /\ Count(<<>>, e) = 0
<1>1. {i \in DOMAIN <<>> : <<>>[i] = e} = {}
  OBVIOUS
<1> QED BY <1>1, FS_EmptySet DEF Count

\* Two events.
LEMMA CountTwo ==
  ASSUME NEW a \in Events, NEW b \in Events, NEW e
  PROVE  /\ <<a, b>> \in Seq(Events)
         /\ Count(<<a, b>>, e) = (IF a = e THEN 1 ELSE 0) + (IF b = e THEN 1 ELSE 0)
<1>1. <<a, b>> = <<a>> \o <<b>>
  <2> DEFINE s == <<a, b>>
             t == <<a>> \o <<b>>
  <2>1. s \in Seq(Events) /\ Len(s) = 2 /\ s[1] = a /\ s[2] = b
    OBVIOUS
  <2>2. <<a>> \in Seq(Events) /\ <<b>> \in Seq(Events) /\ Len(<<a>>) = 1 /\ Len(<<b>>) = 1
        /\ <<a>>[1] = a /\ <<b>>[1] = b
    OBVIOUS
  <2>3. t \in Seq(Events) /\ Len(t) = 2 /\ t[1] = a /\ t[2] = b
    BY <2>2, ConcatProperties
  <2> HIDE DEF s, t
  <2>4. \A i \in 1..2 : s[i] = t[i]
    BY <2>1, <2>3
  <2>5. s = t
    BY <2>1, <2>3, <2>4, SeqEqual
  <2> QED BY <2>5 DEF s, t
<1>2. /\ <<a>> \in Seq(Events) /\ <<b>> \in Seq(Events)
      /\ Count(<<a>>, e) = IF a = e THEN 1 ELSE 0
      /\ Count(<<b>>, e) = IF b = e THEN 1 ELSE 0
  BY CountOne
<1>3. Count(<<a, b>>, e) = Count(<<a>>, e) + Count(<<b>>, e)
  <2> DEFINE s == <<a, b>>
             x == <<a>>
             y == <<b>>
  <2>1. s = x \o y /\ x \in Seq(Events) /\ y \in Seq(Events)
    BY <1>1, <1>2
  <2> HIDE DEF s, x, y
  <2>2. Count(s, e) = Count(x, e) + Count(y, e)
    BY <2>1, CountConcat
  <2> QED BY <2>2 DEF s, x, y
<1>4. <<a, b>> \in Seq(Events)
  OBVIOUS
<1> QED BY <1>2, <1>3, <1>4

\* A log that a turn and a step were started in, and whose calls have their
\* results, is complete once it is closed.
Balanced(log) ==
  /\ log \in Seq(Events)
  /\ Count(log, "turn/start") = 1 /\ Count(log, "turn/end") = 0
  /\ Count(log, "step/start") = 1 /\ Count(log, "step/end") = 0
  /\ Count(log, "call") = Count(log, "accepted") + Count(log, "rejected")

LEMMA EventsListed ==
  /\ "turn/start" \in Events /\ "step/start" \in Events /\ "step/end" \in Events /\ "turn/end" \in Events
  /\ "system/message" \in Events /\ "user/message" \in Events /\ "request/header" \in Events
  /\ "request/context" \in Events /\ "assistant/message" \in Events
  /\ "call" \in Events /\ "accepted" \in Events /\ "rejected" \in Events
BY DEF Events

LEMMA ClosedComplete ==
  ASSUME NEW log, Balanced(log)
  PROVE  /\ Closed(log) \in Seq(Events) /\ SessionComplete(Closed(log))
         /\ Count(Closed(log), "call") = Count(log, "call")
         /\ Count(Closed(log), "accepted") = Count(log, "accepted")
<1> DEFINE end == <<"step/end", "turn/end">>
<1>1. /\ end \in Seq(Events)
      /\ Count(end, "turn/start") = 0 /\ Count(end, "turn/end") = 1
      /\ Count(end, "step/start") = 0 /\ Count(end, "step/end") = 1
      /\ Count(end, "call") = 0 /\ Count(end, "accepted") = 0 /\ Count(end, "rejected") = 0
  <2>1. end \in Seq(Events) /\ \A e : Count(end, e) = (IF "step/end" = e THEN 1 ELSE 0) + (IF "turn/end" = e THEN 1 ELSE 0)
    BY EventsListed, CountTwo
  <2> HIDE DEF end
  <2> QED BY <2>1
<1>2. log \in Seq(Events)
  BY DEF Balanced
<1>3. \A e : Count(log, e) \in Nat
  BY <1>2, CountConcat
<1> HIDE DEF end
<1>4. \A e : Count(log \o end, e) = Count(log, e) + Count(end, e)
  BY <1>1, <1>2, CountConcat
<1>5. Closed(log) = log \o end
  BY DEF Closed, end
<1>6. log \o end \in Seq(Events)
  BY <1>1, <1>2
<1> QED BY <1>1, <1>3, <1>4, <1>5, <1>6 DEF Balanced, SessionComplete

LEMMA OpenedBalanced == Balanced(Opened) /\ Count(Opened, "call") = 0 /\ Count(Opened, "accepted") = 0
<1>1. /\ Opened \in Seq(Events)
      /\ \A e : Count(Opened, e) = (IF "turn/start" = e THEN 1 ELSE 0) + (IF "step/start" = e THEN 1 ELSE 0)
  BY EventsListed, CountTwo DEF Opened
<1> QED BY <1>1 DEF Balanced

\* Adding what says nothing of turns, steps and calls, or calls that are answered.
LEMMA AddBalanced ==
  ASSUME NEW log, Balanced(log), NEW more \in Seq(Events),
         \A e \in {"turn/start", "turn/end", "step/start", "step/end"} : Count(more, e) = 0,
         Count(more, "call") = Count(more, "accepted") + Count(more, "rejected")
  PROVE  /\ Balanced(log \o more)
         /\ Count(log \o more, "call") = Count(log, "call") + Count(more, "call")
         /\ Count(log \o more, "accepted") = Count(log, "accepted") + Count(more, "accepted")
<1>1. log \in Seq(Events)
  BY DEF Balanced
<1>2. \A e : Count(log, e) \in Nat /\ Count(more, e) \in Nat
  BY <1>1, CountConcat
<1>3. \A e : Count(log \o more, e) = Count(log, e) + Count(more, e)
  BY <1>1, CountConcat
<1>4. log \o more \in Seq(Events)
  BY <1>1
<1>5. /\ Count(log \o more, "turn/start") = 1 /\ Count(log \o more, "turn/end") = 0
      /\ Count(log \o more, "step/start") = 1 /\ Count(log \o more, "step/end") = 0
  <2>1. /\ Count(log, "turn/start") = 1 /\ Count(log, "turn/end") = 0
        /\ Count(log, "step/start") = 1 /\ Count(log, "step/end") = 0
    BY DEF Balanced
  <2> QED BY <1>3, <2>1
<1>6. Count(log \o more, "call") = Count(log \o more, "accepted") + Count(log \o more, "rejected")
  <2>1. Count(log, "call") = Count(log, "accepted") + Count(log, "rejected")
    BY DEF Balanced
  <2> QED BY <1>2, <1>3, <2>1
<1> QED BY <1>3, <1>4, <1>5, <1>6 DEF Balanced

\* The log of a request.
LEMMA RequestBalanced ==
  /\ Balanced(Opened \o Request)
  /\ Count(Opened \o Request, "call") = 0 /\ Count(Opened \o Request, "accepted") = 0
<1> DEFINE a == <<"system/message", "user/message">>
           b == <<"request/header", "request/context">>
           es == {"turn/start", "turn/end", "step/start", "step/end", "call", "accepted", "rejected"}
<1>1. a \in Seq(Events) /\ b \in Seq(Events) /\ (\A e \in es : Count(a, e) = 0 /\ Count(b, e) = 0)
  <2>1. /\ a \in Seq(Events)
        /\ \A e : Count(a, e) = (IF "system/message" = e THEN 1 ELSE 0) + (IF "user/message" = e THEN 1 ELSE 0)
    BY EventsListed, CountTwo
  <2>2. /\ b \in Seq(Events)
        /\ \A e : Count(b, e) = (IF "request/header" = e THEN 1 ELSE 0) + (IF "request/context" = e THEN 1 ELSE 0)
    BY EventsListed, CountTwo
  <2> HIDE DEF a, b
  <2> QED BY <2>1, <2>2
<1>2. Request = a \o b
  BY DEF Request
<1> HIDE DEF a, b
<1>3. Request \in Seq(Events) /\ \A e \in es : Count(Request, e) = 0
  BY <1>1, <1>2, CountConcat
<1> QED BY <1>3, OpenedBalanced, AddBalanced

\* The results of an answer.
LEMMA ResultsCounted ==
  ASSUME NEW finish \in {"tool-calls", "other"}, NEW k \in 0..2, NEW other \in BOOLEAN, NEW valid \in BOOLEAN,
         NEW answer, answer = [finish |-> finish, calls |-> k, other |-> other, valid |-> valid]
  PROVE  /\ Results(answer) \in Seq(Events)
         /\ \A e \in {"turn/start", "turn/end", "step/start", "step/end"} : Count(Results(answer), e) = 0
         /\ Count(Results(answer), "call") = Count(Results(answer), "accepted") + Count(Results(answer), "rejected")
         /\ Expected(answer) /\ answer.valid =>
              Count(Results(answer), "call") = 1 /\ Count(Results(answer), "accepted") = 1
<1> DEFINE es == {"turn/start", "turn/end", "step/start", "step/end"}
           no == <<"call", "rejected">>
<1>1. /\ no \in Seq(Events) /\ Count(no, "call") = 1 /\ Count(no, "rejected") = 1 /\ Count(no, "accepted") = 0
      /\ \A e \in es : Count(no, e) = 0
  <2>1. no \in Seq(Events) /\ \A e : Count(no, e) = (IF "call" = e THEN 1 ELSE 0) + (IF "rejected" = e THEN 1 ELSE 0)
    BY EventsListed, CountTwo
  <2> HIDE DEF no
  <2> QED BY <2>1
<1>2. CASE Expected(answer) /\ valid
  <2>1. Results(answer) = <<"call", "accepted">>
    BY <1>2 DEF Results
  <2> DEFINE yes == <<"call", "accepted">>
  <2>2. yes \in Seq(Events) /\ \A e : Count(yes, e) = (IF "call" = e THEN 1 ELSE 0) + (IF "accepted" = e THEN 1 ELSE 0)
    BY EventsListed, CountTwo
  <2>3. Results(answer) = yes
    BY <2>1
  <2> HIDE DEF yes
  <2> QED BY <1>2, <2>2, <2>3
<1>3. CASE Expected(answer) /\ ~valid
  <2>1. Results(answer) = no
    BY <1>3 DEF Results
  <2> HIDE DEF no
  <2> QED BY <1>3, <2>1, <1>1
<1>4. CASE ~Expected(answer)
  <2>1. Results(answer) = [i \in 1..2 * k |-> IF i % 2 = 1 THEN "call" ELSE "rejected"]
    BY <1>4 DEF Results
  <2>2. CASE k = 0
    <3>1. 1..2 * k = {}
      BY <2>2
    <3>2. Results(answer) = <<>>
      BY <2>1, <3>1
    <3> QED BY <3>2, <1>4, CountNone
  <2>3. CASE k = 1
    <3>1. 1..2 * k = 1..2 /\ 1 % 2 = 1 /\ 2 % 2 = 0
      BY <2>3
    <3> DEFINE f == [i \in 1..2 |-> IF i % 2 = 1 THEN "call" ELSE "rejected"]
    <3>2. f \in Seq(Events) /\ Len(f) = 2 /\ f[1] = "call" /\ f[2] = "rejected"
      BY <3>1, EventsListed
    <3>3. no \in Seq(Events) /\ Len(no) = 2 /\ no[1] = "call" /\ no[2] = "rejected"
      BY <1>1
    <3>4. Results(answer) = f
      BY <2>1, <3>1
    <3> HIDE DEF no, f
    <3>5. \A i \in 1..2 : f[i] = no[i]
      BY <3>2, <3>3
    <3>6. f = no
      BY <3>2, <3>3, <3>5, SeqEqual
    <3> QED BY <3>4, <3>6, <1>1, <1>4
  <2>4. CASE k = 2
    <3>1. 1..2 * k = 1..4 /\ 1 % 2 = 1 /\ 2 % 2 = 0 /\ 3 % 2 = 1 /\ 4 % 2 = 0
      BY <2>4
    <3> DEFINE f == [i \in 1..4 |-> IF i % 2 = 1 THEN "call" ELSE "rejected"]
               g == no \o no
    <3>2. f \in Seq(Events) /\ Len(f) = 4 /\ f[1] = "call" /\ f[2] = "rejected" /\ f[3] = "call" /\ f[4] = "rejected"
      BY <3>1, EventsListed
    <3>6. no \in Seq(Events) /\ Len(no) = 2 /\ no[1] = "call" /\ no[2] = "rejected"
      BY <1>1
    <3>7. Results(answer) = f
      BY <2>1, <3>1
    <3> HIDE DEF no, f
    <3>8. g \in Seq(Events) /\ Len(g) = 4 /\ g[1] = no[1] /\ g[2] = no[2] /\ g[3] = no[1] /\ g[4] = no[2]
      <4>1. /\ g \in Seq(Events) /\ Len(g) = Len(no) + Len(no)
            /\ \A i \in 1..Len(no) + Len(no) : g[i] = IF i <= Len(no) THEN no[i] ELSE no[i - Len(no)]
        BY <3>6, ConcatProperties
      <4>2. /\ Len(g) = 4
            /\ \A i \in 1..4 : g[i] = IF i <= 2 THEN no[i] ELSE no[i - 2]
        BY <4>1, <3>6
      <4> QED BY <4>1, <4>2
    <3> HIDE DEF g
    <3>9. \A i \in 1..4 : f[i] = g[i]
      BY <3>2, <3>6, <3>8
    <3>3. Results(answer) = no \o no
      BY <3>2, <3>7, <3>8, <3>9, SeqEqual DEF g
    <3>4. \A e : Count(Results(answer), e) = Count(no, e) + Count(no, e)
      BY <3>3, <1>1, CountConcat
    <3>5. Results(answer) \in Seq(Events)
      BY <3>3, <3>8 DEF g
    <3> QED BY <3>4, <3>5, <1>1, <1>4
  <2> QED BY <2>2, <2>3, <2>4
<1> QED BY <1>2, <1>3, <1>4

-----------------------------------------------------------------------------
\* A step of one run: what it leaves is seen from that run alone.
LEMMA RunStep ==
  ASSUME ProposalInv, NEW r \in DOMAIN runs, NEW new \in Runs, NEW log \in Seq(Events),
         runs[r].pc # "ended", new.command = runs[r].command,
         runs' = [runs EXCEPT ![r] = new],
         durable' = [durable EXCEPT ![r] = log], SessionComplete(log),
         inFlight' = inFlight \/ (new.pc = "ended" /\ Frees(r)),
         UNCHANGED <<world, confirmed>>,
         new.sent # Nil => new.sent = confirmed[new.command],
         RunFits(r)',
         stored' \in [ProposalCommands -> [run : Nat, packet : Packet] \cup {Nil}],
         \A c \in ProposalCommands : stored'[c] = stored[c] \/ StoredFits(c)'
  PROVE  ProposalInv'
<1> USE DEF ProposalInv
<1>1. /\ runs \in Seq(Runs) /\ durable \in Seq(Seq(Events)) /\ Len(durable) = Len(runs)
      /\ DOMAIN runs = 1..Len(runs) /\ DOMAIN durable = 1..Len(runs) /\ Len(runs) \in Nat
  BY DEF ProposalTypes
<1>2. /\ runs' \in Seq(Runs) /\ Len(runs') = Len(runs) /\ DOMAIN runs' = DOMAIN runs
      /\ runs'[r] = new /\ \A q \in DOMAIN runs : q # r => runs'[q] = runs[q]
  BY <1>1
<1>3. /\ durable' \in Seq(Seq(Events)) /\ Len(durable') = Len(durable) /\ DOMAIN durable' = DOMAIN durable
      /\ durable'[r] = log /\ \A q \in DOMAIN durable : q # r => durable'[q] = durable[q]
  BY <1>1
<1>4. /\ inFlight' \in [ProposalCommands -> Nat]
      /\ \A c \in ProposalCommands : inFlight'[c] \in 0..Len(runs) /\ (inFlight[c] # r => inFlight'[c] = inFlight[c])
  <2>1. inFlight \in [ProposalCommands -> Nat] /\ \A c \in ProposalCommands : inFlight[c] \in 0..Len(runs)
    BY DEF ProposalTypes
  <2>2. CASE inFlight' = inFlight
    BY <2>1, <2>2
  <2>3. CASE Frees(r)
    BY <2>1, <2>3, <1>1 DEF Frees
  <2> QED BY <2>2, <2>3
<1>5. ProposalTypes'
  BY <1>1, <1>2, <1>3, <1>4 DEF ProposalTypes
<1>6. \A q \in DOMAIN runs : runs[q] \in Runs /\ runs[q].command \in ProposalCommands
  <2>1. \A q \in DOMAIN runs : runs[q] \in Runs
    BY <1>1, ElementOfSeq
  <2> QED BY <2>1 DEF Runs
<1>7. SentAsDisclosed'
  BY <1>2 DEF SentAsDisclosed
<1>8. ASSUME NEW q \in DOMAIN runs' PROVE RunFits(q)'
  <2>1. CASE q = r
    BY <2>1
  <2>2. CASE q # r
    <3>1. q \in DOMAIN runs /\ q \in DOMAIN durable /\ runs'[q] = runs[q] /\ durable'[q] = durable[q] /\ RunFits(q)
      BY <2>2, <1>1, <1>2, <1>3
    <3>2. runs[q].pc # "ended" => inFlight'[runs[q].command] = q
      BY <3>1, <2>2, <1>4, <1>6 DEF RunFits
    <3> QED BY <3>1, <3>2 DEF RunFits, Answered
  <2> QED BY <2>1, <2>2
<1>9. \A q \in DOMAIN durable' : SessionComplete(durable'[q])
  BY <1>3
<1>10. ASSUME NEW c \in ProposalCommands PROVE StoredFits(c)'
  <2>1. CASE stored'[c] = stored[c] /\ stored[c] # Nil
    <3>1. /\ stored[c].run \in DOMAIN runs /\ runs[stored[c].run].pc = "ended"
          /\ CandidateAuditable(stored[c])
      BY <2>1 DEF StoredFits
    <3>2. stored[c].run # r /\ stored[c].run \in DOMAIN durable
      BY <3>1, <1>1
    <3>3. runs'[stored[c].run] = runs[stored[c].run] /\ durable'[stored[c].run] = durable[stored[c].run]
      BY <3>1, <3>2, <1>2, <1>3
    <3> QED BY <2>1, <3>1, <3>3, <1>2 DEF StoredFits, CandidateAuditable
  <2>2. CASE stored'[c] = Nil
    BY <2>2 DEF StoredFits
  <2> QED BY <2>1, <2>2
<1> QED BY <1>5, <1>7, <1>8, <1>9, <1>10 DEF SessionComplete, Count

\* What is known of a run.
LEMMA RunKnown ==
  ASSUME ProposalInv, NEW r \in DOMAIN runs
  PROVE  /\ runs[r] \in Runs /\ RunFits(r)
         /\ confirmed[runs[r].command] \in Settled \cup {Nil}
         /\ runs[r].sent # Nil => runs[r].sent = confirmed[runs[r].command]
         /\ durable[r] \in Seq(Events) /\ SessionComplete(durable[r])
         /\ durable = [durable EXCEPT ![r] = durable[r]]
         /\ stored \in [ProposalCommands -> [run : Nat, packet : Packet] \cup {Nil}]
         /\ world \in Worlds
<1>1. runs \in Seq(Runs) /\ durable \in Seq(Seq(Events)) /\ Len(durable) = Len(runs) /\ world \in Worlds
  BY DEF ProposalInv, ProposalTypes
<1>2. runs[r] \in Runs /\ r \in DOMAIN durable
  <2>1. r \in 1..Len(runs) /\ DOMAIN durable = 1..Len(runs)
    BY <1>1
  <2> QED BY <1>1, <2>1, ElementOfSeq
<1>3. durable[r] \in Seq(Events) /\ durable = [durable EXCEPT ![r] = durable[r]]
  BY <1>1, <1>2
<1>4. runs[r].command \in ProposalCommands
  BY <1>2 DEF Runs
<1>5. confirmed \in [ProposalCommands -> Settled \cup {Nil}]
      /\ stored \in [ProposalCommands -> [run : Nat, packet : Packet] \cup {Nil}]
  BY DEF ProposalInv, ProposalTypes
<1> QED BY <1>1, <1>2, <1>3, <1>4, <1>5 DEF ProposalInv, SentAsDisclosed

\* Whatever a run throws, it ends.
LEMMA EndsInv ==
  ASSUME ProposalInv, NEW r \in DOMAIN runs, runs[r].pc # "ended", Ends(r),
         UNCHANGED <<world, confirmed, durable, stored>>
  PROVE  ProposalInv'
<1> DEFINE new == [runs[r] EXCEPT !.pc = "ended"]
<1>1. /\ runs[r] \in Runs /\ RunFits(r) /\ durable[r] \in Seq(Events) /\ SessionComplete(durable[r])
      /\ durable' = [durable EXCEPT ![r] = durable[r]]
      /\ stored' \in [ProposalCommands -> [run : Nat, packet : Packet] \cup {Nil}]
      /\ runs[r].sent # Nil => runs[r].sent = confirmed[runs[r].command]
  BY RunKnown
<1>2. /\ new \in Runs /\ new.command = runs[r].command /\ new.pc = "ended" /\ new.sent = runs[r].sent
  BY <1>1 DEF Runs, Stages
<1>3. runs' = [runs EXCEPT ![r] = new] /\ Frees(r)
  BY DEF Ends
<1> HIDE DEF new
<1>4. runs'[r] = new
  BY <1>3
<1>5. RunFits(r)'
  BY <1>1, <1>2, <1>4 DEF RunFits
<1>6. \A c \in ProposalCommands : stored'[c] = stored[c] \/ StoredFits(c)'
  OBVIOUS
<1>7. new.sent # Nil => new.sent = confirmed[new.command]
  BY <1>1, <1>2
<1> QED BY <1>1, <1>2, <1>3, <1>5, <1>6, <1>7, RunStep

\* A step of a run that goes on and stores nothing.
LEMMA GoesOn ==
  ASSUME ProposalInv, NEW r \in DOMAIN runs, runs[r].pc # "ended", NEW new \in Runs,
         new.command = runs[r].command, runs' = [runs EXCEPT ![r] = new],
         UNCHANGED <<world, confirmed, inFlight, durable, stored>>,
         new.sent # Nil => new.sent = confirmed[new.command],
         RunFits(r)'
  PROVE  ProposalInv'
<1>1. /\ durable[r] \in Seq(Events) /\ SessionComplete(durable[r])
      /\ durable' = [durable EXCEPT ![r] = durable[r]]
      /\ stored' \in [ProposalCommands -> [run : Nat, packet : Packet] \cup {Nil}]
  BY RunKnown
<1>2. \A c \in ProposalCommands : stored'[c] = stored[c] \/ StoredFits(c)'
  OBVIOUS
<1> QED BY <1>1, <1>2, RunStep

LEMMA ReadSourcesInv ==
  ASSUME ProposalInv, NEW r \in DOMAIN runs, ReadSources(r)
  PROVE  ProposalInv'
<1>1. runs[r].pc = "reading" /\ UNCHANGED <<world, changes, restarts, confirmed, durable, stored>>
  BY DEF ReadSources
<1>2. CASE Ends(r)
  BY <1>1, <1>2, EndsInv
<1>3. CASE ~Ends(r)
  <2> DEFINE new == [runs[r] EXCEPT !.pc = "resolving", !.packet = Inspected]
  <2>1. runs' = [runs EXCEPT ![r] = new] /\ inFlight' = inFlight
    BY <1>3 DEF ReadSources
  <2>2. runs[r] \in Runs /\ RunFits(r) /\ world \in Worlds
    BY RunKnown
  <2>3. /\ new \in Runs /\ new.command = runs[r].command /\ new.pc = "resolving" /\ new.sent = runs[r].sent
    BY <2>2 DEF Runs, Stages, Worlds, Inspected
  <2> HIDE DEF new
  <2>4. runs'[r] = new
    BY <2>1
  <2>5. RunFits(r)' /\ new.sent = Nil
    BY <1>1, <2>1, <2>2, <2>3, <2>4 DEF RunFits
  <2> QED BY <1>1, <2>1, <2>3, <2>5, GoesOn
<1> QED BY <1>2, <1>3

LEMMA CompareInv ==
  ASSUME ProposalInv, NEW r \in DOMAIN runs, Compare(r)
  PROVE  ProposalInv'
<1>1. runs[r].pc = "resolving" /\ UNCHANGED <<world, changes, restarts, confirmed, durable, stored>>
  BY DEF Compare
<1>2. CASE Ends(r)
  BY <1>1, <1>2, EndsInv
<1>3. CASE ~Ends(r)
  <2> DEFINE new == [runs[r] EXCEPT !.pc = "preparing", !.log = Opened]
             shown == confirmed[runs[r].command]
  <2>1. /\ runs' = [runs EXCEPT ![r] = new] /\ inFlight' = inFlight
        /\ shown = Disclosure(runs[r].packet, runs[r].settings, Resolved(world.route), world.route.max)
    BY <1>3 DEF Compare, Opened
  <2>2. runs[r] \in Runs /\ RunFits(r)
    BY RunKnown
  <2>3. Opened \in Seq(Events)
    BY OpenedBalanced DEF Balanced
  <2>4. /\ new \in Runs /\ new.command = runs[r].command /\ new.pc = "preparing" /\ new.sent = runs[r].sent
        /\ new.log = Opened /\ new.packet = runs[r].packet /\ new.settings = runs[r].settings
    BY <2>2, <2>3 DEF Runs, Stages
  <2>5. shown = Disclosure(runs[r].packet, runs[r].settings, shown.effort, shown.max)
    BY <2>1 DEF Disclosure
  <2> HIDE DEF new
  <2>6. runs'[r] = new
    BY <2>1
  <2>7. RunFits(r)' /\ new.sent = Nil
    BY <1>1, <2>1, <2>2, <2>4, <2>5, <2>6 DEF RunFits
  <2> QED BY <1>1, <2>1, <2>4, <2>7, GoesOn
<1> QED BY <1>2, <1>3

\* A generation is over.
LEMMA ConcludesInv ==
  ASSUME ProposalInv, NEW r \in DOMAIN runs, runs[r].pc # "ended", NEW log, Balanced(log), NEW ok \in BOOLEAN,
         Concludes(r, log, ok), UNCHANGED <<world, confirmed, inFlight, durable, stored>>,
         ok => Answered(r, log)
  PROVE  ProposalInv'
<1> DEFINE closed == Closed(log)
           new == [runs[r] EXCEPT !.pc = "flushing", !.log = closed, !.ok = ok]
<1>1. /\ runs[r] \in Runs /\ RunFits(r)
      /\ runs[r].sent # Nil => runs[r].sent = confirmed[runs[r].command]
  BY RunKnown
<1>2. /\ closed \in Seq(Events) /\ SessionComplete(closed)
      /\ ok => Answered(r, closed)
  BY ClosedComplete DEF Answered
<1>3. runs' = [runs EXCEPT ![r] = new]
  BY DEF Concludes
<1> HIDE DEF closed
<1>4. /\ new \in Runs /\ new.command = runs[r].command /\ new.pc = "flushing" /\ new.sent = runs[r].sent
      /\ new.log = closed /\ new.packet = runs[r].packet /\ new.ok = ok
  BY <1>1, <1>2 DEF Runs, Stages
<1> HIDE DEF new
<1>5. runs'[r] = new
  BY <1>3
<1>6. SessionComplete(runs'[r].log) /\ (ok => Answered(r, runs[r].log)')
  BY <1>2, <1>4, <1>5 DEF Answered, Count
<1>7. RunFits(r)'
  BY <1>1, <1>2, <1>4, <1>5, <1>6 DEF RunFits, SessionComplete, Count
<1>8. new.sent # Nil => new.sent = confirmed[new.command]
  BY <1>1, <1>4
<1> QED BY <1>3, <1>4, <1>7, <1>8, GoesOn

LEMMA PrepareInv ==
  ASSUME ProposalInv, NEW r \in DOMAIN runs, Prepare(r)
  PROVE  ProposalInv'
<1>1. runs[r].pc = "preparing" /\ UNCHANGED <<world, changes, restarts, confirmed, inFlight, durable, stored>>
  BY DEF Prepare
<1>2. runs[r] \in Runs /\ RunFits(r) /\ world \in Worlds
  BY RunKnown
<1>3. runs[r].log = Opened /\ Balanced(runs[r].log)
  BY <1>1, <1>2, OpenedBalanced DEF RunFits
<1>4. CASE Concludes(r, runs[r].log, FALSE)
  BY <1>1, <1>3, <1>4, ConcludesInv
<1>5. CASE ~Concludes(r, runs[r].log, FALSE)
  <2> DEFINE shown == confirmed[runs[r].command]
             sent == Disclosure(runs[r].packet, runs[r].settings, world.route.effort, world.route.max)
             log == Opened \o Request
             new == [runs[r] EXCEPT !.pc = "streaming", !.log = log, !.sent = sent]
  <2>1. /\ world.route.max = shown.max /\ world.route.effort = shown.effort
        /\ runs' = [runs EXCEPT ![r].pc = "streaming", ![r].log = runs[r].log \o Request, ![r].sent = sent]
    BY <1>5 DEF Prepare, RouteHeld, Request
  <2>2. runs' = [runs EXCEPT ![r] = new]
    BY <2>1, <1>3
  <2>3. shown = Disclosure(runs[r].packet, runs[r].settings, shown.effort, shown.max)
    BY <1>1, <1>2 DEF RunFits
  <2>4. sent = shown
    BY <2>1, <2>3
  <2>5. sent \in Settled /\ sent.packet = runs[r].packet
    BY <1>2 DEF Settled, Disclosure, Worlds, Runs
  <2>6. log \in Seq(Events)
    BY RequestBalanced DEF Balanced
  <2> HIDE DEF log, sent
  <2>7. /\ new \in Runs /\ new.command = runs[r].command /\ new.pc = "streaming" /\ new.sent = sent
        /\ new.log = log /\ new.packet = runs[r].packet
    BY <1>2, <2>5, <2>6 DEF Runs, Stages
  <2> HIDE DEF new
  <2>8. runs'[r] = new
    BY <2>2
  <2>9. runs'[r].log = Opened \o Request
    BY <2>7, <2>8 DEF log
  <2>10. RunFits(r)'
    BY <1>1, <1>2, <2>5, <2>7, <2>8, <2>9 DEF RunFits
  <2>11. new.sent # Nil => new.sent = confirmed[new.command]
    BY <2>4, <2>7
  <2> QED BY <1>1, <2>2, <2>7, <2>10, <2>11, GoesOn
<1> QED BY <1>4, <1>5

LEMMA StreamInv ==
  ASSUME ProposalInv, NEW r \in DOMAIN runs, Stream(r)
  PROVE  ProposalInv'
<1>1. runs[r].pc = "streaming" /\ UNCHANGED <<world, changes, restarts, confirmed, inFlight, durable, stored>>
  BY DEF Stream
<1>2. runs[r] \in Runs /\ RunFits(r)
  BY RunKnown
<1>3. /\ Balanced(runs[r].log) /\ Count(runs[r].log, "call") = 0 /\ Count(runs[r].log, "accepted") = 0
      /\ runs[r].sent.packet = runs[r].packet /\ runs[r].log \in Seq(Events)
  BY <1>1, <1>2, RequestBalanced DEF RunFits, Balanced
<1>4. CASE Concludes(r, runs[r].log, FALSE)
  BY <1>1, <1>3, <1>4, ConcludesInv
<1>5. ASSUME NEW finish \in {"tool-calls", "other"}, NEW k \in 0..2, NEW other \in BOOLEAN, NEW valid \in BOOLEAN,
             NEW answer, answer = [finish |-> finish, calls |-> k, other |-> other, valid |-> valid],
             Concludes(r, Append(runs[r].log, "assistant/message")
                            \o (IF answer.finish = "other" THEN <<>> ELSE Results(answer)),
                       Expected(answer) /\ answer.valid)
      PROVE  ProposalInv'
  <2> DEFINE one == <<"assistant/message">>
             said == runs[r].log \o one
             more == IF answer.finish = "other" THEN <<>> ELSE Results(answer)
             log == said \o more
             ok == Expected(answer) /\ answer.valid
             turns == {"turn/start", "turn/end", "step/start", "step/end"}
  <2>1. Append(runs[r].log, "assistant/message") = said
    BY <1>3, EventsListed, AppendIsConcat
  <2>2. /\ one \in Seq(Events) /\ (\A e \in turns : Count(one, e) = 0)
        /\ Count(one, "call") = 0 /\ Count(one, "accepted") = 0 /\ Count(one, "rejected") = 0
    <3>1. one \in Seq(Events) /\ \A e : Count(one, e) = IF "assistant/message" = e THEN 1 ELSE 0
      BY EventsListed, CountOne
    <3> HIDE DEF one
    <3> QED BY <3>1
  <2> HIDE DEF one
  <2>3. Balanced(said) /\ Count(said, "call") = 0 /\ Count(said, "accepted") = 0
    BY <1>3, <2>2, AddBalanced
  <2> HIDE DEF said
  <2>4. /\ more \in Seq(Events) /\ (\A e \in turns : Count(more, e) = 0)
        /\ Count(more, "call") = Count(more, "accepted") + Count(more, "rejected")
        /\ Count(more, "call") \in Nat /\ Count(more, "accepted") \in Nat
        /\ ok => Count(more, "call") = 1 /\ Count(more, "accepted") = 1
    <3>1. CASE finish = "other"
      <4>1. more = <<>> /\ ~ok
        BY <1>5, <3>1 DEF Expected
      <4> HIDE DEF more, ok
      <4> QED BY <4>1, CountNone
    <3>2. CASE finish = "tool-calls"
      <4>1. more = Results(answer)
        BY <1>5, <3>2
      <4>2. /\ Results(answer) \in Seq(Events)
            /\ (\A e \in turns : Count(Results(answer), e) = 0)
            /\ Count(Results(answer), "call") = Count(Results(answer), "accepted") + Count(Results(answer), "rejected")
            /\ ok => Count(Results(answer), "call") = 1 /\ Count(Results(answer), "accepted") = 1
        BY <1>5, ResultsCounted
      <4> HIDE DEF more, ok
      <4>3. more \in Seq(Events)
        BY <4>1, <4>2
      <4>4. Count(more, "call") \in Nat /\ Count(more, "accepted") \in Nat
        BY <4>3, CountConcat
      <4> QED BY <4>1, <4>2, <4>3, <4>4
    <3> QED BY <3>1, <3>2
  <2>5. Concludes(r, log, ok)
    BY <1>5, <2>1
  <2>6. ok \in BOOLEAN
    BY <1>5 DEF Expected
  <2> HIDE DEF more, ok
  <2>7. /\ Balanced(log)
        /\ Count(log, "call") = Count(said, "call") + Count(more, "call")
        /\ Count(log, "accepted") = Count(said, "accepted") + Count(more, "accepted")
    BY <2>3, <2>4, AddBalanced
  <2> HIDE DEF log
  <2>8. ok => Answered(r, log)
    BY <1>3, <2>3, <2>4, <2>7 DEF Answered
  <2> QED BY <1>1, <2>5, <2>6, <2>7, <2>8, ConcludesInv
<1>6. CASE ~Concludes(r, runs[r].log, FALSE)
  <2>1. PICK answer \in [finish : {"tool-calls", "other"}, calls : 0..2, other : BOOLEAN, valid : BOOLEAN] :
          Concludes(r, Append(runs[r].log, "assistant/message")
                         \o (IF answer.finish = "other" THEN <<>> ELSE Results(answer)),
                    Expected(answer) /\ answer.valid)
    BY <1>6 DEF Stream
  <2>2. /\ answer.finish \in {"tool-calls", "other"} /\ answer.calls \in 0..2
        /\ answer.other \in BOOLEAN /\ answer.valid \in BOOLEAN
        /\ answer = [finish |-> answer.finish, calls |-> answer.calls, other |-> answer.other, valid |-> answer.valid]
    OBVIOUS
  <2> QED BY <2>1, <2>2, <1>5
<1> QED BY <1>4, <1>6

LEMMA FlushInv ==
  ASSUME ProposalInv, NEW r \in DOMAIN runs, Flush(r)
  PROVE  ProposalInv'
<1>1. runs[r].pc = "flushing" /\ UNCHANGED <<world, changes, restarts, confirmed, stored>>
  BY DEF Flush
<1>2. PICK outcome \in {"durable", "absent", "failed"} :
        /\ durable' = IF outcome = "durable" THEN [durable EXCEPT ![r] = runs[r].log] ELSE durable
        /\ IF runs[r].ok /\ outcome \in Persisted THEN Goes(r, "storing") ELSE Ends(r)
  BY DEF Flush
<1>3. /\ runs[r] \in Runs /\ RunFits(r) /\ durable[r] \in Seq(Events) /\ SessionComplete(durable[r])
      /\ durable = [durable EXCEPT ![r] = durable[r]]
      /\ stored \in [ProposalCommands -> [run : Nat, packet : Packet] \cup {Nil}]
      /\ runs[r].sent # Nil => runs[r].sent = confirmed[runs[r].command]
  BY RunKnown
<1>4. SessionComplete(runs[r].log) /\ (runs[r].ok => Answered(r, runs[r].log)) /\ runs[r].log \in Seq(Events)
  BY <1>1, <1>3 DEF RunFits, Runs
<1> DEFINE log == IF outcome = "durable" THEN runs[r].log ELSE durable[r]
           on == runs[r].ok /\ outcome \in Persisted
           new == [runs[r] EXCEPT !.pc = IF on THEN "storing" ELSE "ended"]
<1>5. log \in Seq(Events) /\ SessionComplete(log) /\ durable' = [durable EXCEPT ![r] = log]
  BY <1>2, <1>3, <1>4
<1>6. on => log = runs[r].log /\ Answered(r, runs[r].log)
  BY <1>4 DEF Persisted
<1>7. /\ runs' = [runs EXCEPT ![r] = new]
      /\ inFlight' = inFlight \/ (~on /\ Frees(r))
  BY <1>2 DEF Goes, Ends
<1>8. on \in BOOLEAN
  OBVIOUS
<1> HIDE DEF log, on
<1>9. /\ new \in Runs /\ new.command = runs[r].command /\ new.pc = (IF on THEN "storing" ELSE "ended")
      /\ new.sent = runs[r].sent /\ new.packet = runs[r].packet
  BY <1>3 DEF Runs, Stages
<1> HIDE DEF new
<1>10. runs'[r] = new
  BY <1>7
<1>11. durable'[r] = log
  <2>1. r \in DOMAIN durable
    BY DEF ProposalInv, ProposalTypes
  <2> QED BY <1>5, <2>1
<1>12. on => Answered(r, durable[r])'
  BY <1>6, <1>9, <1>10, <1>11 DEF Answered, Count
<1>13. on => inFlight' = inFlight
  BY <1>7
<1>14. RunFits(r)'
  BY <1>1, <1>3, <1>9, <1>10, <1>12, <1>13 DEF RunFits
<1>15. \A c \in ProposalCommands : stored'[c] = stored[c] \/ StoredFits(c)'
  BY <1>1
<1>16. new.sent # Nil => new.sent = confirmed[new.command]
  BY <1>3, <1>9
<1>17. inFlight' = inFlight \/ (new.pc = "ended" /\ Frees(r))
  BY <1>7, <1>9
<1> QED BY <1>1, <1>3, <1>5, <1>7, <1>9, <1>14, <1>15, <1>16, <1>17, RunStep

LEMMA StoreCandidateInv ==
  ASSUME ProposalInv, NEW r \in DOMAIN runs, StoreCandidate(r)
  PROVE  ProposalInv'
<1>1. runs[r].pc = "storing" /\ Ends(r) /\ UNCHANGED <<world, changes, restarts, confirmed, durable>>
  BY DEF StoreCandidate
<1>2. CASE UNCHANGED stored
  BY <1>1, <1>2, EndsInv
<1>3. CASE ~UNCHANGED stored
  <2> DEFINE c0 == runs[r].command
             candidate == [run |-> r, packet |-> runs[r].packet]
             new == [runs[r] EXCEPT !.pc = "ended"]
  <2>1. stored' = [stored EXCEPT ![c0] = candidate]
    BY <1>3 DEF StoreCandidate
  <2>2. /\ runs[r] \in Runs /\ RunFits(r) /\ durable[r] \in Seq(Events) /\ SessionComplete(durable[r])
        /\ durable' = [durable EXCEPT ![r] = durable[r]]
        /\ stored \in [ProposalCommands -> [run : Nat, packet : Packet] \cup {Nil}]
        /\ runs[r].sent # Nil => runs[r].sent = confirmed[runs[r].command]
    BY <1>1, RunKnown
  <2>3. /\ new \in Runs /\ new.command = runs[r].command /\ new.pc = "ended" /\ new.sent = runs[r].sent
    BY <2>2 DEF Runs, Stages
  <2>4. runs' = [runs EXCEPT ![r] = new] /\ Frees(r)
    BY <1>1 DEF Ends
  <2>5. c0 \in ProposalCommands /\ candidate \in [run : Nat, packet : Packet] /\ candidate.run = r
        /\ candidate.packet = runs[r].packet
    <3>1. r \in Nat
      BY DEF ProposalInv, ProposalTypes
    <3> QED BY <2>2, <3>1 DEF Runs
  <2>6. Answered(r, durable[r])
    BY <1>1, <2>2 DEF RunFits
  <2> HIDE DEF new, c0, candidate
  <2>7. runs'[r] = new /\ r \in DOMAIN runs'
    BY <2>4
  <2>8. stored' \in [ProposalCommands -> [run : Nat, packet : Packet] \cup {Nil}]
        /\ stored'[c0] = candidate /\ \A c \in ProposalCommands : c # c0 => stored'[c] = stored[c]
    BY <2>1, <2>2, <2>5
  <2>9. StoredFits(c0)'
    <3>1. durable' = durable
      BY <1>1
    <3>2. stored'[c0].run = r /\ stored'[c0].packet = runs[r].packet
      BY <2>5, <2>8
    <3>3. runs'[r].pc = "ended" /\ runs'[r].sent = runs[r].sent
      BY <2>3, <2>7
    <3>4. c0' = c0
      BY <2>3, <2>7 DEF c0
    <3>5. CandidateAuditable(stored[c0])'
      BY <2>6, <3>1, <3>2, <3>3, <3>4 DEF CandidateAuditable, Answered, Count
    <3> QED BY <2>7, <3>2, <3>3, <3>4, <3>5 DEF StoredFits
  <2>10. \A c \in ProposalCommands : stored'[c] = stored[c] \/ StoredFits(c)'
    <3>1. c0' = c0
      BY <2>3, <2>7 DEF c0
    <3>2. SUFFICES ASSUME NEW c \in ProposalCommands, c = c0 PROVE StoredFits(c)'
      BY <2>8
    <3> QED BY <2>9, <3>1, <3>2 DEF StoredFits
  <2>11. RunFits(r)'
    BY <1>1, <2>2, <2>3, <2>7 DEF RunFits
  <2>12. new.sent # Nil => new.sent = confirmed[new.command]
    BY <2>2, <2>3
  <2> QED BY <1>1, <2>2, <2>3, <2>4, <2>8, <2>10, <2>11, <2>12, RunStep
<1> QED BY <1>2, <1>3

LEMMA StartRunInv ==
  ASSUME ProposalInv, NEW c \in ProposalCommands, StartRun(c)
  PROVE  ProposalInv'
<1> USE DEF ProposalInv
<1> DEFINE n == Len(runs) + 1
           new == [command |-> c, pc |-> "reading", settings |-> world.settings,
                   packet |-> world.packet, log |-> <<>>, ok |-> FALSE, sent |-> Nil]
<1>1. /\ runs \in Seq(Runs) /\ durable \in Seq(Seq(Events)) /\ Len(durable) = Len(runs) /\ Len(runs) \in Nat
      /\ DOMAIN runs = 1..Len(runs) /\ DOMAIN durable = 1..Len(runs) /\ world \in Worlds
      /\ inFlight \in [ProposalCommands -> Nat] /\ \A d \in ProposalCommands : inFlight[d] \in 0..Len(runs)
  BY DEF ProposalTypes
<1>2. /\ confirmed[c] # Nil /\ inFlight[c] = 0
      /\ runs' = Append(runs, new) /\ durable' = Append(durable, <<>>)
      /\ inFlight' = [inFlight EXCEPT ![c] = Len(runs')]
      /\ UNCHANGED <<world, confirmed, stored>>
  BY DEF StartRun, NotStarted
<1>3. /\ new \in Runs /\ new.command = c /\ new.pc = "reading" /\ new.sent = Nil
  <2>1. <<>> \in Seq(Events)
    BY CountNone
  <2> QED BY <1>1, <2>1 DEF Runs, Stages, Worlds
<1> HIDE DEF new
<1>4. /\ runs' \in Seq(Runs) /\ Len(runs') = n /\ DOMAIN runs' = 1..n /\ runs'[n] = new
      /\ \A q \in DOMAIN runs : q \in DOMAIN runs' /\ runs'[q] = runs[q]
      /\ \A q \in DOMAIN runs' : q = n \/ q \in DOMAIN runs
  BY <1>1, <1>2, <1>3
<1>5. /\ durable' \in Seq(Seq(Events)) /\ Len(durable') = n /\ DOMAIN durable' = 1..n /\ durable'[n] = <<>>
      /\ \A q \in DOMAIN durable : durable'[q] = durable[q]
  <2>1. <<>> \in Seq(Events)
    BY CountNone
  <2> QED BY <1>1, <1>2, <2>1
<1>6. /\ inFlight' \in [ProposalCommands -> Nat] /\ inFlight'[c] = n
      /\ \A d \in ProposalCommands : inFlight'[d] \in 0..n /\ (d # c => inFlight'[d] = inFlight[d])
  BY <1>1, <1>2, <1>4
<1>7. ProposalTypes'
  BY <1>2, <1>4, <1>5, <1>6 DEF ProposalTypes
<1>8. SentAsDisclosed'
  BY <1>2, <1>3, <1>4 DEF SentAsDisclosed
<1>9. ASSUME NEW q \in DOMAIN runs' PROVE RunFits(q)'
  <2>1. CASE q = n
    BY <1>2, <1>3, <1>4, <1>6, <2>1 DEF RunFits
  <2>2. CASE q \in DOMAIN runs
    <3>1. /\ runs'[q] = runs[q] /\ durable'[q] = durable[q] /\ RunFits(q) /\ q # 0
      BY <2>2, <1>1, <1>4, <1>5
    <3>2. runs[q].command \in ProposalCommands
      <4>1. runs[q] \in Runs
        BY <2>2, <1>1, ElementOfSeq
      <4> QED BY <4>1 DEF Runs
    <3>3. runs[q].pc # "ended" => inFlight'[runs[q].command] = q
      BY <3>1, <3>2, <1>2, <1>6 DEF RunFits
    <3> QED BY <1>2, <3>1, <3>3 DEF RunFits, Answered
  <2> QED BY <2>1, <2>2, <1>4
<1>10. ASSUME NEW q \in DOMAIN durable' PROVE SessionComplete(durable'[q])
  <2>1. CASE q = n
    <3>1. SessionComplete(<<>>)
      BY CountNone DEF SessionComplete
    <3> QED BY <2>1, <3>1, <1>5
  <2>2. CASE q \in DOMAIN durable
    BY <2>2, <1>5
  <2> QED BY <2>1, <2>2, <1>1, <1>5
<1>11. ASSUME NEW d \in ProposalCommands PROVE StoredFits(d)'
  <2>1. StoredFits(d) /\ stored'[d] = stored[d]
    BY <1>2
  <2>2. CASE stored[d] # Nil
    <3>1. /\ stored[d].run \in DOMAIN runs /\ runs[stored[d].run].pc = "ended" /\ CandidateAuditable(stored[d])
      BY <2>1, <2>2 DEF StoredFits
    <3>2. durable'[stored[d].run] = durable[stored[d].run] /\ runs'[stored[d].run] = runs[stored[d].run]
          /\ stored[d].run \in DOMAIN runs'
      BY <3>1, <1>1, <1>4, <1>5
    <3> QED BY <2>1, <3>1, <3>2 DEF StoredFits, CandidateAuditable
  <2> QED BY <2>1, <2>2 DEF StoredFits
<1> QED BY <1>7, <1>8, <1>9, <1>10, <1>11

LEMMA ConfirmInv ==
  ASSUME ProposalInv, NEW c \in ProposalCommands, Confirm(c)
  PROVE  ProposalInv'
<1> DEFINE shown == Disclosure(Inspected, world.settings, Resolved(world.route), world.route.max)
<1>1. /\ confirmed[c] = Nil /\ confirmed' = [confirmed EXCEPT ![c] = shown]
      /\ UNCHANGED <<world, inFlight, runs, durable, stored>>
  BY DEF Confirm
<1>2. world \in Worlds /\ confirmed \in [ProposalCommands -> Settled \cup {Nil}]
  BY DEF ProposalInv, ProposalTypes
<1>3. shown \in Settled
  BY <1>2 DEF Settled, Disclosure, Inspected, Resolved, Worlds, Efforts
<1> HIDE DEF shown
<1>4. ProposalTypes'
  BY <1>1, <1>2, <1>3 DEF ProposalInv, ProposalTypes
<1>5. ASSUME NEW r \in DOMAIN runs PROVE confirmed'[runs[r].command] = confirmed[runs[r].command]
  <2>1. RunFits(r) /\ runs[r] \in Runs
    BY RunKnown
  <2>2. runs[r].command # c /\ runs[r].command \in ProposalCommands
    BY <1>1, <2>1 DEF RunFits, Runs
  <2> QED BY <1>1, <1>2, <2>2
<1>6. SentAsDisclosed'
  BY <1>1, <1>5 DEF ProposalInv, SentAsDisclosed
<1>7. ASSUME NEW r \in DOMAIN runs PROVE RunFits(r)'
  <2>1. RunFits(r)
    BY DEF ProposalInv
  <2> QED BY <2>1, <1>1, <1>5 DEF RunFits, Answered
<1>8. \A d \in ProposalCommands : StoredFits(d)'
  BY <1>1 DEF ProposalInv, StoredFits, CandidateAuditable
<1>9. \A r \in DOMAIN durable' : SessionComplete(durable'[r])
  BY <1>1 DEF ProposalInv
<1> QED BY <1>1, <1>4, <1>6, <1>7, <1>8, <1>9 DEF ProposalInv

\* What only changes the world leaves the runs.
LEMMA WorldChangesInv ==
  ASSUME ProposalInv, WorldChanges
  PROVE  ProposalInv'
<1>1. UNCHANGED <<confirmed, inFlight, runs, durable, stored>> /\ world \in Worlds
  BY DEF WorldChanges, ProposalInv, ProposalTypes
<1>2. world' \in Worlds
  <2>1. CASE world' = [world EXCEPT !.packet.episode = @ + 1]
    BY <1>1, <2>1 DEF Worlds, Packet
  <2>2. CASE world' = [world EXCEPT !.packet.history = @ + 1]
    BY <1>1, <2>2 DEF Worlds, Packet
  <2>3. CASE world' = [world EXCEPT !.settings = @ + 1]
    BY <1>1, <2>3 DEF Worlds, Packet
  <2>4. CASE \E effort \in Efforts : world' = [world EXCEPT !.route.effort = effort]
    BY <1>1, <2>4 DEF Worlds
  <2>5. CASE world' = [world EXCEPT !.route.max = 1 - @]
    BY <1>1, <2>5 DEF Worlds
  <2> QED BY <2>1, <2>2, <2>3, <2>4, <2>5 DEF WorldChanges
<1>3. ProposalTypes'
  BY <1>1, <1>2 DEF ProposalInv, ProposalTypes
<1>4. \A r \in DOMAIN runs : RunFits(r)'
  BY <1>1 DEF ProposalInv, RunFits, Answered
<1>5. \A c \in ProposalCommands : StoredFits(c)'
  BY <1>1 DEF ProposalInv, StoredFits, CandidateAuditable
<1>6. SentAsDisclosed' /\ \A r \in DOMAIN durable' : SessionComplete(durable'[r])
  BY <1>1 DEF ProposalInv, SentAsDisclosed
<1> QED BY <1>1, <1>3, <1>4, <1>5, <1>6 DEF ProposalInv

LEMMA RestartInv ==
  ASSUME ProposalInv, Restart
  PROVE  ProposalInv'
<1>1. /\ runs' = [r \in DOMAIN runs |-> [runs[r] EXCEPT !.pc = "ended"]]
      /\ inFlight' = [c \in ProposalCommands |-> 0]
      /\ UNCHANGED <<world, confirmed, durable, stored>>
  BY DEF Restart
<1>2. runs \in Seq(Runs) /\ DOMAIN runs = 1..Len(runs) /\ Len(runs) \in Nat
  BY DEF ProposalInv, ProposalTypes
<1>3. \A r \in DOMAIN runs : runs[r] \in Runs
  BY <1>2, ElementOfSeq
<1>4. \A r \in DOMAIN runs :
        /\ runs'[r] \in Runs /\ runs'[r].pc = "ended" /\ runs'[r].command = runs[r].command
        /\ runs'[r].sent = runs[r].sent /\ runs'[r].packet = runs[r].packet
  BY <1>1, <1>3 DEF Runs, Stages
<1>5. DOMAIN runs' = DOMAIN runs
  BY <1>1
<1>6. runs' \in Seq(Runs) /\ Len(runs') = Len(runs)
  <2>1. runs' \in [1..Len(runs) -> Runs]
    BY <1>1, <1>2, <1>4
  <2> QED BY <2>1, <1>2
<1>7. ProposalTypes'
  BY <1>1, <1>6 DEF ProposalInv, ProposalTypes
<1>8. \A r \in DOMAIN runs' : RunFits(r)'
  BY <1>1, <1>4, <1>5 DEF ProposalInv, RunFits
<1>9. SentAsDisclosed'
  BY <1>1, <1>4, <1>5 DEF ProposalInv, SentAsDisclosed
<1>10. \A c \in ProposalCommands : StoredFits(c)'
  BY <1>1, <1>4, <1>5 DEF ProposalInv, StoredFits, CandidateAuditable
<1>11. \A r \in DOMAIN durable' : SessionComplete(durable'[r])
  BY <1>1 DEF ProposalInv
<1> QED BY <1>7, <1>8, <1>9, <1>10, <1>11 DEF ProposalInv

LEMMA ProposalInvInit == ProposalInit => ProposalInv
<1> SUFFICES ASSUME ProposalInit PROVE ProposalInv
  OBVIOUS
<1> USE DEF ProposalInit
<1>1. world \in Worlds
  BY DEF Worlds, Packet, Efforts
<1>2. runs = <<>> /\ durable = <<>> /\ runs \in Seq(Runs) /\ durable \in Seq(Seq(Events)) /\ Len(runs) = 0 /\ Len(durable) = 0
      /\ DOMAIN runs = {} /\ DOMAIN durable = {}
  OBVIOUS
<1>3. ProposalTypes
  BY <1>1, <1>2 DEF ProposalTypes
<1> QED BY <1>2, <1>3 DEF ProposalInv, SentAsDisclosed, StoredFits

LEMMA ProposalInvStep == ProposalInv /\ [ProposalNext]_proposal => ProposalInv'
<1> SUFFICES ASSUME ProposalInv, [ProposalNext]_proposal PROVE ProposalInv'
  OBVIOUS
<1>1. CASE WorldChanges
  BY <1>1, WorldChangesInv
<1>2. ASSUME NEW c \in ProposalCommands, Confirm(c) PROVE ProposalInv'
  BY <1>2, ConfirmInv
<1>3. ASSUME NEW c \in ProposalCommands, StartRun(c) PROVE ProposalInv'
  BY <1>3, StartRunInv
<1>4. ASSUME NEW r \in DOMAIN runs, ReadSources(r) PROVE ProposalInv'
  BY <1>4, ReadSourcesInv
<1>5. ASSUME NEW r \in DOMAIN runs, Compare(r) PROVE ProposalInv'
  BY <1>5, CompareInv
<1>6. ASSUME NEW r \in DOMAIN runs, Prepare(r) PROVE ProposalInv'
  BY <1>6, PrepareInv
<1>7. ASSUME NEW r \in DOMAIN runs, Stream(r) PROVE ProposalInv'
  BY <1>7, StreamInv
<1>8. ASSUME NEW r \in DOMAIN runs, Flush(r) PROVE ProposalInv'
  BY <1>8, FlushInv
<1>9. ASSUME NEW r \in DOMAIN runs, StoreCandidate(r) PROVE ProposalInv'
  BY <1>9, StoreCandidateInv
<1>10. CASE Restart
  BY <1>10, RestartInv
<1>11. CASE UNCHANGED proposal
  <2>1. UNCHANGED <<world, confirmed, inFlight, runs, durable, stored>>
    BY <1>11 DEF proposal
  <2>2. ProposalTypes' /\ SentAsDisclosed'
    BY <2>1 DEF ProposalInv, ProposalTypes, SentAsDisclosed
  <2>3. \A r \in DOMAIN runs : RunFits(r)'
    BY <2>1 DEF ProposalInv, RunFits, Answered
  <2>4. \A c \in ProposalCommands : StoredFits(c)'
    BY <2>1 DEF ProposalInv, StoredFits, CandidateAuditable
  <2>5. \A r \in DOMAIN durable' : SessionComplete(durable'[r])
    BY <2>1 DEF ProposalInv
  <2> QED BY <2>1, <2>2, <2>3, <2>4, <2>5 DEF ProposalInv
<1> QED BY <1>1, <1>2, <1>3, <1>4, <1>5, <1>6, <1>7, <1>8, <1>9, <1>10, <1>11 DEF ProposalNext

\* A model is sent what its owner confirmed, in one run of a command at a time;
\* every Session that was persisted is complete, and a stored Candidate names one
\* with a single call, accepted, that was sent the packet it cites.
THEOREM ProposalsStaySound == ProposalSpec => []ProposalsSound
<1>1. ProposalInv => ProposalsSound
  <2> SUFFICES ASSUME ProposalInv PROVE ProposalsSound
    OBVIOUS
  <2>1. OneRunPerCommand
    BY DEF ProposalInv, RunFits, OneRunPerCommand
  <2>2. ProposalsLogged
    BY DEF ProposalInv, StoredFits, ProposalsLogged
  <2> QED BY <2>1, <2>2 DEF ProposalsSound, ProposalInv
<1> QED BY <1>1, ProposalInvInit, ProposalInvStep, PTL DEF ProposalSpec
=============================================================================
