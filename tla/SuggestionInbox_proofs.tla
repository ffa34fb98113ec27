----------------------- MODULE SuggestionInbox_proofs -----------------------
(***************************************************************************)
(* Suggestions and recall.                                                 *)
(*                                                                         *)
(* SuggestionInbox, for any Sessions, commands, kernels and bounds: no     *)
(* turn is lost, and a decision that stands is changed by a committed save *)
(* of what was dismissed, and by nothing else.  The inductive invariant    *)
(* says of the progress rows that they are numbered in the order of their  *)
(* first request and that what the worker read of a row is an older state  *)
(* of it (Fits); of the decisions, that each is nobody's, a dismissal or a *)
(* receipt's (Stands), that a command has one receipt, and that a call     *)
(* that goes on to mark its decision has committed.  What the repair does  *)
(* to the receipts of any length is shown by counting: there is no least   *)
(* receipt at which it goes wrong.                                         *)
(*                                                                         *)
(* EmbeddingWorker, for any requests, names and models: a call gets        *)
(* vectors of its own name or none, and vectors are returned once: calls   *)
(* take turns, an answer is matched by its name, and each call is with one *)
(* child, in one answer or in one result (SentOnce).                       *)
(*                                                                         *)
(* Recall and HybridRetrieval, for any finite set of Versions and any      *)
(* scores: a query meets a generation of its own model, and the Version it *)
(* recalls is clear of every rival.  Rankings are strict orders, filled by *)
(* the number of those that come before; the ranking keeps a runner-up,    *)
(* and who is clear of the runner-up is clear of all.                      *)
(***************************************************************************)
EXTENDS SuggestionInbox, EmbeddingWorker, Recall, TLAPS, WellFoundedInduction, SequenceTheorems, FiniteSetTheorems

-----------------------------------------------------------------------------
\* A set of numbers that is not empty has a least one.
LEMMA Least ==
  ASSUME NEW S \in SUBSET Nat, S # {}
  PROVE  \E m \in S : \A x \in S : m <= x
<1>1. PICK m \in S : \A x \in S : <<x, m>> \notin OpToRel(<, Nat)
  BY NatLessThanWellFounded, WFMin
<1>2. \A x \in S : ~(x < m)
  BY <1>1 DEF OpToRel
<1> QED
  BY <1>2

\* Counting up reaches every number.
LEMMA Counting ==
  ASSUME NEW S \in SUBSET Nat, 0 \in S, \A n \in S : n + 1 \in S
  PROVE  S = Nat
<1> SUFFICES ASSUME Nat \ S # {} PROVE FALSE
  OBVIOUS
<1>1. PICK m \in Nat \ S : \A x \in Nat \ S : m <= x
  BY Least
<1>2. m # 0
  BY <1>1
<1>3. m - 1 \in Nat /\ m - 1 \in S
  BY <1>1, <1>2
<1>4. (m - 1) + 1 = m
  BY <1>1
<1> QED
  BY <1>1, <1>3, <1>4

-----------------------------------------------------------------------------
\* What the stores and the worker hold.
Outcomes == {"attached_as_evidence", "saved_new_experience"}
Disposition == [decision: {"none", "dismissed"} \cup Outcomes, command: Commands \cup {"none"}, target: Nat]
Receipt == [command: Commands, sources: Ids, outcome: Outcomes, target: Nat]

Phases == {"idle", "retrieval", "reading", "comparing"}
Row == [row: Nat, pending: BOOLEAN, retry: {"none", "waiting", "due"}, ends: SUBSET Nat,
        seq: Nat, version: Nat, turns: SUBSET Nat]
Seeds == {t \in Sessions \X Nat : Kernel[t] \in Groups}
Froms == [turns: SUBSET Seeds, decided: SUBSET Ids, versions: SUBSET Nat]
Jobs == [session: Sessions, row: Row]
Workers == [phase: Phases, requested: BOOLEAN, retrieval: BOOLEAN, timer: BOOLEAN, versions: SUBSET Nat,
            job: Jobs \cup {NoJob}, captured: Int, from: Froms]
Views == [sources: Ids, turns: SUBSET Seeds, how: {"plain", "distinct"} \cup Matching,
          compared: SUBSET Nat, match: Nat]
Calling == [phase: {"resolved", "saved", "failed", "done", "lost"}, view: Views]
Calls == Calling \cup {NoCall, [phase |-> "dismissed"]}

\* The progress rows of the sidecar: numbered in the order of the first request.
RowsTyped(rows) ==
  /\ rows \in [Sessions -> Row]
  /\ \A s \in Sessions : rows[s].turns \cup rows[s].ends \subseteq 1..MaxTurns[s]

Used(rows) == {s \in Sessions : rows[s].row # 0}

Numbered(rows) ==
  /\ IsFiniteSet(Used(rows))
  /\ \A s \in Sessions : /\ rows[s].pending => rows[s].row # 0
                         /\ rows[s].row <= Cardinality(Used(rows))
  /\ \A s, t \in Used(rows) : rows[s].row = rows[t].row => s = t

\* A job is an older state of its row: what was analysed is as it was, and nothing
\* was asked for meanwhile unless the row has another version.
Fits(job, rows) ==
  job # NoJob =>
    LET now == rows[job.session] IN
    /\ job.session \in Used(rows)
    /\ job.row.turns = now.turns /\ job.row.ends \subseteq now.ends
    /\ job.row.version <= now.version
    /\ job.row.version = now.version => job.row.ends = now.ends /\ job.row.seq = now.seq

WorkerOk(w, rows) ==
  /\ w \in Workers /\ Fits(w.job, rows)
  /\ w.phase = "reading" => w.job # NoJob
  /\ w.versions \subseteq 1..published /\ w.from.versions \subseteq 1..published

ActiveOk == active \in [Groups -> Nat] /\ published \in Nat /\ \A g \in Groups : active[g] <= published

LEMMA JobIs ==
  ASSUME NEW job \in Jobs
  PROVE  job # NoJob /\ job.session \in Sessions /\ job.row \in Row
BY DEF Jobs, NoJob

LEMMA ActiveIs ==
  ASSUME ActiveOk
  PROVE  ActiveVersions \subseteq 1..published /\ ActiveVersions \subseteq Nat
BY DEF ActiveOk, ActiveVersions

Repairing == [ok: BOOLEAN, ds: [Ids -> Disposition]]

\* Receipts decide what nobody or a dismissal decided before.
Repaired(old, new) ==
  \A id \in Ids : \/ new[id] = old[id]
                  \/ /\ old[id].decision \in {"none", "dismissed"}
                     /\ \E i \in DOMAIN receipts : new[id] = Saved(receipts[i])

LEMMA AppliedIs ==
  ASSUME NEW p \in Repairing, NEW r \in Receipt
  PROVE  /\ Applied(p, r) \in Repairing
         /\ \A id \in Ids : \/ Applied(p, r).ds[id] = p.ds[id]
                            \/ /\ p.ds[id].decision \in {"none", "dismissed"}
                               /\ Applied(p, r).ds[id] = Saved(r)
<1> DEFINE new == [id \in Ids |->
                     IF id \in Bindings(r.sources) /\ p.ds[id].decision \in {"none", "dismissed"}
                     THEN Saved(r) ELSE p.ds[id]]
<1>1. Saved(r) \in Disposition
  BY DEF Saved, Receipt, Disposition
<1>2. \A id \in Ids : \/ new[id] = p.ds[id]
                      \/ p.ds[id].decision \in {"none", "dismissed"} /\ new[id] = Saved(r)
  BY Zenon
<1>3. new \in [Ids -> Disposition]
  BY <1>1 DEF Repairing
<1>4. \/ Applied(p, r) = [p EXCEPT !.ok = FALSE]
      \/ Applied(p, r) = [p EXCEPT !.ds = new]
  BY DEF Applied
<1> HIDE DEF new
<1>5. [p EXCEPT !.ok = FALSE] \in Repairing /\ [p EXCEPT !.ok = FALSE].ds = p.ds
  BY DEF Repairing
<1>6. [p EXCEPT !.ds = new] \in Repairing /\ [p EXCEPT !.ds = new].ds = new
  BY <1>3 DEF Repairing
<1> QED
  BY <1>2, <1>4, <1>5, <1>6

LEMMA RepairIs ==
  ASSUME receipts \in Seq(Receipt), NEW ds \in [Ids -> Disposition]
  PROVE  Repair(ds) \in Repairing /\ Repaired(ds, Repair(ds).ds)
<1> DEFINE Body(f, n) == IF n = 0 THEN [ok |-> TRUE, ds |-> ds] ELSE Applied(f[n - 1], receipts[n])
           upTo == CHOOSE f : f = [n \in 0..Len(receipts) |-> Body(f, n)]
           Defined == {k \in Nat : \E f : f = [n \in 0..k |-> Body(f, n)]}
<1>1. 0 \in Defined
  <2>1. [n \in 0..0 |-> [ok |-> TRUE, ds |-> ds]] = [n \in 0..0 |-> Body([i \in 0..0 |-> [ok |-> TRUE, ds |-> ds]], n)]
    OBVIOUS
  <2> QED
    BY <2>1
<1>2. ASSUME NEW k \in Defined PROVE k + 1 \in Defined
  <2>1. PICK f : f = [n \in 0..k |-> Body(f, n)]
    OBVIOUS
  <2> DEFINE g == [n \in 0..(k + 1) |-> IF n = k + 1 THEN Applied(f[k], receipts[k + 1]) ELSE f[n]]
  <2>2. ASSUME NEW n \in 0..(k + 1) PROVE g[n] = Body(g, n)
    <3>1. CASE n = k + 1
      BY <3>1
    <3>2. CASE n # k + 1 /\ n = 0
      BY <2>1, <3>2
    <3>3. CASE n # k + 1 /\ n # 0
      <4>1. n \in 0..k /\ n - 1 \in 0..(k + 1) /\ n - 1 # k + 1
        BY <3>3
      <4>2. g[n - 1] = f[n - 1] /\ g[n] = f[n]
        BY <3>3, <4>1
      <4>3. f[n] = Applied(f[n - 1], receipts[n])
        BY <2>1, <3>3, <4>1
      <4> QED
        BY <3>3, <4>2, <4>3
    <3> QED
      BY <3>1, <3>2, <3>3
  <2>3. g = [n \in 0..(k + 1) |-> g[n]]
    OBVIOUS
  <2>4. [n \in 0..(k + 1) |-> g[n]] = [n \in 0..(k + 1) |-> Body(g, n)]
    <3> HIDE DEF g, Body
    <3> QED
    BY <2>2
  <2> HIDE DEF g, Body
  <2> QED
    BY <2>3, <2>4
<1>3. Len(receipts) \in Nat
  BY LenProperties
<1>4. Len(receipts) \in Defined
  <2> HIDE DEF Defined
  <2>1. Defined \in SUBSET Nat
    BY DEF Defined
  <2> QED
    BY <1>1, <1>2, <1>3, <2>1, Counting
<1>5. upTo = [n \in 0..Len(receipts) |-> Body(upTo, n)]
  BY <1>4
<1>6. Repair(ds) = upTo[Len(receipts)]
  BY DEF Repair
<1> HIDE DEF upTo
<1> DEFINE Good(p) == p \in Repairing /\ Repaired(ds, p.ds)
           Fine == {n \in Nat : n <= Len(receipts) => Good(upTo[n])}
<1>7. 0 \in Fine
  <2>1. upTo[0] = [ok |-> TRUE, ds |-> ds]
    BY <1>3, <1>5
  <2>2. [ok |-> TRUE, ds |-> ds] \in Repairing /\ [ok |-> TRUE, ds |-> ds].ds = ds
    BY DEF Repairing
  <2>3. Repaired(ds, ds)
    BY DEF Repaired
  <2> QED
    BY <2>1, <2>2, <2>3
<1>8. ASSUME NEW k \in Fine, k + 1 <= Len(receipts) PROVE Good(upTo[k + 1])
  <2>1. k \in Nat /\ k + 1 \in 0..Len(receipts) /\ k + 1 # 0 /\ (k + 1) - 1 = k /\ k + 1 \in 1..Len(receipts)
        /\ k <= Len(receipts)
    BY <1>3, <1>8
  <2>2. upTo[k + 1] = Applied(upTo[k], receipts[k + 1])
    BY <1>5, <2>1
  <2>3. upTo[k] \in Repairing /\ Repaired(ds, upTo[k].ds)
    BY <2>1
  <2>4. receipts[k + 1] \in Receipt /\ k + 1 \in DOMAIN receipts
    BY <2>1, LenProperties, ElementOfSeq
  <2>5. /\ upTo[k + 1] \in Repairing
        /\ \A id \in Ids : \/ upTo[k + 1].ds[id] = upTo[k].ds[id]
                           \/ /\ upTo[k].ds[id].decision \in {"none", "dismissed"}
                              /\ upTo[k + 1].ds[id] = Saved(receipts[k + 1])
    BY <2>2, <2>3, <2>4, AppliedIs
  <2>6. \A i \in DOMAIN receipts : receipts[i] \in Receipt
    BY LenProperties, ElementOfSeq
  <2>7. \A i \in DOMAIN receipts : Saved(receipts[i]).decision \notin {"none", "dismissed"}
    BY <2>6 DEF Saved, Receipt, Outcomes
  <2>8. Repaired(ds, upTo[k + 1].ds)
    BY <2>3, <2>4, <2>5, <2>7 DEF Repaired
  <2> QED
    BY <2>5, <2>8
<1>9. Len(receipts) \in Fine
  <2>1. Fine \in SUBSET Nat /\ 0 \in Fine
    BY <1>7
  <2>2. \A k \in Fine : k + 1 \in Fine
    BY <1>8
  <2> HIDE DEF Fine
  <2> QED
    BY <1>3, <2>1, <2>2, Counting
<1>10. Good(upTo[Len(receipts)])
  BY <1>3, <1>9
<1> QED
  BY <1>6, <1>10

-----------------------------------------------------------------------------
\* The next job is the row of a Session that is ready: among those there is one
\* that precedes all others, as the rows are numbered.
LEMMA NextJobIs ==
  ASSUME NEW rows, RowsTyped(rows), Numbered(rows)
  PROVE  \/ NextJob(rows) = NoJob
         \/ /\ NextJob(rows) \in Jobs /\ Fits(NextJob(rows), rows)
<1> DEFINE A(s) == IF rows[s].retry = "none" THEN 0 ELSE 1
           B(s) == IF rows[s].turns = {} THEN 0 ELSE 1
           ByA == {A(s) : s \in Ready(rows)}
<1>1. SUFFICES ASSUME Ready(rows) # {} PROVE NextJob(rows) \in Jobs /\ Fits(NextJob(rows), rows)
  BY DEF NextJob
<1>2. \A s \in Ready(rows) : s \in Sessions /\ rows[s] \in Row /\ s \in Used(rows)
  BY DEF Ready, RowsTyped, Numbered, Used
<1>3. \A s \in Sessions : A(s) \in Nat /\ B(s) \in Nat
  OBVIOUS
<1>4. PICK a \in ByA : \A x \in ByA : a <= x
  <2>1. ByA \in SUBSET Nat /\ ByA # {}
    BY <1>1
  <2> HIDE DEF ByA
  <2> QED
    BY <2>1, Least
<1> DEFINE ByB == {B(s) : s \in {t \in Ready(rows) : A(t) = a}}
<1>5. PICK b \in ByB : \A x \in ByB : b <= x
  <2>1. ByB \in SUBSET Nat /\ ByB # {}
    BY <1>4
  <2> HIDE DEF ByB
  <2> QED
    BY <2>1, Least
<1> DEFINE ByRow == {rows[s].row : s \in {t \in Ready(rows) : A(t) = a /\ B(t) = b}}
<1>6. PICK r \in ByRow : \A x \in ByRow : r <= x
  <2>1. ByRow # {}
    BY <1>5
  <2>2. ByRow \in SUBSET Nat
    BY <1>2 DEF Row
  <2> HIDE DEF ByRow
  <2> QED
    BY <2>1, <2>2, Least
<1>7. PICK s \in Ready(rows) : A(s) = a /\ B(s) = b /\ rows[s].row = r
  BY <1>6
<1>8. ASSUME NEW u \in Ready(rows) \ {s} PROVE Before(Precedence(rows[s]), Precedence(rows[u]))
  <2> DEFINE p == Precedence(rows[s])
             q == Precedence(rows[u])
  <2>1. /\ p = <<A(s), B(s), rows[s].row>> /\ q = <<A(u), B(u), rows[u].row>>
        /\ DOMAIN p = 1..3 /\ 1 \in DOMAIN p /\ 2 \in DOMAIN p /\ 3 \in DOMAIN p
    BY DEF Precedence
  <2>2. A(s) <= A(u)
    BY <1>4, <1>7, <1>8
  <2>3. A(u) = A(s) => B(s) <= B(u)
    BY <1>5, <1>7, <1>8
  <2>4. A(u) = A(s) /\ B(u) = B(s) => rows[s].row <= rows[u].row
    BY <1>6, <1>7, <1>8
  <2>5. rows[s].row # rows[u].row /\ rows[s].row \in Nat /\ rows[u].row \in Nat
    BY <1>2, <1>7, <1>8 DEF Numbered, Row
  <2>6. A(s) \in Nat /\ A(u) \in Nat /\ B(s) \in Nat /\ B(u) \in Nat
    OBVIOUS
  <2> HIDE DEF A, B
  <2>7. p[1] = A(s) /\ p[2] = B(s) /\ p[3] = rows[s].row /\ q[1] = A(u) /\ q[2] = B(u) /\ q[3] = rows[u].row
    BY <2>1
  <2> HIDE DEF p, q
  <2>8. CASE A(s) < A(u)
    <3>1. p[1] < q[1] /\ \A j \in 1..(1 - 1) : p[j] = q[j]
      BY <2>7, <2>8
    <3> QED
      BY <2>1, <3>1 DEF Before, p, q
  <2>9. CASE A(s) = A(u) /\ B(s) < B(u)
    <3>1. p[2] < q[2] /\ \A j \in 1..(2 - 1) : p[j] = q[j]
      BY <2>7, <2>9
    <3> QED
      BY <2>1, <3>1 DEF Before, p, q
  <2>10. CASE A(s) = A(u) /\ B(s) = B(u)
    <3>1. p[3] < q[3]
      BY <2>4, <2>5, <2>7, <2>10
    <3>2. \A j \in 1..(3 - 1) : p[j] = q[j]
      BY <2>7, <2>10
    <3> QED
      BY <2>1, <3>1, <3>2 DEF Before, p, q
  <2> QED
    BY <2>2, <2>3, <2>6, <2>8, <2>9, <2>10
<1>9. PICK t \in Ready(rows) : NextJob(rows) = [session |-> t, row |-> rows[t]]
  <2> DEFINE First(t) == \A u \in Ready(rows) \ {t} : Before(Precedence(rows[t]), Precedence(rows[u]))
  <2>1. First(CHOOSE t \in Ready(rows) : First(t)) /\ (CHOOSE t \in Ready(rows) : First(t)) \in Ready(rows)
    <3>1. First(s)
      BY <1>8
    <3> HIDE DEF First
    <3> QED
      BY <3>1
  <2>2. NextJob(rows) = LET t == CHOOSE t \in Ready(rows) : First(t) IN [session |-> t, row |-> rows[t]]
    BY <1>1 DEF NextJob
  <2> HIDE DEF First
  <2> QED
    BY <2>1, <2>2
<1>10. t \in Sessions /\ rows[t] \in Row /\ t \in Used(rows)
  BY <1>2
<1>11. NextJob(rows) \in Jobs
  BY <1>9, <1>10 DEF Jobs
<1>12. rows[t].version \in Nat
  BY <1>10 DEF Row
<1> QED
  BY <1>9, <1>10, <1>11, <1>12 DEF Fits

-----------------------------------------------------------------------------
\* The worker enters a phase.
LEMMA EnterIs ==
  ASSUME NEW w \in Workers, NEW phase \in Phases, published \in Nat, NEW rows
  PROVE  /\ phase # "reading" => WorkerOk(Enter(w, phase), rows)
         /\ Enter(w, phase) \in Workers /\ Enter(w, phase).phase = phase
         /\ Enter(w, phase).versions = {} /\ Enter(w, phase).from.versions = {}
<1>1. Idle \in Workers
  BY DEF Idle, Workers, Phases, Froms
<1>2. w.requested \in BOOLEAN /\ w.retrieval \in BOOLEAN /\ w.timer \in BOOLEAN
  BY DEF Workers
<1> DEFINE e == Enter(w, phase)
<1>3. e = [Idle EXCEPT !.phase = phase, !.requested = w.requested, !.retrieval = w.retrieval, !.timer = w.timer]
  BY DEF Enter
<1> HIDE DEF e
<1>6. /\ e \in Workers /\ e.phase = phase /\ e.job = Idle.job /\ e.versions = Idle.versions
      /\ e.from = Idle.from
  BY <1>1, <1>2, <1>3 DEF Workers
<1>7. Idle.job = NoJob /\ Idle.versions = {} /\ Idle.from.versions = {}
  BY DEF Idle
<1> QED
  BY <1>6, <1>7 DEF WorkerOk, Fits, e

LEMMA FinishedIs ==
  ASSUME NEW w \in Workers, NEW rows, published \in Nat
  PROVE  WorkerOk(Finished(w, rows), rows)
<1> DEFINE e == Enter(w, "idle")
           timer == NextJob(rows) # NoJob
<1>1. WorkerOk(e, rows)
  BY EnterIs DEF Phases
<1>2. Finished(w, rows) = [e EXCEPT !.timer = timer]
  BY DEF Finished
<1>3. timer \in BOOLEAN
  OBVIOUS
<1> HIDE DEF e, timer
<1> QED
  BY <1>1, <1>2, <1>3 DEF WorkerOk, Workers

LEMMA FromIs ==
  ASSUME NEW rows, RowsTyped(rows), NEW ds, NEW g, ActiveOk
  PROVE  From(rows, ds, g) \in Froms /\ From(rows, ds, g).versions \subseteq 1..published
<1>1. ASSUME NEW s \in Sessions, NEW n \in rows[s].turns, Seeded(<<s, n>>) PROVE <<s, n>> \in Seeds
  <2>1. n \in 1..MaxTurns[s] /\ MaxTurns[s] \in Nat
    BY ConstantsAssumption DEF RowsTyped
  <2>2. Kernel[<<s, n>>] \in Groups
    BY <1>1, <2>1, ConstantsAssumption DEF Seeded
  <2> QED
    BY <2>1, <2>2 DEF Seeds
<1>2. {t \in UNION {{<<s, n>> : n \in rows[s].turns} : s \in Sessions} : Seeded(t)} \subseteq Seeds
  BY <1>1
<1>3. Decided(ds) \subseteq Ids
  BY DEF Decided
<1> QED
  BY <1>2, <1>3, ActiveIs DEF From, Froms

\* What a commit of the job would make of its row stays within the turns of the Session.
LEMMA RowsWithIs ==
  ASSUME NEW rows, RowsTyped(rows), NEW job \in Jobs \cup {NoJob}, Fits(job, rows), NEW captured \in Int
  PROVE  RowsTyped(RowsWith(rows, job, captured))
<1>1. CASE job = NoJob
  BY <1>1 DEF RowsWith
<1>2. CASE job # NoJob
  <2> DEFINE s == job.session
  <2>1. s \in Sessions /\ rows[s] \in Row
    BY <1>2, JobIs DEF RowsTyped
  <2>2. Analysed(job, captured) \subseteq 1..MaxTurns[s]
    BY <1>2, <2>1 DEF Analysed, Fits, RowsTyped
  <2>3. MaxTurns[s] \in Nat
    BY <2>1, ConstantsAssumption
  <2>4. [rows[s] EXCEPT !.turns = Analysed(job, captured)] \in Row
    BY <2>1, <2>2, <2>3 DEF Row
  <2>5. RowsWith(rows, job, captured) = [rows EXCEPT ![s] = [rows[s] EXCEPT !.turns = Analysed(job, captured)]]
    BY <1>2, <2>1 DEF RowsWith, RowsTyped
  <2>6. /\ [rows[s] EXCEPT !.turns = Analysed(job, captured)].turns = Analysed(job, captured)
        /\ [rows[s] EXCEPT !.turns = Analysed(job, captured)].ends = rows[s].ends
    BY <2>1 DEF Row
  <2> QED
    BY <2>1, <2>2, <2>4, <2>5, <2>6 DEF RowsTyped
<1> QED
  BY <1>1, <1>2

LEMMA CompareIs ==
  ASSUME NEW w \in Workers, ActiveOk, NEW rows, RowsTyped(rows), NEW ds, NEW g,
         NEW job \in Jobs \cup {NoJob}, Fits(job, rows), NEW captured \in Int
  PROVE  WorkerOk(Compare(w, rows, ds, g, job, captured), rows)
<1> DEFINE e == Enter(w, "comparing")
           from == From(RowsWith(rows, job, captured), ds, g)
<1>1. WorkerOk(e, rows) /\ e.phase = "comparing"
  BY EnterIs DEF Phases, ActiveOk
<1>2. from \in Froms /\ from.versions \subseteq 1..published
  BY RowsWithIs, FromIs
<1>3. Compare(w, rows, ds, g, job, captured)
        = [e EXCEPT !.job = job, !.captured = captured, !.from = from]
  BY DEF Compare
<1> HIDE DEF e, from
<1> PICK x : x = [e EXCEPT !.job = job, !.captured = captured, !.from = from]
  OBVIOUS
<1>4. x \in Workers /\ x.phase = "comparing" /\ x.job = job /\ x.from = from /\ x.versions = e.versions
  BY <1>1, <1>2 DEF WorkerOk, Workers
<1>5. WorkerOk(x, rows)
  BY <1>1, <1>2, <1>4 DEF WorkerOk
<1> QED
  BY <1>3, <1>5

LEMMA PickIs ==
  ASSUME NEW w \in Workers, ActiveOk, NEW rows, RowsTyped(rows), Numbered(rows), NEW ds, NEW g
  PROVE  WorkerOk(Pick(w, rows, ds, g), rows)
<1>1. CASE NextJob(rows) = NoJob
  <2>1. Fits(NoJob, rows)
    BY DEF Fits
  <2>2. Pick(w, rows, ds, g) = Compare(w, rows, ds, g, NoJob, 0)
    BY <1>1 DEF Pick
  <2> QED
    BY <2>1, <2>2, CompareIs
<1>2. CASE NextJob(rows) # NoJob
  <2> DEFINE e == Enter(w, "reading")
             job == NextJob(rows)
  <2>1. e \in Workers /\ e.phase = "reading" /\ e.versions = {} /\ e.from.versions = {}
    BY EnterIs DEF Phases, ActiveOk
  <2>2. Pick(w, rows, ds, g) = [e EXCEPT !.job = job]
    BY <1>2 DEF Pick
  <2>3. job \in Jobs /\ Fits(job, rows)
    BY <1>2, NextJobIs
  <2> HIDE DEF e, job
  <2> PICK x : x = [e EXCEPT !.job = job]
    OBVIOUS
  <2>4. x \in Workers /\ x.job = job /\ x.from = e.from /\ x.versions = e.versions
    BY <2>1, <2>3 DEF Workers
  <2>5. WorkerOk(x, rows)
    BY <1>2, <2>1, <2>3, <2>4, JobIs DEF WorkerOk
  <2> QED
    BY <2>2, <2>5
<1> QED
  BY <1>1, <1>2

LEMMA RoundIs ==
  ASSUME NEW w \in Workers, ActiveOk, NEW rows, RowsTyped(rows), Numbered(rows),
         receipts \in Seq(Receipt), NEW ds \in [Ids -> Disposition]
  PROVE  /\ WorkerOk(Round(w, rows, ds).worker, rows)
         /\ Round(w, rows, ds).ds \in [Ids -> Disposition] /\ Repaired(ds, Round(w, rows, ds).ds)
<1>1. Repaired(ds, ds)
  BY DEF Repaired
<1>2. published \in Nat
  BY DEF ActiveOk
<1>3. [w EXCEPT !.requested = FALSE] \in Workers /\ [w EXCEPT !.requested = FALSE, !.retrieval = FALSE] \in Workers
  BY DEF Workers
<1>4. CASE ~w.requested
  <2>1. Round(w, rows, ds) = [worker |-> Finished(w, rows), ds |-> ds]
    BY <1>4 DEF Round
  <2> QED
    BY <1>1, <1>2, <2>1, FinishedIs
<1>5. CASE w.requested /\ ~w.retrieval
  <2> DEFINE p == Pick([w EXCEPT !.requested = FALSE], rows, ds, indexed)
  <2>1. Round(w, rows, ds) = [worker |-> p, ds |-> ds]
    BY <1>5 DEF Round
  <2>2. WorkerOk(p, rows)
    BY <1>3, PickIs
  <2> HIDE DEF p
  <2> QED
    BY <1>1, <2>1, <2>2
<1>6. CASE w.requested /\ w.retrieval /\ ~Repair(ds).ok
  <2> DEFINE f == Finished([w EXCEPT !.requested = FALSE, !.retrieval = FALSE], rows)
  <2>1. Round(w, rows, ds) = [worker |-> f, ds |-> ds]
    BY <1>6 DEF Round
  <2>2. WorkerOk(f, rows)
    BY <1>2, <1>3, FinishedIs
  <2> HIDE DEF f
  <2> QED
    BY <1>1, <2>1, <2>2
<1>7. CASE w.requested /\ w.retrieval /\ Repair(ds).ok
  <2> DEFINE e == Enter(w, "retrieval")
             x == [e EXCEPT !.requested = FALSE, !.retrieval = FALSE, !.versions = ActiveVersions]
  <2>1. Round(w, rows, ds) = [worker |-> x, ds |-> Repair(ds).ds]
    BY <1>7 DEF Round
  <2>2. WorkerOk(e, rows)
    BY <1>2, EnterIs DEF Phases
  <2> HIDE DEF e
  <2>3. WorkerOk(x, rows)
    BY <2>2, ActiveIs DEF WorkerOk, Workers
  <2>4. Repair(ds).ds \in [Ids -> Disposition] /\ Repaired(ds, Repair(ds).ds)
    BY RepairIs DEF Repairing
  <2> HIDE DEF x
  <2> QED
    BY <2>1, <2>3, <2>4
<1> QED
  BY <1>4, <1>5, <1>6, <1>7 DEF Workers

LEMMA KickIs ==
  ASSUME NEW w, NEW rows, WorkerOk(w, rows), ActiveOk, RowsTyped(rows), Numbered(rows),
         receipts \in Seq(Receipt), NEW ds \in [Ids -> Disposition]
  PROVE  /\ WorkerOk(Kick(w, rows, ds).worker, rows)
         /\ Kick(w, rows, ds).ds \in [Ids -> Disposition] /\ Repaired(ds, Kick(w, rows, ds).ds)
<1> DEFINE r == [w EXCEPT !.requested = TRUE]
<1>1. w \in Workers
  BY DEF WorkerOk
<1>2. r \in Workers /\ WorkerOk(r, rows)
  BY <1>1 DEF WorkerOk, Workers
<1>3. CASE w.phase # "idle"
  <2>1. Kick(w, rows, ds) = [worker |-> r, ds |-> ds]
    BY <1>3 DEF Kick
  <2>2. Repaired(ds, ds)
    BY DEF Repaired
  <2> HIDE DEF r
  <2> QED
    BY <1>2, <2>1, <2>2
<1>4. CASE w.phase = "idle"
  <2>1. Kick(w, rows, ds) = Round(r, rows, ds)
    BY <1>4 DEF Kick
  <2> HIDE DEF r
  <2> QED
    BY <1>2, <2>1, RoundIs
<1> QED
  BY <1>3, <1>4

LEMMA KickedIs ==
  ASSUME NEW w, NEW rows, WorkerOk(w, rows), ActiveOk, RowsTyped(rows), Numbered(rows),
         receipts \in Seq(Receipt), NEW ds \in [Ids -> Disposition],
         Kicked(w, rows, ds), rows = progress', UNCHANGED published
  PROVE  /\ WorkerOk(worker, progress)'
         /\ dispositions' \in [Ids -> Disposition] /\ Repaired(ds, dispositions')
<1>1. worker' = Kick(w, rows, ds).worker /\ dispositions' = Kick(w, rows, ds).ds
  BY DEF Kicked
<1>2. WorkerOk(worker', rows)
  BY <1>1, KickIs
<1> QED
  BY <1>1, <1>2, KickIs DEF WorkerOk

-----------------------------------------------------------------------------
\* What the worker may put into the inbox.
LEMMA ViewIs ==
  ASSUME NEW from \in Froms, NEW sources \in Ids, NEW how \in {"plain", "distinct"} \cup Matching, NEW match \in Nat
  PROVE  View(sources, from, how, match) \in Views
<1>1. {t \in from.turns : Kernel[t] \in sources} \in SUBSET Seeds
  BY DEF Froms
<1>2. (IF how = "plain" THEN {} ELSE from.versions) \in SUBSET Nat
  BY DEF Froms
<1> QED
  BY <1>1, <1>2 DEF View, Views

LEMMA ComparisonsAre ==
  ASSUME NEW from \in Froms
  PROVE  Comparisons(from) \subseteq SUBSET Views
<1> DEFINE K == Suggested(from)
<1>1. K \subseteq Groups
  BY DEF Suggested, Froms, Seeds
<1>2. \A g \in Groups : {g} \in Ids
  <2>1. \A g \in Groups : {g} # {} /\ {g} \in SUBSET Groups
    OBVIOUS
  <2> QED
    BY <2>1 DEF Ids
<1>3. Exact(from) \subseteq Views
  BY <1>1, <1>2, ViewIs DEF Exact
<1>4. ASSUME NEW ids \in Ids PROVE Related(ids, from) \subseteq Views
  <2>1. from.versions \subseteq Nat
    BY DEF Froms
  <2>2. View(ids, from, "distinct", 0) \in Views
    BY ViewIs
  <2>3. \A how \in Matching, v \in from.versions : View(ids, from, how, v) \in Views
    BY <2>1, ViewIs
  <2> QED
    BY <2>2, <2>3 DEF Related
<1>5. ASSUME NEW merge \in Merges(K) PROVE merge \subseteq Ids
  <2>1. PICK m \in SUBSET K : merge = {{g} : g \in K \ m} \cup (IF m = {} THEN {} ELSE {m})
    BY DEF Merges
  <2>2. m # {} => m \in Ids
    <3>1. m \in SUBSET Groups
      BY <1>1, <2>1
    <3> QED
      BY <3>1 DEF Ids
  <2> QED
    BY <1>1, <1>2, <2>1, <2>2
<1>6. ASSUME NEW merge \in Merges(K) PROVE UNION {Related(ids, from) : ids \in merge} \subseteq Views
  BY <1>4, <1>5
<1> HIDE DEF K
<1> QED
  BY <1>3, <1>6 DEF Comparisons, K

-----------------------------------------------------------------------------
\* The invariant.
RowsInv ==
  /\ log \in [Sessions -> Nat] /\ RowsTyped(progress) /\ Numbered(progress)
  /\ \A s \in Sessions : /\ log[s] <= MaxTurns[s]
                         /\ progress[s].turns \cup progress[s].ends \subseteq 1..log[s]
                         /\ \A n \in progress[s].ends : n <= progress[s].seq

StoresInv ==
  /\ ActiveOk /\ indexed \subseteq 1..published
  /\ inbox \subseteq Views /\ receipts \in Seq(Receipt)
  /\ dispositions \in [Ids -> Disposition] /\ calls \in [Commands -> Calls]

TypesInv == RowsInv /\ StoresInv /\ WorkerOk(worker, progress)

\* A decision is nobody's, a dismissal of a command that does nothing else, or a receipt's.
Stands(d) ==
  \/ d = None
  \/ /\ d.decision = "dismissed" /\ d.command \in Commands
     /\ calls[d.command].phase = "dismissed"
  \/ \E i \in DOMAIN receipts : d = Saved(receipts[i])

DecisionsInv ==
  /\ \A id \in Ids : Stands(dispositions[id])
  /\ \A i, j \in DOMAIN receipts : receipts[i].command = receipts[j].command => i = j
  /\ \A c \in Commands : calls[c].phase = "saved" => Recorded(c)

Inv == TypesInv /\ DecisionsInv /\ TurnsKept

-----------------------------------------------------------------------------
LEMMA InitOk == Init => Inv
<1> SUFFICES ASSUME Init PROVE Inv
  OBVIOUS
<1>1. NoRow \in Row
  BY DEF NoRow, Row
<1>2. \A s \in Sessions : log[s] = 0 /\ progress[s] = NoRow /\ MaxTurns[s] \in Nat
  BY ConstantsAssumption DEF Init
<1>3. Used(progress) = {} /\ Cardinality({}) = 0 /\ IsFiniteSet({})
  BY <1>2, FS_EmptySet DEF Used, NoRow
<1>4. RowsTyped(progress)
  BY <1>1, <1>2 DEF RowsTyped, Init, NoRow
<1>5. Numbered(progress)
  BY <1>2, <1>3 DEF Numbered, NoRow
<1>6. RowsInv
  BY <1>2, <1>4, <1>5 DEF RowsInv, Init, NoRow
<1>7. Idle \in Workers
  BY DEF Idle, Workers, Phases, Froms
<1>8. WorkerOk(worker, progress)
  BY <1>7 DEF Init, WorkerOk, Fits, Idle
<1>9. None \in Disposition
  BY DEF None, Disposition
<1>10. StoresInv
  <2>1. ActiveOk
    BY DEF Init, ActiveOk
  <2>2. receipts \in Seq(Receipt)
    BY EmptySeq DEF Init
  <2> QED
    BY <1>9, <2>1, <2>2 DEF Init, StoresInv, Calls
<1>11. DecisionsInv
  <2>1. DOMAIN receipts = {}
    BY DEF Init
  <2> QED
    BY <2>1 DEF Init, DecisionsInv, Stands, NoCall
<1>12. TurnsKept
  BY <1>2 DEF TurnsKept
<1> QED
  BY <1>6, <1>8, <1>10, <1>11, <1>12 DEF Inv, TypesInv

-----------------------------------------------------------------------------
\* Rows that only asked for more since: a job fits them still.
Later(old, new) ==
  /\ old.row # 0 => new.row # 0
  /\ new.turns = old.turns /\ old.ends \subseteq new.ends
  /\ old.version <= new.version
  /\ new.version = old.version => new.ends = old.ends /\ new.seq = old.seq

LEMMA WorkerStill ==
  ASSUME NEW w, NEW rows \in [Sessions -> Row], NEW rows2 \in [Sessions -> Row], WorkerOk(w, rows),
         \A s \in Sessions : Later(rows[s], rows2[s])
  PROVE  WorkerOk(w, rows2)
<1> DEFINE job == w.job
           s == job.session
<1>1. SUFFICES ASSUME job # NoJob PROVE Fits(job, rows2)
  BY DEF WorkerOk, Fits
<1>2. s \in Sessions /\ job.row \in Row
  BY <1>1, JobIs DEF WorkerOk, Workers
<1>3. /\ s \in Used(rows)
      /\ job.row.turns = rows[s].turns /\ job.row.ends \subseteq rows[s].ends
      /\ job.row.version <= rows[s].version
      /\ job.row.version = rows[s].version => job.row.ends = rows[s].ends /\ job.row.seq = rows[s].seq
  BY <1>1 DEF WorkerOk, Fits
<1>4. Later(rows[s], rows2[s])
  BY <1>2
<1>5. job.row.version \in Nat /\ rows[s].version \in Nat /\ rows2[s].version \in Nat
  BY <1>2 DEF Row
<1>6. s \in Used(rows2)
  BY <1>2, <1>3, <1>4 DEF Later, Used
<1> HIDE DEF job
<1> QED
  BY <1>3, <1>4, <1>5, <1>6 DEF Later, Fits

LEMMA NumberedStill ==
  ASSUME NEW rows, NEW rows2 \in [Sessions -> Row], Numbered(rows),
         \A s \in Sessions : rows2[s].row = rows[s].row /\ (rows2[s].pending => rows[s].row # 0)
  PROVE  Numbered(rows2)
<1>1. Used(rows2) = Used(rows)
  BY DEF Used
<1> QED
  BY <1>1 DEF Numbered, Used

LEMMA TypesSame ==
  ASSUME TypesInv
  PROVE  /\ UNCHANGED <<log, progress>> => RowsInv'
         /\ UNCHANGED <<worker, progress, published>> => WorkerOk(worker, progress)'
         /\ UNCHANGED <<inbox, indexed, canonical, calls>> /\ dispositions' \in [Ids -> Disposition]
              => StoresInv'
<1>1. UNCHANGED <<log, progress>> => RowsInv'
  BY DEF TypesInv, RowsInv, RowsTyped, Numbered, Used
<1>2. UNCHANGED <<worker, progress, published>> => WorkerOk(worker, progress)'
  BY DEF TypesInv, WorkerOk, Fits, Used
<1>3. UNCHANGED <<inbox, indexed, canonical, calls>> /\ dispositions' \in [Ids -> Disposition] => StoresInv'
  BY DEF TypesInv, StoresInv, ActiveOk, canonical
<1> QED
  BY <1>1, <1>2, <1>3

\* The worker that a turn, a poll, a timer or a save kicks.
LEMMA AskedIs ==
  ASSUME NEW w, NEW rows, WorkerOk(w, rows)
  PROVE  WorkerOk([w EXCEPT !.retrieval = TRUE], rows) /\ WorkerOk([w EXCEPT !.timer = FALSE], rows)
BY DEF WorkerOk, Workers

\* A turn ends: its Session has a row, numbered after those there are, and a new request.
LEMMA TurnRows ==
  ASSUME RowsInv, WorkerOk(worker, progress), NEW s \in Sessions, TurnEnds(s)
  PROVE  RowsInv' /\ WorkerOk(worker, progress')
<1> DEFINE old == progress[s]
           n == log[s] + 1
           new == Requested(progress[s], log[s] + 1)
<1>1. /\ log[s] \in Nat /\ MaxTurns[s] \in Nat /\ log[s] < MaxTurns[s]
      /\ log' = [log EXCEPT ![s] = n] /\ progress' = [progress EXCEPT ![s] = new]
      /\ old \in Row /\ progress \in [Sessions -> Row]
  BY ConstantsAssumption DEF RowsInv, RowsTyped, TurnEnds
<1>2. /\ old.row \in Nat /\ old.seq \in Nat /\ old.version \in Nat /\ old.ends \subseteq 1..log[s]
      /\ old.turns \subseteq 1..log[s]
      /\ \A k \in old.ends : k <= old.seq
  BY <1>1 DEF RowsInv, Row
<1>3. IsFiniteSet(Used(progress)) /\ Cardinality(Used(progress)) \in Nat
  BY FS_CardinalityType DEF RowsInv, Numbered
<1> DEFINE number == IF old.row = 0 THEN 1 + Cardinality(Used(progress)) ELSE old.row
           seq == IF n > old.seq THEN n ELSE old.seq
<1>4. number \in Nat \ {0} /\ seq \in Nat /\ n \in Nat
  BY <1>1, <1>2, <1>3
<1>5. new = [old EXCEPT !.row = number, !.pending = TRUE, !.retry = "none", !.ends = old.ends \cup {n},
                        !.seq = seq, !.version = old.version + 1]
  BY <1>1 DEF Requested, Used, Row
<1> HIDE DEF new, number, seq
<1>6. /\ new \in Row /\ new.row = number /\ new.turns = old.turns /\ new.ends = old.ends \cup {n} /\ new.seq = seq
      /\ new.version = old.version + 1
  <2> DEFINE ends == old.ends \cup {n}
             version == old.version + 1
  <2>1. ends \in SUBSET Nat /\ version \in Nat
    BY <1>1, <1>2, <1>4
  <2>2. new = [old EXCEPT !.row = number, !.pending = TRUE, !.retry = "none", !.ends = ends,
                          !.seq = seq, !.version = version]
    BY <1>5
  <2> HIDE DEF ends, version
  <2>3. /\ new \in Row /\ new.row = number /\ new.turns = old.turns /\ new.ends = ends /\ new.seq = seq
        /\ new.version = version
    BY <1>1, <1>4, <2>1, <2>2 DEF Row
  <2> QED
    BY <2>3 DEF ends, version
<1>7. progress'[s] = new /\ \A t \in Sessions \ {s} : progress'[t] = progress[t]
  BY <1>1
<1>8. progress' \in [Sessions -> Row]
  BY <1>1, <1>6
<1>9. log' \in [Sessions -> Nat] /\ log'[s] = n /\ \A t \in Sessions \ {s} : log'[t] = log[t]
  BY <1>1 DEF RowsInv
<1>10. new.turns \cup new.ends \subseteq 1..n
  BY <1>1, <1>2, <1>6
<1>11. \A k \in new.ends : k <= new.seq
  <2>1. n <= seq /\ old.seq <= seq
    BY <1>1, <1>2 DEF seq
  <2>2. \A k \in old.ends : k \in Nat
    BY <1>1, <1>2
  <2> QED
    BY <1>2, <1>4, <1>6, <2>1, <2>2
<1>12. 1..n \subseteq 1..MaxTurns[s] /\ n <= MaxTurns[s]
  BY <1>1
<1>13. RowsTyped(progress')
  <2>1. \A t \in Sessions : progress'[t].turns \cup progress'[t].ends \subseteq 1..MaxTurns[t]
    <3> TAKE t \in Sessions
    <3>1. CASE t = s
      BY <3>1, <1>7, <1>10, <1>12
    <3>2. CASE t # s
      BY <3>2, <1>7 DEF RowsInv, RowsTyped
    <3> QED
      BY <3>1, <3>2
  <2> QED
    BY <1>8, <2>1 DEF RowsTyped
<1>14. Numbered(progress')
  <2> DEFINE used == Used(progress)
  <2>1. Used(progress') = used \cup {s}
    BY <1>4, <1>6, <1>7 DEF Used
  <2>2. IsFiniteSet(Used(progress'))
        /\ Cardinality(Used(progress')) = IF old.row = 0 THEN Cardinality(used) + 1 ELSE Cardinality(used)
    <3>1. s \in used <=> old.row # 0
      BY DEF Used
    <3> QED
      BY <1>3, <2>1, <3>1, FS_AddElement
  <2>3. \A t \in Sessions : progress[t].row \in Nat /\ progress[t].row <= Cardinality(used)
    BY <1>1 DEF RowsInv, Numbered, Row
  <2>4. ASSUME NEW t \in Sessions
        PROVE  (progress'[t].pending => progress'[t].row # 0) /\ progress'[t].row <= Cardinality(Used(progress'))
    <3>1. CASE t = s
      BY <3>1, <1>2, <1>3, <1>4, <1>6, <1>7, <2>2, <2>3 DEF number
    <3>2. CASE t # s
      BY <3>2, <1>3, <1>7, <2>2, <2>3 DEF RowsInv, Numbered
    <3> QED
      BY <3>1, <3>2
  <2>5. ASSUME NEW t \in used, t # s PROVE progress[t].row # number
    <3>1. CASE old.row = 0
      BY <3>1, <1>3, <2>3, <2>5 DEF number, Used
    <3>2. CASE old.row # 0
      BY <3>2, <2>5 DEF number, Used, RowsInv, Numbered
    <3> QED
      BY <3>1, <3>2
  <2>6. ASSUME NEW t \in Used(progress'), NEW u \in Used(progress'), progress'[t].row = progress'[u].row PROVE t = u
    <3>1. (t = s \/ t \in used) /\ (u = s \/ u \in used) /\ t \in Sessions /\ u \in Sessions
      BY <2>1, <2>6 DEF Used
    <3>2. t # s /\ u # s => t = u
      BY <3>1, <1>7, <2>6 DEF RowsInv, Numbered
    <3> HIDE DEF used
    <3> QED
      BY <3>1, <3>2, <1>6, <1>7, <2>5, <2>6
  <2> QED
    BY <2>2, <2>4, <2>6 DEF Numbered
<1>15. RowsInv'
  <2>1. ASSUME NEW t \in Sessions
        PROVE  /\ log'[t] <= MaxTurns[t] /\ progress'[t].turns \cup progress'[t].ends \subseteq 1..log'[t]
               /\ \A k \in progress'[t].ends : k <= progress'[t].seq
    <3>1. CASE t = s
      BY <3>1, <1>7, <1>9, <1>10, <1>11, <1>12
    <3>2. CASE t # s
      BY <3>2, <1>7, <1>9 DEF RowsInv
    <3> QED
      BY <3>1, <3>2
  <2> QED
    BY <1>9, <1>13, <1>14, <2>1 DEF RowsInv, RowsTyped, Numbered, Used
<1>16. WorkerOk(worker, progress')
  <2>1. Later(old, new)
    BY <1>2, <1>4, <1>6 DEF Later
  <2>2. \A t \in Sessions : progress[t].version \in Nat
    BY <1>1 DEF Row
  <2>3. \A t \in Sessions : Later(progress[t], progress'[t])
    BY <1>7, <2>1, <2>2 DEF Later
  <2> QED
    BY <1>1, <1>8, <2>3, WorkerStill
<1> QED
  BY <1>15, <1>16

\* A retry that is due, or another wait, changes nothing else of a row.
LEMMA RetryRows ==
  ASSUME RowsInv, WorkerOk(worker, progress), NEW s \in Sessions, NEW retry \in {"none", "waiting", "due"},
         progress' = [progress EXCEPT ![s].retry = retry], UNCHANGED log
  PROVE  RowsInv' /\ WorkerOk(worker, progress')
<1>1. progress \in [Sessions -> Row]
  BY DEF RowsInv, RowsTyped
<1>2. progress' \in [Sessions -> Row]
  BY <1>1 DEF Row
<1>3. \A t \in Sessions :
        /\ progress'[t].row = progress[t].row /\ progress'[t].pending = progress[t].pending
        /\ progress'[t].turns = progress[t].turns /\ progress'[t].ends = progress[t].ends
        /\ progress'[t].seq = progress[t].seq /\ progress'[t].version = progress[t].version
  BY <1>1 DEF Row
<1>4. RowsTyped(progress')
  BY <1>2, <1>3 DEF RowsInv, RowsTyped
<1>5. Numbered(progress')
  <2>1. Numbered(progress) /\ \A t \in Sessions : progress[t].pending => progress[t].row # 0
    BY DEF RowsInv, Numbered
  <2>2. \A t \in Sessions : progress'[t].row = progress[t].row /\ (progress'[t].pending => progress[t].row # 0)
    BY <1>3, <2>1
  <2> QED
    BY <1>2, <2>1, <2>2, NumberedStill
<1>6. RowsInv'
  BY <1>3, <1>4, <1>5 DEF RowsInv, RowsTyped, Numbered, Used
<1>7. WorkerOk(worker, progress')
  <2>1. \A t \in Sessions : progress[t].version \in Nat
    BY <1>1 DEF Row
  <2>2. \A t \in Sessions : Later(progress[t], progress'[t])
    BY <1>3, <2>1 DEF Later
  <2> QED
    BY <1>1, <1>2, <2>2, WorkerStill
<1> QED
  BY <1>6, <1>7

\* What a commit makes of the row that was read: nothing analysed is lost, and the request
\* is cleared only when everything it asked for was captured.
Caught(now, new) ==
  /\ new \in Row /\ new.row = now.row /\ new.seq = now.seq
  /\ new.turns \subseteq now.turns \cup now.ends /\ now.turns \subseteq new.turns
  /\ \/ new.pending = TRUE /\ new.ends = now.ends
     \/ new.ends = {} /\ now.ends \subseteq new.turns

LEMMA CommittedIs ==
  ASSUME RowsInv, NEW job \in Jobs, Fits(job, progress), NEW captured \in Int
  PROVE  Caught(progress[job.session], Committed(progress[job.session], job, captured))
<1> PICK now : now = progress[job.session]
  OBVIOUS
<1> PICK new : new = Committed(now, job, captured)
  OBVIOUS
<1>1. job # NoJob /\ job.session \in Sessions /\ job.row \in Row
  BY JobIs
<1>2. now \in Row /\ \A n \in now.ends : n <= now.seq
  BY <1>1 DEF RowsInv, RowsTyped
<1>3. /\ job.row.turns = now.turns /\ job.row.ends \subseteq now.ends
      /\ job.row.version = now.version => job.row.ends = now.ends /\ job.row.seq = now.seq
  BY <1>1 DEF Fits
<1> DEFINE turns == Analysed(job, captured)
<1>4. turns = now.turns \cup {n \in job.row.ends : n <= captured}
  BY <1>3 DEF Analysed
<1>5. turns \in SUBSET Nat
  BY <1>2, <1>3, <1>4 DEF Row
<1>6. CASE now.version = job.row.version /\ captured >= job.row.seq
  <2>1. new = [now EXCEPT !.turns = turns, !.pending = FALSE, !.retry = "none", !.ends = {}]
    BY <1>6 DEF Committed, CurrentRequest
  <2>2. \A n \in now.ends : n \in Nat /\ n <= captured
    BY <1>2, <1>3, <1>6 DEF Row
  <2>3. now.ends \subseteq turns
    BY <1>3, <1>4, <1>6, <2>2
  <2> HIDE DEF turns
  <2>4. new \in Row /\ new.row = now.row /\ new.seq = now.seq /\ new.turns = turns /\ new.ends = {}
    BY <1>2, <1>5, <2>1 DEF Row
  <2> QED
    BY <1>3, <1>4, <2>3, <2>4 DEF Caught
<1>7. CASE ~(now.version = job.row.version /\ captured >= job.row.seq)
  <2>1. PICK retry \in {"none", "waiting"} :
          new = [now EXCEPT !.turns = turns, !.pending = TRUE, !.retry = retry]
    <3>1. new = [now EXCEPT !.turns = turns, !.pending = TRUE,
                            !.retry = IF now.version = job.row.version THEN "waiting" ELSE "none"]
      BY <1>7 DEF Committed, CurrentRequest
    <3> QED
      BY <3>1
  <2> HIDE DEF turns
  <2>2. /\ new \in Row /\ new.row = now.row /\ new.seq = now.seq /\ new.turns = turns
        /\ new.ends = now.ends /\ new.pending = TRUE
    BY <1>2, <1>5, <2>1 DEF Row
  <2> QED
    BY <1>3, <1>4, <2>2 DEF Caught
<1>8. Caught(now, new)
  BY <1>6, <1>7
<1> QED
  BY <1>8

LEMMA CommitRows ==
  ASSUME RowsInv, NEW job \in Jobs, Fits(job, progress), NEW captured \in Int, UNCHANGED log,
         progress' = [progress EXCEPT ![job.session] = Committed(@, job, captured)]
  PROVE  RowsInv'
<1> DEFINE s == job.session
<1> PICK now : now = progress[job.session]
  OBVIOUS
<1> PICK new : new = Committed(now, job, captured)
  OBVIOUS
<1>1. job # NoJob /\ s \in Sessions /\ job.row \in Row
  BY JobIs
<1>2. s \in Used(progress)
  BY <1>1 DEF Fits
<1>3. /\ new \in Row /\ new.row = now.row /\ new.seq = now.seq
      /\ new.turns \subseteq now.turns \cup now.ends /\ now.turns \subseteq new.turns
      /\ \/ new.pending = TRUE /\ new.ends = now.ends
         \/ new.ends = {} /\ now.ends \subseteq new.turns
  <2>1. Caught(now, new)
    BY CommittedIs
  <2> QED
    BY <2>1 DEF Caught
<1>4. progress' = [progress EXCEPT ![s] = new] /\ progress \in [Sessions -> Row]
  BY DEF RowsInv, RowsTyped
<1>5. progress'[s] = new /\ \A t \in Sessions \ {s} : progress'[t] = progress[t]
  BY <1>1, <1>4
<1>6. \A t \in Sessions : /\ progress'[t].turns \subseteq progress[t].turns \cup progress[t].ends
                          /\ progress'[t].ends \subseteq progress[t].ends
                          /\ progress'[t].seq = progress[t].seq /\ progress'[t].row = progress[t].row
  BY <1>3, <1>5
<1>7. RowsTyped(progress')
  BY <1>3, <1>4, <1>6 DEF RowsInv, RowsTyped
<1>8. Numbered(progress')
  <2>1. Numbered(progress)
    BY DEF RowsInv
  <2>2. \A t \in Sessions : progress'[t].row = progress[t].row /\ (progress'[t].pending => progress[t].row # 0)
    BY <1>2, <1>5, <1>6, <2>1 DEF Numbered, Used
  <2> QED
    BY <1>7, <2>1, <2>2, NumberedStill DEF RowsTyped
<1> QED
  BY <1>6, <1>7, <1>8 DEF RowsInv, RowsTyped, Numbered, Used

\* The leader of a group is one of its kernels.
LEMMA LeaderIs ==
  ASSUME NEW sources \in Ids
  PROVE  Leader(sources) \in Groups
<1>1. sources \in SUBSET Nat /\ sources # {} /\ sources \subseteq Groups
  BY ConstantsAssumption DEF Ids
<1>2. PICK g \in sources : \A h \in sources : g <= h
  BY <1>1, Least
<1> QED
  BY <1>1, <1>2 DEF Leader

\* A call that goes on is on a view of the inbox.
LEMMA CallIs ==
  ASSUME calls \in [Commands -> Calls], NEW c \in Commands, calls[c].phase \notin {"none", "dismissed"}
  PROVE  calls[c] \in Calling
BY DEF Calls, NoCall

-----------------------------------------------------------------------------
\* What the worker does when it is kicked.
LEMMA KickTypes ==
  ASSUME StoresInv, RowsInv', NEW w, WorkerOk(w, progress'), NEW ds \in [Ids -> Disposition],
         Kicked(w, progress', ds), UNCHANGED published
  PROVE  /\ WorkerOk(worker, progress)' /\ dispositions' \in [Ids -> Disposition]
         /\ Repaired(ds, dispositions')
<1> PICK rows : rows = progress'
  OBVIOUS
<1>1. RowsTyped(rows) /\ Numbered(rows)
  BY DEF RowsInv, RowsTyped, Numbered, Used
<1>2. ActiveOk /\ receipts \in Seq(Receipt)
  BY DEF StoresInv
<1> QED
  BY <1>1, <1>2, KickedIs

LEMMA TurnTypes ==
  ASSUME TypesInv, NEW s \in Sessions, TurnEnds(s)
  PROVE  TypesInv' /\ Repaired(dispositions, dispositions')
<1>1. RowsInv' /\ WorkerOk(worker, progress')
  BY TurnRows DEF TypesInv
<1> PICK w : w = [worker EXCEPT !.retrieval = TRUE]
  OBVIOUS
<1>2. WorkerOk(w, progress')
  BY <1>1, AskedIs
<1>3. StoresInv /\ dispositions \in [Ids -> Disposition] /\ Kicked(w, progress', dispositions)
      /\ UNCHANGED <<inbox, indexed, canonical, calls>> /\ UNCHANGED published
  BY DEF TypesInv, StoresInv, TurnEnds, canonical
<1>4. WorkerOk(worker, progress)' /\ dispositions' \in [Ids -> Disposition] /\ Repaired(dispositions, dispositions')
  BY <1>1, <1>2, <1>3, KickTypes
<1>5. StoresInv'
  BY <1>3, <1>4, TypesSame
<1> QED
  BY <1>1, <1>4, <1>5 DEF TypesInv

LEMMA PollTypes ==
  ASSUME TypesInv, Poll \/ BackgroundTimer
  PROVE  TypesInv' /\ Repaired(dispositions, dispositions')
<1>1. UNCHANGED <<log, progress>> /\ UNCHANGED <<inbox, indexed, canonical, calls>> /\ UNCHANGED published
  BY DEF Poll, BackgroundTimer, canonical
<1>2. RowsInv' /\ StoresInv /\ dispositions \in [Ids -> Disposition] /\ WorkerOk(worker, progress')
  BY <1>1, TypesSame DEF TypesInv, StoresInv
<1>3. WorkerOk(worker, progress)' /\ dispositions' \in [Ids -> Disposition] /\ Repaired(dispositions, dispositions')
  <2>1. CASE \E w : WorkerOk(w, progress') /\ Kicked(w, progress', dispositions)
    <3>1. PICK w : WorkerOk(w, progress') /\ Kicked(w, progress', dispositions)
      BY <2>1
    <3> QED
      BY <1>1, <1>2, <3>1, KickTypes
  <2>2. CASE BackgroundTimer
    <3> PICK w : w = [worker EXCEPT !.timer = FALSE]
      OBVIOUS
    <3>1. WorkerOk(w, progress') /\ Kicked(w, progress', dispositions)
      BY <1>1, <1>2, <2>2, AskedIs DEF BackgroundTimer
    <3> QED
      BY <2>1, <3>1
  <2>3. CASE Poll
    <3> PICK w : w = [worker EXCEPT !.retrieval = TRUE]
      OBVIOUS
    <3>1. WorkerOk(w, progress')
      BY <1>2, AskedIs
    <3>2. CASE Kicked(w, progress', dispositions)
      BY <2>1, <3>1, <3>2
    <3>3. CASE worker' = w /\ UNCHANGED dispositions
      <4>1. WorkerOk(worker, progress)'
        BY <1>1, <3>1, <3>3 DEF WorkerOk
      <4> QED
        BY <1>2, <3>3, <4>1 DEF Repaired
    <3> QED
      BY <1>1, <2>3, <3>2, <3>3 DEF Poll
  <2> QED
    BY <2>2, <2>3
<1>4. StoresInv'
  BY <1>1, <1>3, TypesSame
<1> QED
  BY <1>2, <1>3, <1>4 DEF TypesInv

\* The waits of a round, but the last.
LEMMA WaitTypes ==
  ASSUME TypesInv, RetrievalBuilt \/ RetrievalFails \/ Read \/ ReadLags \/ ReadFails
  PROVE  TypesInv' /\ UNCHANGED <<dispositions, receipts, calls>>
<1>1. /\ UNCHANGED <<log, inbox, canonical, calls, dispositions>> /\ UNCHANGED published
  BY DEF RetrievalBuilt, RetrievalFails, Read, ReadLags, ReadFails, Captures, canonical, sidecar
<1>2. /\ worker \in Workers /\ WorkerOk(worker, progress) /\ RowsTyped(progress) /\ Numbered(progress)
      /\ ActiveOk /\ published \in Nat /\ RowsInv /\ StoresInv
  BY DEF TypesInv, WorkerOk, RowsInv, StoresInv, ActiveOk
<1>3. CASE RetrievalBuilt
  <2>1. UNCHANGED <<log, progress>> /\ indexed' = worker.versions
        /\ worker' = Pick(worker, progress, dispositions, worker.versions)
    BY <1>3 DEF RetrievalBuilt
  <2>2. WorkerOk(worker', progress)
    BY <1>2, <2>1, PickIs
  <2>3. WorkerOk(worker, progress)'
    BY <1>1, <2>1, <2>2 DEF WorkerOk
  <2>4. StoresInv'
    BY <1>1, <1>2, <2>1 DEF StoresInv, ActiveOk, WorkerOk, canonical
  <2> QED
    BY <1>1, <2>1, <2>3, <2>4, TypesSame DEF TypesInv, canonical
<1>4. CASE RetrievalFails
  <2>1. UNCHANGED <<log, progress>> /\ indexed' = indexed /\ worker' = Finished(worker, progress)
    BY <1>4 DEF RetrievalFails, sidecar
  <2>2. WorkerOk(worker', progress)
    BY <1>2, <2>1, FinishedIs
  <2>3. WorkerOk(worker, progress)'
    BY <1>1, <2>1, <2>2 DEF WorkerOk
  <2>4. StoresInv'
    BY <1>1, <1>2, <2>1 DEF StoresInv, ActiveOk, canonical
  <2> QED
    BY <1>1, <2>1, <2>3, <2>4, TypesSame DEF TypesInv, canonical
<1>5. CASE Read \/ ReadLags
  <2>1. worker.phase = "reading" /\ UNCHANGED <<log, progress>> /\ indexed' = indexed
    BY <1>5 DEF Read, ReadLags, Captures, sidecar
  <2>2. PICK n : n \in {log[worker.job.session], log[worker.job.session] - 1} /\ Captures(n)
    BY <1>5 DEF Read, ReadLags
  <2>3. worker.job \in Jobs \cup {NoJob} /\ Fits(worker.job, progress)
    BY <1>2 DEF WorkerOk, Workers
  <2>4. n \in Int
    BY <1>2, <2>1, <2>2, <2>3, JobIs DEF WorkerOk, RowsInv
  <2>5. WorkerOk(worker', progress)
    <3>1. CASE Unanalysable(worker.job, n)
      BY <1>2, <2>2, <3>1, FinishedIs DEF Captures
    <3>2. CASE ~Unanalysable(worker.job, n)
      BY <1>2, <2>2, <2>3, <2>4, <3>2, CompareIs DEF Captures
    <3> QED BY <3>1, <3>2
  <2>6. WorkerOk(worker, progress)'
    BY <1>1, <2>1, <2>5 DEF WorkerOk
  <2>7. StoresInv'
    BY <1>1, <1>2, <2>1 DEF StoresInv, ActiveOk, canonical
  <2> QED
    BY <1>1, <2>1, <2>6, <2>7, TypesSame DEF TypesInv, canonical
<1>6. CASE ReadFails
  <2>1. worker.phase = "reading" /\ indexed' = indexed
        /\ worker' = Compare(worker, progress', dispositions, indexed, NoJob, 0)
    BY <1>6 DEF ReadFails
  <2>2. worker.job.session \in Sessions
    BY <1>2, <2>1, JobIs DEF WorkerOk, Workers
  <2>3. RowsInv' /\ RowsTyped(progress')
    <3>1. CASE UNCHANGED progress
      BY <1>1, <1>2, <3>1, TypesSame
    <3>2. CASE progress' = [progress EXCEPT ![worker.job.session].retry = "waiting"]
      <4>1. RowsInv'
        BY <1>1, <1>2, <2>2, <3>2, RetryRows
      <4> QED
        BY <4>1 DEF RowsInv, RowsTyped
    <3> QED
      BY <1>6, <3>1, <3>2 DEF ReadFails
  <2> PICK rows : rows = progress'
    OBVIOUS
  <2>4. WorkerOk(worker', rows)
    <3>1. Fits(NoJob, rows) /\ worker' = Compare(worker, rows, dispositions, indexed, NoJob, 0)
      BY <2>1 DEF Fits
    <3> QED
      BY <1>2, <2>3, <3>1, CompareIs
  <2>5. WorkerOk(worker, progress)'
    BY <1>1, <2>4 DEF WorkerOk
  <2>6. StoresInv'
    BY <1>1, <1>2, <2>1 DEF StoresInv, ActiveOk, canonical
  <2> QED
    BY <1>1, <2>3, <2>5, <2>6 DEF TypesInv, canonical
<1> QED
  BY <1>3, <1>4, <1>5, <1>6

LEMMA RebuildTypes ==
  ASSUME TypesInv, Rebuild
  PROVE  TypesInv' /\ Repaired(dispositions, dispositions')
<1>1. UNCHANGED <<log, indexed, canonical, calls>> /\ UNCHANGED published
  BY DEF Rebuild, canonical
<1>2. /\ worker \in Workers /\ Fits(worker.job, progress) /\ worker.from \in Froms /\ worker.captured \in Int
      /\ worker.job \in Jobs \cup {NoJob}
  BY DEF TypesInv, WorkerOk, Workers
<1>3. inbox' \subseteq Views
  <2>1. PICK groups \in Comparisons(worker.from) : inbox' = groups
    BY DEF Rebuild
  <2> QED
    BY <1>2, <2>1, ComparisonsAre
<1>4. RowsInv'
  <2>1. CASE worker.job = NoJob
    BY <1>1, <2>1, TypesSame DEF Rebuild
  <2>2. CASE worker.job # NoJob
    <3>1. progress' = [progress EXCEPT ![worker.job.session] = Committed(@, worker.job, worker.captured)]
      BY <2>2 DEF Rebuild
    <3> QED
      BY <1>1, <1>2, <2>2, <3>1, CommitRows DEF TypesInv
  <2> QED
    BY <2>1, <2>2
<1> PICK rows : rows = progress'
  OBVIOUS
<1>5. RowsTyped(rows) /\ Numbered(rows)
  BY <1>4 DEF RowsInv, RowsTyped, Numbered, Used
<1>6. PICK w \in Workers : worker' = Round(w, rows, dispositions).worker /\ dispositions' = Round(w, rows, dispositions).ds
  <2> DEFINE wanted == worker.requested \/ \E s \in Sessions : progress'[s].pending /\ progress'[s].retry = "none"
             x == [worker EXCEPT !.requested = wanted]
  <2>1. wanted \in BOOLEAN
    OBVIOUS
  <2>2. worker' = Round(x, rows, dispositions).worker /\ dispositions' = Round(x, rows, dispositions).ds
    BY <1>2 DEF Rebuild, Workers
  <2> HIDE DEF wanted
  <2>3. x \in Workers
    BY <1>2, <2>1 DEF Workers
  <2> QED
    BY <2>2, <2>3
<1>7. WorkerOk(worker', rows) /\ dispositions' \in [Ids -> Disposition] /\ Repaired(dispositions, dispositions')
  BY <1>5, <1>6, RoundIs DEF TypesInv, StoresInv
<1>8. WorkerOk(worker, progress)'
  BY <1>1, <1>7 DEF WorkerOk
<1>9. StoresInv'
  BY <1>1, <1>3, <1>7 DEF TypesInv, StoresInv, ActiveOk, canonical
<1> QED
  BY <1>4, <1>7, <1>8, <1>9 DEF TypesInv

LEMMA DismissTypes ==
  ASSUME TypesInv, NEW c \in Commands, NEW v \in inbox, Dismiss(c, v)
  PROVE  TypesInv'
<1>1. UNCHANGED <<log, progress, inbox, indexed, canonical, worker>> /\ UNCHANGED published
  BY DEF Dismiss, canonical
<1> DEFINE d == [decision |-> "dismissed", command |-> c, target |-> 0]
<1>2. d \in Disposition
  BY DEF Disposition
<1>3. dispositions' \in [Ids -> Disposition]
  <2>1. dispositions' = Decide(Bindings(v.sources), d)
    BY DEF Dismiss
  <2> HIDE DEF d
  <2> QED
    BY <1>2, <2>1 DEF Decide, TypesInv, StoresInv
<1>4. calls' \in [Commands -> Calls]
  <2>1. [phase |-> "dismissed"] \in Calls
    BY DEF Calls
  <2> QED
    BY <2>1 DEF Dismiss, TypesInv, StoresInv
<1>5. StoresInv'
  BY <1>1, <1>3, <1>4 DEF TypesInv, StoresInv, ActiveOk, canonical
<1> QED
  BY <1>1, <1>5, TypesSame DEF TypesInv

LEMMA ResolveTypes ==
  ASSUME TypesInv, NEW c \in Commands, NEW v \in inbox, Resolve(c, v)
  PROVE  TypesInv'
<1>1. UNCHANGED <<log, progress, inbox, indexed, canonical, worker, dispositions>> /\ UNCHANGED published
  BY DEF Resolve, canonical, sidecar
<1>2. [phase |-> "resolved", view |-> v] \in Calls
  BY DEF TypesInv, StoresInv, Calls, Calling
<1>3. calls' \in [Commands -> Calls]
  BY <1>2 DEF Resolve, TypesInv, StoresInv
<1>4. StoresInv'
  BY <1>1, <1>3 DEF TypesInv, StoresInv, ActiveOk, canonical
<1> QED
  BY <1>1, <1>4, TypesSame DEF TypesInv

\* A call in progress goes to another phase.
LEMMA CallMoves ==
  ASSUME calls \in [Commands -> Calls], NEW c \in Commands, calls[c] \in Calling,
         NEW phase \in {"resolved", "saved", "failed", "done", "lost"}
  PROVE  [calls EXCEPT ![c].phase = phase] \in [Commands -> Calls]
<1>1. [calls[c] EXCEPT !.phase = phase] \in Calls
  BY DEF Calling, Calls
<1>2. [calls EXCEPT ![c].phase = phase] = [calls EXCEPT ![c] = [calls[c] EXCEPT !.phase = phase]]
  OBVIOUS
<1> QED
  BY <1>1, <1>2

\* A commit changes nothing, or appends the receipt of its command, which had none.
Receipted(c) ==
  \/ UNCHANGED receipts
  \/ /\ ~Recorded(c)
     /\ \E r \in Receipt : r.command = c /\ receipts' = Append(receipts, r)

LEMMA CommitTypes ==
  ASSUME TypesInv, NEW c \in Commands, Commit(c)
  PROVE  /\ TypesInv' /\ Receipted(c)
         /\ \/ calls' = [calls EXCEPT ![c].phase = "failed"]
            \/ /\ calls' = [calls EXCEPT ![c].phase = "saved"]
               /\ Recorded(c) \/ \E r \in Receipt : r.command = c /\ receipts' = Append(receipts, r)
<1> PICK v : v = calls[c].view
  OBVIOUS
<1>1. UNCHANGED <<log, progress, inbox, indexed, worker, dispositions>>
  BY DEF Commit, sidecar
<1>2. calls[c] \in Calling /\ v \in Views /\ v.sources \in Ids /\ v.match \in Nat
  <2>1. calls[c].phase \notin {"none", "dismissed"}
    BY DEF Commit
  <2>2. calls[c] \in Calling
    BY <2>1, CallIs DEF TypesInv, StoresInv
  <2> QED
    BY <2>2 DEF Calling, Views
<1>3. Leader(v.sources) \in Groups /\ active \in [Groups -> Nat] /\ published \in Nat
  BY <1>2, LeaderIs DEF TypesInv, StoresInv, ActiveOk
<1> DEFINE failed == [calls EXCEPT ![c].phase = "failed"]
           saved == [calls EXCEPT ![c].phase = "saved"]
           receipt(outcome, version) ==
             [command |-> c, sources |-> v.sources, outcome |-> outcome, target |-> version]
<1>4. failed \in [Commands -> Calls] /\ saved \in [Commands -> Calls]
  BY <1>2, CallMoves DEF TypesInv, StoresInv
<1>5. \/ calls' = failed /\ UNCHANGED canonical
      \/ calls' = saved /\ Recorded(c) /\ UNCHANGED canonical
      \/ /\ calls' = saved /\ ~Recorded(c) /\ UNCHANGED <<active, published>>
         /\ \E t \in Nat : receipts' = Append(receipts, receipt("attached_as_evidence", t))
      \/ /\ calls' = saved /\ ~Recorded(c) /\ published' = published + 1
         /\ active' = [active EXCEPT ![Leader(v.sources)] = published']
         /\ receipts' = Append(receipts, receipt("saved_new_experience", published'))
  <2>1. (IF v.how = "same" THEN v.match ELSE active[Leader(v.sources)]) \in Nat
    BY <1>2, <1>3
  <2> HIDE DEF receipt
  <2> QED
    BY <2>1 DEF Commit, Fails, receipt
<1>6. ASSUME NEW o \in Outcomes, NEW t \in Nat PROVE receipt(o, t) \in Receipt /\ receipt(o, t).command = c
  BY <1>2 DEF Receipt
<1> HIDE DEF failed, saved, receipt
<1>7. ASSUME NEW r \in Receipt PROVE Append(receipts, r) \in Seq(Receipt)
  BY AppendProperties DEF TypesInv, StoresInv
<1>8. CASE (calls' = failed \/ (calls' = saved /\ Recorded(c))) /\ UNCHANGED canonical
  <2>1. UNCHANGED <<receipts, active, published>>
    BY <1>8 DEF canonical
  <2>2. StoresInv'
    BY <1>1, <1>4, <1>8, <2>1 DEF TypesInv, StoresInv, ActiveOk
  <2>3. TypesInv'
    BY <1>1, <2>1, <2>2, TypesSame DEF TypesInv
  <2> QED
    BY <1>8, <2>1, <2>3 DEF Receipted, failed, saved
<1>9. ASSUME NEW r \in Receipt, calls' = saved, ~Recorded(c), r.command = c, receipts' = Append(receipts, r),
             ActiveOk', published <= published', published' \in Nat
      PROVE  /\ TypesInv' /\ Receipted(c)
             /\ calls' = saved /\ \E x \in Receipt : x.command = c /\ receipts' = Append(receipts, x)
  <2>1. indexed' \subseteq 1..published' /\ 1..published \subseteq 1..published'
    BY <1>1, <1>3, <1>9 DEF TypesInv, StoresInv
  <2>2. StoresInv'
    BY <1>1, <1>4, <1>7, <1>9, <2>1 DEF TypesInv, StoresInv
  <2>3. WorkerOk(worker, progress)'
    BY <1>1, <2>1 DEF TypesInv, WorkerOk, Fits, Used
  <2>4. RowsInv'
    BY <1>1, TypesSame
  <2> QED
    BY <1>9, <2>2, <2>3, <2>4 DEF TypesInv, Receipted
<1>10. CASE /\ calls' = saved /\ ~Recorded(c) /\ UNCHANGED <<active, published>>
            /\ \E t \in Nat : receipts' = Append(receipts, receipt("attached_as_evidence", t))
  <2>1. ActiveOk' /\ published <= published' /\ published' \in Nat
    BY <1>3, <1>10 DEF TypesInv, StoresInv, ActiveOk
  <2>2. PICK r \in Receipt : r.command = c /\ receipts' = Append(receipts, r)
    BY <1>6, <1>10 DEF Outcomes
  <2> QED
    BY <1>9, <1>10, <2>1, <2>2 DEF saved
<1>11. CASE /\ calls' = saved /\ ~Recorded(c) /\ published' = published + 1
            /\ active' = [active EXCEPT ![Leader(v.sources)] = published']
            /\ receipts' = Append(receipts, receipt("saved_new_experience", published'))
  <2>1. ActiveOk' /\ published <= published' /\ published' \in Nat
    BY <1>3, <1>11 DEF TypesInv, StoresInv, ActiveOk
  <2>2. PICK r \in Receipt : r.command = c /\ receipts' = Append(receipts, r)
    BY <1>6, <1>11, <2>1 DEF Outcomes
  <2> QED
    BY <1>9, <1>11, <2>1, <2>2 DEF saved
<1> QED
  BY <1>5, <1>8, <1>10, <1>11, Zenon DEF failed, saved

\* The decisions that markSaved writes, before the drain that follows repairs them.
Marked(c) ==
  IF \A id \in Bindings(calls[c].view.sources) : dispositions[id] = None \/ dispositions[id].command = c
  THEN Decide(Bindings(calls[c].view.sources), Saved(ReceiptOf(c))) ELSE dispositions

LEMMA MarkTypes ==
  ASSUME TypesInv, DecisionsInv, NEW c \in Commands, MarkSaved(c)
  PROVE  TypesInv' /\ Repaired(Marked(c), dispositions')
<1>1. UNCHANGED <<log, progress>> /\ UNCHANGED <<inbox, indexed, canonical>> /\ UNCHANGED published
  BY DEF MarkSaved, canonical
<1>2. RowsInv' /\ StoresInv /\ WorkerOk(worker, progress')
  BY <1>1, TypesSame DEF TypesInv
<1>3. Saved(ReceiptOf(c)) \in Disposition
  <2>1. PICK i \in DOMAIN receipts : ReceiptOf(c) = receipts[i]
    BY DEF MarkSaved, DecisionsInv, Recorded, ReceiptOf
  <2>2. ReceiptOf(c) \in Receipt
    BY <1>2, <2>1, LenProperties, ElementOfSeq DEF StoresInv
  <2> QED
    BY <2>2 DEF Saved, Receipt, Disposition
<1>4. Marked(c) \in [Ids -> Disposition]
  BY <1>2, <1>3 DEF Marked, Decide, StoresInv
<1> PICK w : w = [worker EXCEPT !.retrieval = TRUE]
  OBVIOUS
<1>5. WorkerOk(w, progress')
  BY <1>2, AskedIs
<1>6. Kicked(w, progress', Marked(c))
  BY <1>1 DEF MarkSaved, Marked
<1>7. /\ WorkerOk(worker, progress)' /\ dispositions' \in [Ids -> Disposition]
      /\ Repaired(Marked(c), dispositions')
  BY <1>1, <1>2, <1>4, <1>5, <1>6, KickTypes
<1>8. calls' \in [Commands -> Calls]
  <2>1. calls \in [Commands -> Calls] /\ calls[c] \in Calling
    BY <1>2, CallIs DEF StoresInv, MarkSaved
  <2> QED
    BY <2>1, CallMoves DEF MarkSaved
<1>9. StoresInv'
  BY <1>1, <1>2, <1>7, <1>8 DEF StoresInv, ActiveOk, canonical
<1> QED
  BY <1>2, <1>7, <1>9 DEF TypesInv

\* A decision is changed only as it may be: a new one is a receipt's, and a dismissal yields
\* to a receipt.
Outruled ==
  \A id \in Ids : dispositions[id] # None /\ dispositions'[id] # dispositions[id] =>
    /\ dispositions[id].decision = "dismissed"
    /\ \E i \in DOMAIN receipts : dispositions'[id] = Saved(receipts[i])

LEMMA DecisionsKept ==
  ASSUME TypesInv, DecisionsInv, UNCHANGED receipts, NEW ds, Repaired(ds, dispositions'),
         \A id \in Ids : \/ ds[id] = dispositions[id]
                         \/ dispositions[id] = None /\ \E i \in DOMAIN receipts : ds[id] = Saved(receipts[i]),
         \A c \in Commands : /\ calls[c].phase = "dismissed" => calls'[c].phase = "dismissed"
                             /\ calls'[c].phase = "saved" => calls[c].phase = "saved"
  PROVE  DecisionsInv' /\ Outruled
<1>1. ASSUME NEW id \in Ids PROVE Stands(dispositions[id])'
  <2>1. \/ dispositions'[id] = dispositions[id]
        \/ \E i \in DOMAIN receipts : dispositions'[id] = Saved(receipts[i])
    BY DEF Repaired
  <2>2. Stands(dispositions[id])
    BY DEF DecisionsInv
  <2>3. dispositions'[id] = None \/ (\E i \in DOMAIN receipts : dispositions'[id] = Saved(receipts[i]))
        \/ (/\ dispositions'[id].decision = "dismissed" /\ dispositions'[id].command \in Commands
            /\ calls[dispositions'[id].command].phase = "dismissed")
    BY <2>1, <2>2 DEF Stands
  <2> QED
    BY <2>3 DEF Stands
<1>2. DecisionsInv'
  BY <1>1 DEF DecisionsInv, Recorded
<1>3. Outruled
  <2> SUFFICES ASSUME NEW id \in Ids, dispositions[id] # None, dispositions'[id] # dispositions[id]
               PROVE  /\ dispositions[id].decision = "dismissed"
                      /\ \E i \in DOMAIN receipts : dispositions'[id] = Saved(receipts[i])
    BY DEF Outruled
  <2>1. ds[id] = dispositions[id]
    OBVIOUS
  <2>2. /\ dispositions[id].decision \in {"none", "dismissed"}
        /\ \E i \in DOMAIN receipts : dispositions'[id] = Saved(receipts[i])
    BY <2>1 DEF Repaired
  <2>3. \A i \in DOMAIN receipts : Saved(receipts[i]).decision \notin {"none", "dismissed"}
    <3>1. \A i \in DOMAIN receipts : receipts[i] \in Receipt
      BY LenProperties, ElementOfSeq DEF TypesInv, StoresInv
    <3> QED
      BY <3>1 DEF Saved, Receipt, Outcomes
  <2> QED
    BY <2>2, <2>3 DEF DecisionsInv, Stands
<1> QED
  BY <1>2, <1>3

\* The steps that touch neither decisions nor receipts.
LEMMA DecisionsSame ==
  ASSUME TypesInv, DecisionsInv, UNCHANGED <<receipts, dispositions>>,
         \A c \in Commands : /\ calls[c].phase = "dismissed" => calls'[c].phase = "dismissed"
                             /\ calls'[c].phase = "saved" => calls[c].phase = "saved"
  PROVE  DecisionsInv' /\ Outruled
<1>1. Repaired(dispositions, dispositions')
  BY DEF Repaired
<1> QED
  BY <1>1, DecisionsKept

LEMMA MarkDecisions ==
  ASSUME TypesInv, DecisionsInv, NEW c \in Commands, MarkSaved(c), Repaired(Marked(c), dispositions')
  PROVE  DecisionsInv' /\ Outruled
<1>1. UNCHANGED receipts
  BY DEF MarkSaved, canonical
<1>2. calls[c].phase = "saved" /\ calls' = [calls EXCEPT ![c].phase = "done"] /\ calls \in [Commands -> Calls]
  BY DEF MarkSaved, TypesInv, StoresInv
<1>3. \A d \in Commands : /\ calls[d].phase = "dismissed" => calls'[d].phase = "dismissed"
                          /\ calls'[d].phase = "saved" => calls[d].phase = "saved"
  <2>1. calls[c] \in Calling
    BY <1>2, CallIs
  <2>2. calls'[c].phase = "done"
    BY <1>2, <2>1 DEF Calling
  <2>3. \A d \in Commands \ {c} : calls'[d] = calls[d]
    BY <1>2
  <2> QED
    BY <1>2, <2>2, <2>3
<1>4. PICK k \in DOMAIN receipts : receipts[k].command = c /\ ReceiptOf(c) = receipts[k]
  BY <1>2 DEF DecisionsInv, Recorded, ReceiptOf
<1>5. ASSUME NEW id \in Ids
      PROVE  \/ Marked(c)[id] = dispositions[id]
             \/ dispositions[id] = None /\ \E i \in DOMAIN receipts : Marked(c)[id] = Saved(receipts[i])
  <2>1. CASE Marked(c) = dispositions
    BY <2>1
  <2>2. CASE /\ Marked(c) = Decide(Bindings(calls[c].view.sources), Saved(receipts[k]))
             /\ \A x \in Bindings(calls[c].view.sources) : dispositions[x] = None \/ dispositions[x].command = c
    <3>1. CASE id \notin Bindings(calls[c].view.sources)
      BY <2>2, <3>1 DEF Decide
    <3>2. CASE id \in Bindings(calls[c].view.sources)
      <4>1. Marked(c)[id] = Saved(receipts[k])
        BY <2>2, <3>2 DEF Decide
      <4>2. ASSUME dispositions[id] # None PROVE dispositions[id] = Saved(receipts[k])
        <5>1. dispositions[id].command = c
          BY <2>2, <3>2, <4>2
        <5>2. PICK i \in DOMAIN receipts : dispositions[id] = Saved(receipts[i])
          BY <1>2, <4>2, <5>1 DEF DecisionsInv, Stands
        <5>3. receipts[i].command = c
          BY <5>1, <5>2 DEF Saved
        <5>4. i = k
          BY <1>4, <5>3 DEF DecisionsInv
        <5> QED
          BY <5>2, <5>4
      <4> QED
        BY <4>1, <4>2
    <3> QED
      BY <3>1, <3>2
  <2> QED
    BY <1>4, <2>1, <2>2 DEF Marked
<1> PICK ds : ds = Marked(c)
  OBVIOUS
<1> QED
  BY <1>1, <1>3, <1>5, DecisionsKept

LEMMA CommitDecisions ==
  ASSUME TypesInv, DecisionsInv, NEW c \in Commands, Commit(c)
  PROVE  DecisionsInv' /\ Outruled
<1>1. UNCHANGED dispositions /\ calls \in [Commands -> Calls] /\ calls[c].phase = "resolved"
  BY DEF Commit, sidecar, TypesInv, StoresInv
<1>2. /\ Receipted(c)
      /\ \/ calls' = [calls EXCEPT ![c].phase = "failed"]
         \/ /\ calls' = [calls EXCEPT ![c].phase = "saved"]
            /\ Recorded(c) \/ \E r \in Receipt : r.command = c /\ receipts' = Append(receipts, r)
  BY CommitTypes
<1>3. /\ \A i \in DOMAIN receipts : i \in DOMAIN receipts' /\ receipts'[i] = receipts[i]
      /\ \A i \in DOMAIN receipts' \ DOMAIN receipts : ~Recorded(c) /\ i = Len(receipts) + 1 /\ receipts'[i].command = c
      /\ (\E r \in Receipt : r.command = c /\ receipts' = Append(receipts, r))
            => \E i \in DOMAIN receipts' : receipts'[i].command = c
  <2>1. receipts \in Seq(Receipt)
    BY DEF TypesInv, StoresInv
  <2>2. CASE UNCHANGED receipts
    <3>1. \A r \in Receipt : receipts # Append(receipts, r)
      BY <2>1, LenProperties, AppendProperties
    <3> QED
      BY <2>2, <3>1
  <2>3. CASE ~Recorded(c) /\ \E r \in Receipt : r.command = c /\ receipts' = Append(receipts, r)
    <3>1. PICK r \in Receipt : r.command = c /\ receipts' = Append(receipts, r)
      BY <2>3
    <3>2. /\ Len(receipts) \in Nat /\ DOMAIN receipts = 1..Len(receipts) /\ DOMAIN receipts' = 1..(Len(receipts) + 1)
          /\ receipts'[Len(receipts) + 1] = r /\ \A i \in 1..Len(receipts) : receipts'[i] = receipts[i]
      BY <2>1, <3>1, LenProperties, AppendProperties
    <3> QED
      BY <2>3, <3>1, <3>2
  <2> QED
    BY <1>2, <2>2, <2>3 DEF Receipted
<1>4. calls[c] \in Calling
  BY <1>1, CallIs
<1>5. calls'[c].phase \in {"failed", "saved"} /\ \A d \in Commands \ {c} : calls'[d] = calls[d]
  BY <1>1, <1>2, <1>4 DEF Calling
<1>6. \A d \in Commands : Recorded(d) => Recorded(d)'
  BY <1>3 DEF Recorded
<1>7. calls'[c].phase = "saved" => Recorded(c)'
  <2>1. calls' = [calls EXCEPT ![c].phase = "failed"] => calls'[c].phase = "failed"
    BY <1>1, <1>4 DEF Calling
  <2>2. (\E i \in DOMAIN receipts' : receipts'[i].command = c) => Recorded(c)'
    BY DEF Recorded
  <2> QED
    BY <1>2, <1>3, <1>6, <2>1, <2>2
<1>8. \A i, j \in DOMAIN receipts' : receipts'[i].command = receipts'[j].command => i = j
  BY <1>3 DEF DecisionsInv, Recorded
<1>9. ASSUME NEW id \in Ids PROVE Stands(dispositions[id])'
  <2>1. Stands(dispositions[id])
    BY DEF DecisionsInv
  <2>2. CASE /\ dispositions[id].decision = "dismissed" /\ dispositions[id].command \in Commands
             /\ calls[dispositions[id].command].phase = "dismissed"
    BY <1>1, <1>5, <2>2 DEF Stands
  <2> QED
    BY <1>1, <1>3, <2>1, <2>2 DEF Stands
<1>10. DecisionsInv'
  BY <1>1, <1>5, <1>6, <1>7, <1>8, <1>9 DEF DecisionsInv
<1> QED
  BY <1>1, <1>10 DEF Outruled

-----------------------------------------------------------------------------
\* No turn is lost: the rows of a step that analyses nothing keep what they hold, and a
\* commit clears a request only with what it asked for.
LEMMA TurnsSame ==
  ASSUME TurnsKept, UNCHANGED log,
         \A s \in Sessions : /\ progress'[s].turns = progress[s].turns
                             /\ progress'[s].ends = progress[s].ends /\ progress'[s].pending = progress[s].pending
  PROVE  TurnsKept'
BY DEF TurnsKept

LEMMA TurnsStep ==
  ASSUME TypesInv, TurnsKept, Next
  PROVE  TurnsKept'
<1>1. progress \in [Sessions -> Row] /\ log \in [Sessions -> Nat]
  BY DEF TypesInv, RowsInv, RowsTyped
<1>2. UNCHANGED <<log, progress>> => TurnsKept'
  BY TurnsSame
<1>3. ASSUME NEW s \in Sessions, NEW retry, progress' = [progress EXCEPT ![s].retry = retry], UNCHANGED log
      PROVE  TurnsKept'
  <2>1. \A t \in Sessions : /\ progress'[t].turns = progress[t].turns
                            /\ progress'[t].ends = progress[t].ends /\ progress'[t].pending = progress[t].pending
    BY <1>1, <1>3 DEF Row
  <2> QED
    BY <1>3, <2>1, TurnsSame
<1>4. ASSUME NEW s \in Sessions, TurnEnds(s) PROVE TurnsKept'
  <2> PICK n : n = log[s] + 1
    OBVIOUS
  <2> PICK new : new = Requested(progress[s], n)
    OBVIOUS
  <2>1. log' = [log EXCEPT ![s] = n] /\ progress' = [progress EXCEPT ![s] = new]
    BY <1>4 DEF TurnEnds
  <2>2. new.pending = TRUE /\ new.ends = progress[s].ends \cup {n} /\ new.turns = progress[s].turns
    BY <1>1 DEF Requested, Row
  <2>3. 1..n = 1..log[s] \cup {n}
    BY <1>1
  <2> SUFFICES ASSUME NEW t \in Sessions, NEW k \in 1..log'[t]
               PROVE  k \in progress'[t].turns \/ (k \in progress'[t].ends /\ progress'[t].pending)
    BY DEF TurnsKept
  <2>4. CASE t = s
    BY <1>1, <2>1, <2>2, <2>3, <2>4 DEF TurnsKept
  <2>5. CASE t # s
    BY <1>1, <2>1, <2>5 DEF TurnsKept
  <2> QED
    BY <2>4, <2>5
<1>5. CASE ReadFails
  <2>1. worker.job.session \in Sessions
    BY <1>5, JobIs DEF ReadFails, TypesInv, WorkerOk, Workers
  <2>2. UNCHANGED log /\ (UNCHANGED progress \/ progress' = [progress EXCEPT ![worker.job.session].retry = "waiting"])
    BY <1>5 DEF ReadFails
  <2> QED
    BY <1>2, <1>3, <2>1, <2>2
<1>6. CASE Rebuild
  <2>1. CASE worker.job = NoJob
    BY <1>2, <1>6, <2>1 DEF Rebuild
  <2>2. CASE worker.job # NoJob
    <3> PICK job : job = worker.job
      OBVIOUS
    <3> PICK s : s = job.session
      OBVIOUS
    <3> PICK new : new = Committed(progress[s], job, worker.captured)
      OBVIOUS
    <3>1. job \in Jobs /\ Fits(job, progress) /\ worker.captured \in Int
      BY <2>2 DEF TypesInv, WorkerOk, Workers
    <3>2. s \in Sessions
      BY <3>1, JobIs
    <3>3. UNCHANGED log /\ progress' = [progress EXCEPT ![s] = new]
      BY <1>6, <2>2 DEF Rebuild
    <3>4. Caught(progress[s], new)
      BY <3>1, CommittedIs DEF TypesInv
    <3>5. \A n \in progress[s].turns \cup progress[s].ends :
            n \in new.turns \/ (n \in new.ends /\ new.pending)
      BY <3>4 DEF Caught
    <3> SUFFICES ASSUME NEW t \in Sessions, NEW k \in 1..log[t]
                 PROVE  k \in progress'[t].turns \/ (k \in progress'[t].ends /\ progress'[t].pending)
      BY <3>3 DEF TurnsKept
    <3>6. k \in progress[t].turns \/ (k \in progress[t].ends /\ progress[t].pending)
      BY DEF TurnsKept
    <3>7. CASE t = s
      BY <1>1, <3>2, <3>3, <3>5, <3>6, <3>7
    <3>8. CASE t # s
      BY <1>1, <3>3, <3>6, <3>8
    <3> QED
      BY <3>7, <3>8
  <2> QED
    BY <2>1, <2>2
<1>7. CASE \E s \in Sessions : RetryDue(s)
  BY <1>3, <1>7 DEF RetryDue
<1>8. CASE Poll \/ BackgroundTimer \/ RetrievalBuilt \/ RetrievalFails \/ Read \/ ReadLags \/ Restart
  <2>1. UNCHANGED <<log, progress>>
    BY <1>8 DEF Poll, BackgroundTimer, RetrievalBuilt, RetrievalFails, Read, ReadLags, Captures, Restart, sidecar
  <2> QED
    BY <1>2, <2>1
<1>9. CASE \/ \E c \in Commands : (\E v \in inbox : Dismiss(c, v) \/ Resolve(c, v)) \/ Commit(c) \/ MarkSaved(c)
           \/ \E g \in Groups : Publish(g) \/ Forget(g)
  <2>1. UNCHANGED <<log, progress>>
    BY <1>9 DEF Dismiss, Resolve, Commit, MarkSaved, Publish, Forget, sidecar
  <2> QED
    BY <1>2, <2>1
<1> QED
  BY <1>4, <1>5, <1>6, <1>7, <1>8, <1>9 DEF Next

-----------------------------------------------------------------------------
\* The remaining steps, for the types.
LEMMA RetryTypes ==
  ASSUME TypesInv, NEW s \in Sessions, RetryDue(s)
  PROVE  TypesInv'
<1>1. UNCHANGED <<log, inbox, indexed, canonical, calls>> /\ UNCHANGED <<worker, dispositions, published>>
      /\ progress' = [progress EXCEPT ![s].retry = "due"]
  BY DEF RetryDue, canonical
<1>2. RowsInv' /\ WorkerOk(worker, progress')
  BY <1>1, RetryRows DEF TypesInv
<1>3. WorkerOk(worker, progress)'
  BY <1>1, <1>2 DEF WorkerOk
<1>4. StoresInv'
  BY <1>1, TypesSame DEF TypesInv, StoresInv
<1> QED
  BY <1>2, <1>3, <1>4 DEF TypesInv

LEMMA LibraryTypes ==
  ASSUME TypesInv, NEW g \in Groups, Publish(g) \/ Forget(g)
  PROVE  TypesInv'
<1>1. UNCHANGED <<log, progress, inbox, dispositions, indexed, worker, receipts, calls>>
  BY DEF Publish, Forget, sidecar
<1>2. ActiveOk' /\ published \in Nat /\ published' \in Nat /\ published <= published'
  <2>1. ActiveOk
    BY DEF TypesInv, StoresInv
  <2>2. CASE Publish(g)
    BY <2>1, <2>2 DEF ActiveOk, Publish
  <2>3. CASE Forget(g)
    BY <2>1, <2>3 DEF ActiveOk, Forget
  <2> QED
    BY <2>2, <2>3
<1>3. 1..published \subseteq 1..published'
  BY <1>2
<1>4. StoresInv'
  BY <1>1, <1>2, <1>3 DEF TypesInv, StoresInv
<1>5. WorkerOk(worker, progress)'
  BY <1>1, <1>3 DEF TypesInv, WorkerOk, Fits, Used
<1> QED
  BY <1>1, <1>4, <1>5, TypesSame DEF TypesInv

LEMMA RestartTypes ==
  ASSUME TypesInv, Restart
  PROVE  TypesInv' /\ Repaired(dispositions, dispositions')
<1>1. UNCHANGED <<log, progress>> /\ UNCHANGED <<inbox, indexed, canonical>> /\ UNCHANGED published
  BY DEF Restart, canonical
<1>2. RowsInv' /\ StoresInv /\ dispositions \in [Ids -> Disposition]
  BY <1>1, TypesSame DEF TypesInv, StoresInv
<1> PICK w : w = [Idle EXCEPT !.retrieval = TRUE]
  OBVIOUS
<1>3. WorkerOk(w, progress')
  <2>1. Idle \in Workers /\ Idle.phase = "idle" /\ Idle.job = NoJob /\ Idle.versions = {} /\ Idle.from.versions = {}
    BY DEF Idle, Workers, Phases, Froms
  <2>2. w \in Workers /\ w.phase = "idle" /\ w.job = NoJob /\ w.versions = {} /\ w.from.versions = {}
    BY <2>1 DEF Workers
  <2> QED
    BY <2>2 DEF WorkerOk, Fits
<1>4. Kicked(w, progress', dispositions)
  BY <1>1 DEF Restart
<1>5. WorkerOk(worker, progress)' /\ dispositions' \in [Ids -> Disposition] /\ Repaired(dispositions, dispositions')
  BY <1>1, <1>2, <1>3, <1>4, KickTypes
<1>6. calls' \in [Commands -> Calls]
  <2>1. ASSUME NEW c \in Commands, calls[c].phase \in {"resolved", "saved"} PROVE [calls[c] EXCEPT !.phase = "lost"] \in Calls
    <3>1. calls[c] \in Calling
      BY <1>2, <2>1, CallIs DEF StoresInv
    <3> QED
      BY <3>1 DEF Calling, Calls
  <2> QED
    BY <1>2, <2>1 DEF Restart, StoresInv
<1>7. StoresInv'
  BY <1>1, <1>2, <1>5, <1>6 DEF StoresInv, ActiveOk, canonical
<1> QED
  BY <1>2, <1>5, <1>7 DEF TypesInv

-----------------------------------------------------------------------------
\* Every step keeps the types and the decisions, and changes decisions only as it may.
LEMMA Step ==
  ASSUME TypesInv, DecisionsInv, Next
  PROVE  TypesInv' /\ DecisionsInv' /\ Outruled
<1>1. ASSUME UNCHANGED receipts, Repaired(dispositions, dispositions'),
             \A c \in Commands : /\ calls[c].phase = "dismissed" => calls'[c].phase = "dismissed"
                                 /\ calls'[c].phase = "saved" => calls[c].phase = "saved"
      PROVE  DecisionsInv' /\ Outruled
  BY <1>1, DecisionsKept
<1>2. Repaired(dispositions, dispositions)
  BY DEF Repaired
<1>3. ASSUME NEW s \in Sessions, TurnEnds(s) PROVE TypesInv' /\ DecisionsInv' /\ Outruled
  BY <1>1, <1>3, TurnTypes DEF TurnEnds, canonical
<1>4. ASSUME NEW s \in Sessions, RetryDue(s) PROVE TypesInv' /\ DecisionsInv' /\ Outruled
  BY <1>1, <1>2, <1>4, RetryTypes DEF RetryDue, canonical
<1>5. CASE Poll \/ BackgroundTimer
  BY <1>1, <1>5, PollTypes DEF Poll, BackgroundTimer, canonical
<1>6. CASE RetrievalBuilt \/ RetrievalFails \/ Read \/ ReadLags \/ ReadFails
  BY <1>1, <1>2, <1>6, WaitTypes
<1>7. CASE Rebuild
  BY <1>1, <1>7, RebuildTypes DEF Rebuild, canonical
<1>8. ASSUME NEW c \in Commands, NEW v \in inbox, Dismiss(c, v) PROVE TypesInv' /\ DecisionsInv' /\ Outruled
  <2>1. UNCHANGED receipts /\ calls \in [Commands -> Calls] /\ dispositions \in [Ids -> Disposition]
    BY <1>8 DEF Dismiss, canonical, TypesInv, StoresInv
  <2> PICK d : d = [decision |-> "dismissed", command |-> c, target |-> 0]
    OBVIOUS
  <2>2. /\ \A id \in Bindings(v.sources) : dispositions[id] = None
        /\ dispositions' = Decide(Bindings(v.sources), d)
        /\ calls[c].phase = "none" /\ calls' = [calls EXCEPT ![c] = [phase |-> "dismissed"]]
    BY <1>8 DEF Dismiss, Undecided
  <2>3. \A id \in Ids : \/ dispositions'[id] = dispositions[id]
                        \/ dispositions[id] = None /\ dispositions'[id] = d
    BY <2>2 DEF Decide
  <2>4. calls'[c].phase = "dismissed" /\ \A k \in Commands \ {c} : calls'[k] = calls[k]
    BY <2>1, <2>2
  <2>5. Outruled
    BY <2>3 DEF Outruled
  <2>6. ASSUME NEW id \in Ids PROVE Stands(dispositions[id])'
    <3>1. Stands(dispositions[id])
      BY DEF DecisionsInv
    <3>2. CASE dispositions'[id] = d
      BY <2>4, <3>2 DEF Stands
    <3>3. CASE dispositions'[id] = dispositions[id]
      BY <2>1, <2>4, <3>1, <3>3 DEF Stands
    <3> QED
      BY <2>3, <3>2, <3>3
  <2>7. DecisionsInv'
    BY <2>1, <2>4, <2>6 DEF DecisionsInv, Recorded
  <2> QED
    BY <1>8, <2>5, <2>7, DismissTypes
<1>9. ASSUME NEW c \in Commands, NEW v \in inbox, Resolve(c, v) PROVE TypesInv' /\ DecisionsInv' /\ Outruled
  <2>1. UNCHANGED <<receipts, dispositions>> /\ calls \in [Commands -> Calls] /\ calls[c].phase # "dismissed"
        /\ calls' = [calls EXCEPT ![c] = [phase |-> "resolved", view |-> v]]
    BY <1>9 DEF Resolve, canonical, sidecar, TypesInv, StoresInv
  <2>2. calls'[c].phase = "resolved" /\ \A k \in Commands \ {c} : calls'[k] = calls[k]
    BY <2>1
  <2> QED
    BY <1>1, <1>2, <1>9, <2>1, <2>2, ResolveTypes
<1>10. ASSUME NEW c \in Commands, Commit(c) PROVE TypesInv' /\ DecisionsInv' /\ Outruled
  BY <1>10, CommitTypes, CommitDecisions
<1>11. ASSUME NEW c \in Commands, MarkSaved(c) PROVE TypesInv' /\ DecisionsInv' /\ Outruled
  BY <1>11, MarkTypes, MarkDecisions
<1>12. ASSUME NEW g \in Groups, Publish(g) \/ Forget(g) PROVE TypesInv' /\ DecisionsInv' /\ Outruled
  BY <1>1, <1>2, <1>12, LibraryTypes DEF Publish, Forget, sidecar
<1>13. CASE Restart
  <2>1. UNCHANGED receipts /\ calls \in [Commands -> Calls]
        /\ calls' = [c \in Commands |-> IF calls[c].phase \in {"resolved", "saved"}
                                        THEN [calls[c] EXCEPT !.phase = "lost"] ELSE calls[c]]
    BY <1>13 DEF Restart, canonical, TypesInv, StoresInv
  <2>2. ASSUME NEW c \in Commands
        PROVE  /\ calls[c].phase = "dismissed" => calls'[c].phase = "dismissed"
               /\ calls'[c].phase = "saved" => calls[c].phase = "saved"
    <3>1. CASE calls[c].phase \in {"resolved", "saved"}
      BY <2>1, <3>1, CallIs DEF Calling
    <3>2. CASE calls[c].phase \notin {"resolved", "saved"}
      BY <2>1, <3>2
    <3> QED
      BY <3>1, <3>2
  <2> QED
    BY <1>1, <1>13, <2>1, <2>2, RestartTypes
<1> QED
  BY <1>3, <1>4, <1>5, <1>6, <1>7, <1>8, <1>9, <1>10, <1>11, <1>12, <1>13 DEF Next

LEMMA Stutter ==
  ASSUME Inv, UNCHANGED vars
  PROVE  Inv' /\ Outruled
<1>1. /\ UNCHANGED <<log, progress>> /\ UNCHANGED <<worker, progress, published>>
      /\ UNCHANGED <<inbox, indexed, canonical, calls>> /\ UNCHANGED <<receipts, dispositions>>
  BY DEF vars, sidecar, canonical
<1>2. TypesInv'
  BY <1>1, TypesSame DEF Inv, TypesInv, StoresInv
<1>3. DecisionsInv' /\ Outruled
  BY <1>1, DecisionsSame DEF Inv
<1>4. TurnsKept'
  BY <1>1, TurnsSame DEF Inv
<1> QED
  BY <1>2, <1>3, <1>4 DEF Inv

LEMMA Always == Spec => []Inv
<1>1. Init => Inv
  BY InitOk
<1>2. Inv /\ [Next]_vars => Inv'
  <2> SUFFICES ASSUME Inv, [Next]_vars PROVE Inv'
    OBVIOUS
  <2>1. CASE Next
    BY <2>1, Step, TurnsStep DEF Inv
  <2>2. CASE UNCHANGED vars
    BY <2>2, Stutter
  <2> QED
    BY <2>1, <2>2
<1> QED
  BY <1>1, <1>2, PTL DEF Spec

-----------------------------------------------------------------------------
\* The rows of the inbox speak of turns that ended, its groups have kernels, and the
\* retrieval generation holds Versions that were published.
THEOREM TypeInvariant == Spec => []TypeOK
<1>1. Inv => TypeOK
  BY DEF Inv, TypesInv, RowsInv, StoresInv, WorkerOk, Workers, Phases, Views, TypeOK
<1> QED
  BY <1>1, Always, PTL

\* No turn that the worker was told of is lost, however many reads, failures, retries and
\* restarts come between its end and its analysis (suggestions.ts and projection-store.ts).
THEOREM NoTurnIsLost == Spec => []TurnsKept
<1>1. Inv => TurnsKept
  BY DEF Inv
<1> QED
  BY <1>1, Always, PTL

\* No step changes a decision that stands, but a committed save one that was dismissed: for
\* any receipts in any order, which reconcileSaved and markSaved may write again and again.
THEOREM DecisionsStand == Spec => SavedStays
<1>1. Inv /\ [Next]_vars => [Outruled]_vars
  <2> SUFFICES ASSUME Inv, Next PROVE Outruled
    OBVIOUS
  <2> QED
    BY Step DEF Inv
<1> QED
  BY <1>1, Always, PTL DEF Spec, SavedStays, Outruled

-----------------------------------------------------------------------------
(* The child that embeds.  Calls take turns because each waits for all     *)
(* that were made before (TurnsInOrder), whoever of them is aborted.  An   *)
(* answer on its way holds the vectors of the call it was computed for, so *)
(* the call it settles gets vectors of its own requestId (AnswersAreNamed).*)
(* And each call is sent once: from then on it is with one child, in one   *)
(* answer or in one result, or lost (SentOnce).                            *)

Vectors == [request : Requests \cup {Nobody}, model : Configurations \cup {Nobody}]
Children == [work : SUBSET Requests, state : {"up", "killed", "gone"}]

EmbeddingTypes ==
  /\ order \in Seq(Requests)
  /\ stage \in [Requests -> {"idle", "waiting", "verifying", "working", "settled"}]
  /\ asked \in [Requests -> Configurations]
  /\ result \in [Requests -> Vectors]
  /\ pending \in Requests \cup {Nobody}
  /\ children \in Seq(Children) /\ child \in 0..Len(children)
  /\ answers \subseteq [for : Requests, vectors : Vectors]
  /\ disposing \in [state : {"none", "waiting", "done"}, after : 0..Len(order)]

Active(r) == stage[r] \in {"verifying", "working"}

\* A call is queued once, and when it is at work every earlier one has ended.
TurnsInOrder ==
  /\ \A i, j \in DOMAIN order : order[i] = order[j] => i = j
  /\ \A r \in Requests : stage[r] # "idle" => \E i \in DOMAIN order : order[i] = r
  /\ \A i \in DOMAIN order : stage[order[i]] # "idle"
  /\ \A i, j \in DOMAIN order : Active(order[i]) /\ j < i => stage[order[j]] = "settled"

PendingWorks == pending # Nobody => stage[pending] = "working"

Own(r) == {Failed, [request |-> r, model |-> asked[r]]}
Named(r) == {Failed} \cup
  {[request |-> q, model |-> asked[q]] : q \in {x \in Requests : RequestId[x] = RequestId[r]}}
AnswersAreNamed ==
  /\ \A a \in answers : a.vectors \in Own(a.for)
  /\ \A r \in Requests : result[r] \in Named(r)

\* A call is with one child, in one answer or in one result.
Unsent(q) ==
  /\ \A k \in DOMAIN children : q \notin children[k].work
  /\ \A a \in answers : a.for # q
  /\ \A r \in Requests : result[r].request # q
Once(q) ==
  /\ \A k, l \in DOMAIN children : q \in children[k].work /\ q \in children[l].work => k = l
  /\ \A a, b \in answers : a.for = q /\ b.for = q => a = b
  /\ \A r, s \in Requests : result[r].request = q /\ result[s].request = q => r = s
  /\ \A k \in DOMAIN children : q \in children[k].work =>
       /\ \A a \in answers : a.for # q
       /\ \A r \in Requests : result[r].request # q
  /\ \A a \in answers, r \in Requests : ~(a.for = q /\ result[r].request = q)
Sent(q) == stage[q] \in {"working", "settled"}
SentOnce == \A q \in Requests : Once(q) /\ (~Sent(q) => Unsent(q))

EmbeddingInv == EmbeddingTypes /\ TurnsInOrder /\ PendingWorks /\ AnswersAreNamed /\ SentOnce

LEMMA NamedTyped ==
  ASSUME EmbeddingTypes, NEW r \in Requests
  PROVE  Own(r) \subseteq Named(r) /\ Named(r) \subseteq Vectors
BY DEF Own, Named, Vectors, Failed, EmbeddingTypes

\* What loses answers, work or results, and sends nothing.
LEMMA OnceStays ==
  ASSUME SentOnce,
         \A k \in DOMAIN children' : k \in DOMAIN children /\ children'[k].work \subseteq children[k].work,
         answers' \subseteq answers,
         \A r \in Requests : result'[r].request \in {result[r].request, Nobody},
         \A q \in Requests : Sent(q) => Sent(q)'
  PROVE  SentOnce'
<1> SUFFICES ASSUME NEW q \in Requests PROVE Once(q)' /\ (~Sent(q)' => Unsent(q)')
  BY DEF SentOnce
<1>1. Once(q) /\ (~Sent(q) => Unsent(q)) /\ q # Nobody
  BY EmbeddingAssumption DEF SentOnce, EmbeddingAssumption
<1>2. \A r \in Requests : result'[r].request = q => result[r].request = q
  BY <1>1
<1>3. Once(q)'
  BY <1>1, <1>2 DEF Once
<1>4. ~Sent(q)' => Unsent(q)'
  BY <1>1, <1>2 DEF Unsent
<1> QED BY <1>3, <1>4

LEMMA ChildChanges ==
  ASSUME EmbeddingTypes, NEW k \in DOMAIN children, NEW new \in Children
  PROVE  /\ [children EXCEPT ![k] = new] \in Seq(Children)
         /\ Len([children EXCEPT ![k] = new]) = Len(children)
BY DEF EmbeddingTypes

LEMMA ChildTyped ==
  ASSUME EmbeddingTypes, NEW k \in DOMAIN children
  PROVE  /\ children[k] \in Children
         /\ \A w \in SUBSET Requests, s \in {"up", "killed", "gone"} :
              /\ [children[k] EXCEPT !.state = s] \in Children
              /\ [children[k] EXCEPT !.work = w] \in Children
              /\ [children[k] EXCEPT !.state = s, !.work = w] \in Children
<1>1. children[k] \in Children
  BY DEF EmbeddingTypes
<1> QED BY <1>1 DEF Children

\* The child there is, if any, is one of the children.
LEMMA ChildIsThere ==
  ASSUME EmbeddingTypes
  PROVE  child # 0 => child \in DOMAIN children
BY DEF EmbeddingTypes

LEMMA EmbeddingInitInv == EmbeddingInit => EmbeddingInv
<1> SUFFICES ASSUME EmbeddingInit PROVE EmbeddingInv
  OBVIOUS
<1> USE DEF EmbeddingInit
<1>1. Failed \in Vectors
  BY DEF Failed, Vectors
<1>2. EmbeddingTypes
  BY <1>1 DEF EmbeddingTypes
<1>3. TurnsInOrder /\ PendingWorks /\ AnswersAreNamed
  BY DEF TurnsInOrder, PendingWorks, AnswersAreNamed, Named, Active
<1>4. SentOnce
  BY EmbeddingAssumption DEF SentOnce, Once, Unsent, Sent, Failed, EmbeddingAssumption
<1> QED BY <1>2, <1>3, <1>4 DEF EmbeddingInv

\* A call that moves on keeps the order of the turns, if none before it is open.
LEMMA TurnsStayInOrder ==
  ASSUME EmbeddingTypes, TurnsInOrder, NEW r \in Requests, NEW s \in {"verifying", "working", "settled"},
         stage[r] \notin {"idle", "settled"},
         stage' = [stage EXCEPT ![r] = s], order' = order,
         s # "settled" => Active(r) \/ Released(r)
  PROVE  TurnsInOrder'
<1> USE DEF EmbeddingTypes, TurnsInOrder
<1>1. PICK n \in DOMAIN order : order[n] = r
  OBVIOUS
<1>2. Position(r) = n
  BY <1>1 DEF Position
<1>3. s # "settled" => \A j \in DOMAIN order : j < n => stage[order[j]] = "settled"
  <2>1. CASE Active(r)
    BY <2>1, <1>1
  <2>2. CASE Released(r)
    BY <2>2, <1>1, <1>2 DEF Released
  <2> QED BY <2>1, <2>2
<1>4. \A i \in DOMAIN order : order[i] = r => i = n
  BY <1>1
<1>5. ASSUME NEW i \in DOMAIN order', NEW j \in DOMAIN order', Active(order[i])', j < i
      PROVE  stage'[order'[j]] = "settled"
  <2>1. order'[i] \in Requests /\ order'[j] \in Requests
    OBVIOUS
  <2>2. CASE i = n
    BY <2>2, <1>1, <1>3, <1>5, <2>1 DEF Active
  <2>3. CASE i # n
    <3>1. Active(order[i])
      BY <2>3, <1>4, <1>5, <2>1 DEF Active
    <3>2. stage[order[j]] = "settled"
      BY <3>1, <1>5
    <3> QED BY <3>2, <2>1
  <2> QED BY <2>2, <2>3
<1> QED BY <1>5

LEMMA EmbedInv ==
  ASSUME EmbeddingInv, NEW r \in Requests, Embed(r)
  PROVE  EmbeddingInv'
<1> USE DEF EmbeddingInv, Embed
<1>1. /\ order' \in Seq(Requests) /\ DOMAIN order' = 1..(Len(order) + 1) /\ Len(order') = Len(order) + 1
      /\ DOMAIN order = 1..Len(order) /\ Len(order) \in Nat
      /\ \A i \in DOMAIN order : order'[i] = order[i] /\ order[i] \in Requests
      /\ order'[Len(order) + 1] = r
  BY DEF EmbeddingTypes
<1>2. EmbeddingTypes'
  BY <1>1 DEF EmbeddingTypes
<1>3. \A i \in DOMAIN order' : i \in DOMAIN order \/ i = Len(order) + 1
  BY <1>1
<1>4. \A i \in DOMAIN order : order[i] # r
  BY DEF TurnsInOrder
<1>5. \A x \in Requests \ {r} : stage'[x] = stage[x]
  BY DEF EmbeddingTypes
<1>6. stage'[r] = "waiting"
  BY DEF EmbeddingTypes
<1>7. TurnsInOrder'
  <2>1. \A i, j \in DOMAIN order' : order'[i] = order'[j] => i = j
    BY <1>1, <1>3, <1>4 DEF TurnsInOrder
  <2>2. \A x \in Requests : stage'[x] # "idle" => \E i \in DOMAIN order' : order'[i] = x
    BY <1>1, <1>5 DEF TurnsInOrder
  <2>3. \A i \in DOMAIN order' : stage'[order'[i]] # "idle"
    BY <1>1, <1>3, <1>4, <1>5, <1>6 DEF TurnsInOrder
  <2>4. ASSUME NEW i \in DOMAIN order', NEW j \in DOMAIN order', Active(order[i])', j < i
        PROVE  stage'[order'[j]] = "settled"
    <3>1. i \in DOMAIN order
      BY <2>4, <1>1, <1>3, <1>6 DEF Active
    <3>2. j \in DOMAIN order
      BY <3>1, <2>4, <1>1
    <3> QED BY <3>1, <3>2, <2>4, <1>1, <1>4, <1>5 DEF Active, TurnsInOrder
  <2> QED BY <2>1, <2>2, <2>3, <2>4 DEF TurnsInOrder
<1>8. PendingWorks' /\ AnswersAreNamed'
  <2>1. pending # Nobody => pending \in Requests \ {r}
    BY DEF EmbeddingTypes, PendingWorks
  <2> QED BY <2>1, <1>5 DEF PendingWorks, AnswersAreNamed, Own, Named
<1>9. SentOnce'
  BY <1>5, OnceStays DEF Sent
<1> QED BY <1>2, <1>7, <1>8, <1>9

LEMMA TurnInv ==
  ASSUME EmbeddingInv, NEW r \in Requests, Turn(r)
  PROVE  EmbeddingInv'
<1> USE DEF EmbeddingInv, Turn
<1>1. TurnsInOrder'
  BY TurnsStayInOrder
<1>2. EmbeddingTypes'
  BY DEF EmbeddingTypes
<1>3. PendingWorks' /\ AnswersAreNamed'
  BY DEF PendingWorks, AnswersAreNamed, Own, Named, EmbeddingTypes
<1>4. SentOnce'
  <2>1. \A q \in Requests : Sent(q) => Sent(q)'
    BY DEF Sent, EmbeddingTypes
  <2> QED BY <2>1, OnceStays
<1> QED BY <1>1, <1>2, <1>3, <1>4

\* The end of a call with vectors of its name, which leaves another's request alone.
LEMMA SettlesInv ==
  ASSUME EmbeddingInv, NEW r \in Requests, stage[r] \in {"waiting", "verifying", "working"},
         NEW vectors \in Named(r), Settles(r, vectors),
         UNCHANGED <<order, asked>>
  PROVE  /\ TurnsInOrder' /\ stage' \in [Requests -> {"idle", "waiting", "verifying", "working", "settled"}]
         /\ result' \in [Requests -> Vectors]
         /\ \A x \in Requests : result'[x] \in Named(x)'
         /\ \A x \in Requests \ {r} : stage'[x] = stage[x] /\ result'[x] = result[x]
         /\ stage'[r] = "settled" /\ result'[r] = vectors
         /\ \A x \in Requests : Sent(x) => Sent(x)'
<1> USE DEF EmbeddingInv, Settles
<1>1. TurnsInOrder'
  BY TurnsStayInOrder
<1>2. vectors \in Vectors
  BY NamedTyped
<1>3. \A x \in Requests : Named(x)' = Named(x)
  BY DEF Named
<1> QED BY <1>1, <1>2, <1>3 DEF EmbeddingTypes, AnswersAreNamed, Sent

\* A call that fails returns nothing that another could have.
LEMMA FailsInv ==
  ASSUME EmbeddingInv, NEW r \in Requests, stage[r] \in {"waiting", "verifying", "working"},
         Settles(r, Failed), UNCHANGED <<order, asked, answers>>,
         \A k \in DOMAIN children' : k \in DOMAIN children /\ children'[k].work \subseteq children[k].work
  PROVE  /\ TurnsInOrder' /\ stage' \in [Requests -> {"idle", "waiting", "verifying", "working", "settled"}]
         /\ result' \in [Requests -> Vectors]
         /\ \A x \in Requests \ {r} : stage'[x] = stage[x]
         /\ AnswersAreNamed' /\ SentOnce'
<1>1. Failed \in Named(r)
  BY DEF Named
<1>2. /\ TurnsInOrder' /\ stage' \in [Requests -> {"idle", "waiting", "verifying", "working", "settled"}]
      /\ result' \in [Requests -> Vectors]
      /\ \A x \in Requests : result'[x] \in Named(x)'
      /\ \A x \in Requests \ {r} : stage'[x] = stage[x] /\ result'[x] = result[x]
      /\ stage'[r] = "settled" /\ result'[r] = Failed
      /\ \A x \in Requests : Sent(x) => Sent(x)'
  BY <1>1, SettlesInv
<1>3. AnswersAreNamed'
  BY <1>2 DEF EmbeddingInv, AnswersAreNamed, Own
<1>4. \A x \in Requests : result'[x].request \in {result[x].request, Nobody}
  BY <1>2 DEF Failed
<1>5. SentOnce'
  BY <1>2, <1>4, OnceStays DEF EmbeddingInv
<1> QED BY <1>2, <1>3, <1>5

LEMMA DriftedInv ==
  ASSUME EmbeddingInv, NEW r \in Requests, Drifted(r)
  PROVE  EmbeddingInv'
<1> USE DEF Drifted
<1>1. /\ TurnsInOrder' /\ stage' \in [Requests -> {"idle", "waiting", "verifying", "working", "settled"}]
      /\ result' \in [Requests -> Vectors]
      /\ \A x \in Requests \ {r} : stage'[x] = stage[x]
      /\ AnswersAreNamed' /\ SentOnce'
  BY FailsInv
<1> USE DEF EmbeddingInv
<1>2. EmbeddingTypes'
  BY <1>1 DEF EmbeddingTypes
<1>3. PendingWorks'
  BY <1>1 DEF PendingWorks, EmbeddingTypes
<1> QED BY <1>1, <1>2, <1>3

LEMMA WorkerEmbedInv ==
  ASSUME EmbeddingInv, NEW r \in Requests, WorkerEmbed(r)
  PROVE  EmbeddingInv'
<1> USE DEF EmbeddingInv, WorkerEmbed
<1>1. TurnsInOrder'
  <2>1. stage[r] \notin {"idle", "settled"} /\ Active(r)
    BY DEF Active
  <2> QED BY <2>1, TurnsStayInOrder
<1>2. children' \in Seq(Children) /\ child' \in 0..Len(children')
  <2>1. CASE child = 0
    <3>1. NewChild(r) \in Children
      BY DEF NewChild, Children
    <3>2. children' = Append(children, NewChild(r)) /\ child' = Len(children')
      BY <2>1
    <3> HIDE DEF WorkerEmbed
    <3> QED BY <3>1, <3>2 DEF EmbeddingTypes
  <2>2. CASE child # 0
    <3> DEFINE w == children[child].work \cup {r}
               new == [children[child] EXCEPT !.work = w]
    <3>1. child \in DOMAIN children /\ children[child] \in Children
      BY <2>2, ChildIsThere, ChildTyped
    <3>2. w \in SUBSET Requests
      BY <3>1 DEF Children
    <3>3. children' = [children EXCEPT ![child] = new] /\ child' = child
      BY <2>2
    <3>4. new \in Children
      BY <3>1, <3>2, ChildTyped
    <3> HIDE DEF WorkerEmbed, new
    <3> QED BY <3>1, <3>3, <3>4, ChildChanges DEF EmbeddingTypes
  <2> QED BY <2>1, <2>2
<1>3. EmbeddingTypes'
  BY <1>2 DEF EmbeddingTypes
<1>4. PendingWorks' /\ AnswersAreNamed'
  BY DEF PendingWorks, AnswersAreNamed, Own, Named, EmbeddingTypes
<1>5. \A q \in Requests : Sent(q)' <=> Sent(q) \/ q = r
  BY DEF Sent, EmbeddingTypes
<1>6. Unsent(r)
  BY DEF SentOnce, Sent
\* The child that it is sent to.
<1>7. \E c \in DOMAIN children' :
        /\ \A k \in DOMAIN children' \ {c} : k \in DOMAIN children /\ children'[k] = children[k]
        /\ \A q \in children'[c].work : q = r \/ (c \in DOMAIN children /\ q \in children[c].work)
  <2>1. CASE child = 0
    <3>1. children' = Append(children, NewChild(r)) /\ children \in Seq(Children)
      BY <2>1 DEF EmbeddingTypes
    <3>2. /\ DOMAIN children' = DOMAIN children \cup {Len(children) + 1}
          /\ \A k \in DOMAIN children : k # Len(children) + 1 /\ children'[k] = children[k]
          /\ children'[Len(children) + 1] = NewChild(r)
      <4> HIDE DEF WorkerEmbed
      <4> QED BY <3>1
    <3> QED BY <3>2 DEF NewChild
  <2>2. CASE child # 0
    <3>1. child \in DOMAIN children /\ children[child] \in Children
      BY <2>2, ChildIsThere, ChildTyped
    <3>2. children' = [children EXCEPT ![child] = [children[child] EXCEPT !.work = children[child].work \cup {r}]]
      BY <2>2
    <3>3. DOMAIN children' = DOMAIN children /\ children'[child].work = children[child].work \cup {r}
      BY <3>1, <3>2 DEF EmbeddingTypes, Children
    <3>4. \A k \in DOMAIN children \ {child} : children'[k] = children[k]
      BY <3>1, <3>2 DEF EmbeddingTypes
    <3> QED BY <3>1, <3>3, <3>4
  <2> QED BY <2>1, <2>2
<1>8. PICK c \in DOMAIN children' :
        /\ \A k \in DOMAIN children' \ {c} : k \in DOMAIN children /\ children'[k] = children[k]
        /\ \A q \in children'[c].work : q = r \/ (c \in DOMAIN children /\ q \in children[c].work)
  BY <1>7
<1>9. SentOnce'
  <2> SUFFICES ASSUME NEW q \in Requests PROVE Once(q)' /\ (~Sent(q)' => Unsent(q)')
    BY DEF SentOnce
  <2>0. answers' = answers /\ result' = result /\ Once(q) /\ (~Sent(q) => Unsent(q))
    BY DEF SentOnce
  <2> HIDE DEF WorkerEmbed, EmbeddingInv
  <2>1. CASE q = r
    <3>1. \A k \in DOMAIN children' : r \in children'[k].work => k = c
      BY <1>6, <1>8 DEF Unsent
    <3>2. Once(q)'
      BY <2>0, <2>1, <3>1, <1>6 DEF Once, Unsent
    <3> QED BY <3>2, <2>1, <1>5
  <2>2. CASE q # r
    <3>1. \A k \in DOMAIN children' : q \in children'[k].work => k \in DOMAIN children /\ q \in children[k].work
      BY <2>2, <1>8
    <3>2. Once(q)'
      BY <2>0, <3>1 DEF Once
    <3>3. ~Sent(q)' => Unsent(q)'
      BY <2>0, <2>2, <3>1, <1>5 DEF Unsent
    <3> QED BY <3>2, <3>3
  <2> QED BY <2>1, <2>2
<1> QED BY <1>1, <1>3, <1>4, <1>9

LEMMA AbortInv ==
  ASSUME EmbeddingInv, NEW r \in Requests, Abort(r)
  PROVE  EmbeddingInv'
<1> USE DEF Abort
<1>1. /\ children' \in Seq(Children) /\ Len(children') = Len(children) /\ child' \in {0, child}
      /\ \A k \in DOMAIN children' : k \in DOMAIN children /\ children'[k].work \subseteq children[k].work
  <2>1. CASE stage[r] = "working" /\ child # 0
    <3> DEFINE new == [children[child] EXCEPT !.state = "killed"]
    <3>1. child \in DOMAIN children
      BY <2>1, ChildIsThere DEF EmbeddingInv
    <3>2. new \in Children /\ child' = 0 /\ new.work = children[child].work
      BY <2>1, <3>1, ChildTyped DEF EmbeddingInv, Children
    <3>3. children' = [children EXCEPT ![child] = new]
      BY <2>1
    <3> HIDE DEF new, Abort
    <3> QED BY <3>1, <3>2, <3>3, ChildChanges DEF EmbeddingInv
  <2>2. CASE ~(stage[r] = "working" /\ child # 0)
    BY <2>2 DEF EmbeddingInv, EmbeddingTypes
  <2> QED BY <2>1, <2>2
<1>2. /\ TurnsInOrder' /\ stage' \in [Requests -> {"idle", "waiting", "verifying", "working", "settled"}]
      /\ result' \in [Requests -> Vectors]
      /\ \A x \in Requests \ {r} : stage'[x] = stage[x]
      /\ AnswersAreNamed' /\ SentOnce'
  <2>1. Settles(r, Failed) /\ UNCHANGED <<order, asked, answers>> /\ stage[r] \in {"waiting", "verifying", "working"}
    OBVIOUS
  <2> HIDE DEF Abort
  <2> QED BY <2>1, <1>1, FailsInv
<1> USE DEF EmbeddingInv
<1>3. pending' # Nobody => pending' = pending /\ pending # r
  BY DEF PendingWorks
<1>4. EmbeddingTypes'
  BY <1>1, <1>2, <1>3 DEF EmbeddingTypes
<1>5. PendingWorks'
  BY <1>2, <1>3 DEF PendingWorks, EmbeddingTypes
<1> QED BY <1>2, <1>4, <1>5

\* The work of a child that loses a call.
LEMMA WorkLess ==
  ASSUME EmbeddingTypes, NEW k \in DOMAIN children, NEW r \in children[k].work,
         children' = [children EXCEPT ![k].work = @ \ {r}]
  PROVE  /\ r \in Requests /\ children' \in Seq(Children)
         /\ DOMAIN children' = DOMAIN children /\ Len(children') = Len(children)
         /\ children'[k].work = children[k].work \ {r}
         /\ \A l \in DOMAIN children \ {k} : children'[l] = children[l]
<1> DEFINE new == [children[k] EXCEPT !.work = children[k].work \ {r}]
<1>1. children[k] \in Children
  BY ChildTyped
<1>2. r \in Requests /\ children[k].work \ {r} \in SUBSET Requests
  BY <1>1 DEF Children
<1>3. new \in Children /\ new.work = children[k].work \ {r}
  BY <1>1, <1>2, ChildTyped DEF Children
<1>4. children' = [children EXCEPT ![k] = new]
  OBVIOUS
<1> HIDE DEF new
<1>5. children' \in Seq(Children) /\ Len(children') = Len(children)
  <2>1. /\ [children EXCEPT ![k] = new] \in Seq(Children)
        /\ Len([children EXCEPT ![k] = new]) = Len(children)
    BY <1>3, ChildChanges
  <2> QED BY <2>1, <1>4
<1> QED BY <1>2, <1>3, <1>4, <1>5 DEF EmbeddingTypes

LEMMA ChildAnswersInv ==
  ASSUME EmbeddingInv, NEW k \in DOMAIN children, ChildAnswers(k)
  PROVE  EmbeddingInv'
<1> USE DEF EmbeddingInv
<1>1. PICK r \in children[k].work :
        /\ children' = [children EXCEPT ![k].work = @ \ {r}]
        /\ \E vectors \in {[request |-> r, model |-> Loaded(r)], Failed} :
             answers' = answers \cup {[for |-> r, vectors |-> vectors]}
  BY DEF ChildAnswers
<1>2. /\ r \in Requests /\ children' \in Seq(Children)
      /\ DOMAIN children' = DOMAIN children /\ Len(children') = Len(children)
      /\ children'[k].work = children[k].work \ {r}
      /\ \A l \in DOMAIN children \ {k} : children'[l] = children[l]
  BY <1>1, WorkLess
<1>3. PICK vectors \in {[request |-> r, model |-> asked[r]], Failed} :
        answers' = answers \cup {[for |-> r, vectors |-> vectors]}
  BY <1>1 DEF Loaded
<1>4. vectors \in Own(r) /\ vectors \in Vectors
  BY <1>2, NamedTyped DEF Own
<1>5. UNCHANGED <<order, stage, asked, result, pending, child, disposing>>
  BY DEF ChildAnswers
<1>6. EmbeddingTypes'
  BY <1>2, <1>3, <1>4, <1>5 DEF EmbeddingTypes
<1>7. AnswersAreNamed'
  BY <1>2, <1>3, <1>4, <1>5 DEF AnswersAreNamed, Own, Named
<1>8. SentOnce'
  <2> SUFFICES ASSUME NEW q \in Requests PROVE Once(q)' /\ (~Sent(q)' => Unsent(q)')
    BY DEF SentOnce
  <2>0. Once(q) /\ (~Sent(q) => Unsent(q)) /\ (Sent(q)' <=> Sent(q))
    BY <1>5 DEF SentOnce, Sent
  <2>1. \A l \in DOMAIN children' : q \in children'[l].work =>
          l \in DOMAIN children /\ q \in children[l].work /\ (q = r => l # k)
    BY <1>2
  <2>2. \A a \in answers' : a \in answers \/ (a = [for |-> r, vectors |-> vectors] /\ a.for = r)
    BY <1>3
  <2>3. result' = result /\ r \in children[k].work
    BY <1>5
  <2> HIDE DEF EmbeddingInv
  <2>4. CASE q = r
    <3>1. /\ \A l \in DOMAIN children' : q \notin children'[l].work
          /\ \A a \in answers : a.for # q
          /\ \A x \in Requests : result[x].request # q
      BY <2>0, <2>1, <2>3, <2>4 DEF Once
    <3>2. Once(q)'
      BY <3>1, <2>2, <2>3 DEF Once
    <3>3. Sent(q)'
      BY <2>0, <2>3, <2>4 DEF Unsent
    <3> QED BY <3>2, <3>3
  <2>5. CASE q # r
    <3>1. Once(q)'
      BY <2>0, <2>1, <2>2, <2>3, <2>5 DEF Once
    <3>2. ~Sent(q)' => Unsent(q)'
      BY <2>0, <2>1, <2>2, <2>3, <2>5 DEF Unsent
    <3> QED BY <3>1, <3>2
  <2> QED BY <2>4, <2>5
<1> QED BY <1>5, <1>6, <1>7, <1>8 DEF TurnsInOrder, PendingWorks, Active

LEMMA ReceiveInv ==
  ASSUME EmbeddingInv, NEW answer \in answers, Receive(answer)
  PROVE  EmbeddingInv'
<1> USE DEF Receive
<1>1. CASE AnswersPending(answer)
  <2>0. /\ pending \in Requests /\ answer.for \in Requests /\ answer.vectors \in Own(answer.for)
        /\ RequestId[pending] = RequestId[answer.for]
        /\ stage[pending] = "working" /\ pending' = Nobody /\ answers' = answers \ {answer}
        /\ Settles(pending, answer.vectors) /\ UNCHANGED <<order, asked, child, children, disposing>>
    BY <1>1, EmbeddingAssumption DEF EmbeddingInv, EmbeddingTypes, AnswersAreNamed, PendingWorks, AnswersPending, EmbeddingAssumption
  <2>1. answer.vectors \in Named(pending)
    BY <2>0 DEF Own, Named
  <2>2. /\ TurnsInOrder' /\ stage' \in [Requests -> {"idle", "waiting", "verifying", "working", "settled"}]
        /\ result' \in [Requests -> Vectors]
        /\ \A x \in Requests : result'[x] \in Named(x)'
        /\ \A x \in Requests \ {pending} : result'[x] = result[x]
        /\ result'[pending] = answer.vectors
        /\ \A x \in Requests : Sent(x) => Sent(x)'
    BY <2>0, <2>1, SettlesInv
  <2>3. EmbeddingTypes'
    BY <2>0, <2>2 DEF EmbeddingInv, EmbeddingTypes
  <2>4. PendingWorks' /\ AnswersAreNamed'
    BY <2>0, <2>2 DEF EmbeddingInv, PendingWorks, AnswersAreNamed, Own
  <2>5. SentOnce'
    <3> SUFFICES ASSUME NEW q \in Requests PROVE Once(q)' /\ (~Sent(q)' => Unsent(q)')
      BY DEF SentOnce
    <3>1. Once(q) /\ (~Sent(q) => Unsent(q)) /\ q # Nobody
      BY EmbeddingAssumption DEF EmbeddingInv, SentOnce, EmbeddingAssumption
    <3>2. answer.vectors.request = q => answer.for = q
      BY <2>0, <3>1 DEF Own, Failed
    <3>3. \A x \in Requests : result'[x].request = q => result[x].request = q \/ (x = pending /\ answer.for = q)
      BY <2>2, <3>2
    <3>4. children' = children /\ answers' = answers \ {answer} /\ answer \in answers
      BY <2>0
    <3> HIDE DEF Receive
    <3>5. \A a \in answers' : a.for = q => answer.for # q
      BY <3>1, <3>4 DEF Once
    <3>6. Once(q)'
      BY <3>1, <3>3, <3>4, <3>5 DEF Once
    <3>7. ~Sent(q)' => Unsent(q)'
      BY <2>2, <3>1, <3>3, <3>4 DEF Unsent
    <3> QED BY <3>6, <3>7
  <2> QED BY <2>2, <2>3, <2>4, <2>5 DEF EmbeddingInv
<1>2. CASE ~AnswersPending(answer)
  <2>0. UNCHANGED <<order, stage, asked, result, pending, child, children, disposing>> /\ answers' \subseteq answers
    BY <1>2
  <2> HIDE DEF Receive
  <2> USE DEF EmbeddingInv
  <2>1. EmbeddingTypes'
    BY <2>0 DEF EmbeddingTypes
  <2>2. SentOnce'
    BY <2>0, OnceStays DEF Sent
  <2> QED BY <2>0, <2>1, <2>2 DEF TurnsInOrder, Active, PendingWorks, AnswersAreNamed, Own, Named
<1> QED BY <1>1, <1>2

\* What is pending fails, and a child loses work.
LEMMA FailPendingInv ==
  ASSUME EmbeddingInv, FailPending, UNCHANGED <<order, asked, answers, disposing>>,
         children' \in Seq(Children), Len(children') = Len(children), child' \in 0..Len(children),
         \A k \in DOMAIN children' : k \in DOMAIN children /\ children'[k].work \subseteq children[k].work
  PROVE  EmbeddingInv'
<1>1. CASE pending = Nobody
  <2>0. UNCHANGED <<pending, stage, result>>
    BY <1>1 DEF FailPending
  <2> USE DEF EmbeddingInv
  <2>1. EmbeddingTypes'
    BY <2>0 DEF EmbeddingTypes
  <2>2. SentOnce'
    BY <2>0, OnceStays DEF Sent
  <2> QED BY <2>0, <2>1, <2>2 DEF TurnsInOrder, Active, PendingWorks, AnswersAreNamed, Own, Named
<1>2. CASE pending # Nobody
  <2>1. pending \in Requests /\ stage[pending] = "working" /\ pending' = Nobody /\ Settles(pending, Failed)
    BY <1>2 DEF EmbeddingInv, EmbeddingTypes, PendingWorks, FailPending
  <2>2. /\ TurnsInOrder' /\ stage' \in [Requests -> {"idle", "waiting", "verifying", "working", "settled"}]
        /\ result' \in [Requests -> Vectors]
        /\ AnswersAreNamed' /\ SentOnce'
    BY <2>1, FailsInv
  <2>3. EmbeddingTypes'
    BY <2>1, <2>2 DEF EmbeddingInv, EmbeddingTypes
  <2>4. PendingWorks'
    BY <2>1 DEF PendingWorks
  <2> QED BY <2>2, <2>3, <2>4 DEF EmbeddingInv
<1> QED BY <1>1, <1>2

LEMMA ChildExitsInv ==
  ASSUME EmbeddingInv, NEW k \in DOMAIN children, ChildExits(k)
  PROVE  EmbeddingInv'
<1> DEFINE new == [children[k] EXCEPT !.state = "gone", !.work = {}]
<1>1. children' = [children EXCEPT ![k] = new] /\ child' \in 0..Len(children)
  <2>1. children' = [children EXCEPT ![k].state = "gone", ![k].work = {}]
    BY DEF ChildExits
  <2>2. children' = [children EXCEPT ![k] = new]
    BY <2>1 DEF EmbeddingInv, EmbeddingTypes
  <2>3. child' \in 0..Len(children)
    BY DEF ChildExits, EmbeddingInv, EmbeddingTypes
  <2> QED BY <2>2, <2>3
<1>2. new \in Children /\ new.work \subseteq children[k].work
  BY ChildTyped DEF EmbeddingInv, Children
<1> HIDE DEF new
<1>3. children' \in Seq(Children) /\ Len(children') = Len(children)
  BY <1>1, <1>2, ChildChanges DEF EmbeddingInv
<1>4. \A l \in DOMAIN children' : l \in DOMAIN children /\ children'[l].work \subseteq children[l].work
  BY <1>1, <1>2, <1>3
<1>5. FailPending /\ UNCHANGED <<order, asked, answers, disposing>>
  BY DEF ChildExits
<1> QED BY <1>1, <1>3, <1>4, <1>5, FailPendingInv

LEMMA SendFailsInv ==
  ASSUME EmbeddingInv, NEW k \in DOMAIN children, SendFails(k)
  PROVE  EmbeddingInv'
<1>1. PICK r \in children[k].work : children' = [children EXCEPT ![k].work = @ \ {r}]
  BY DEF SendFails
<1>2. /\ children' \in Seq(Children) /\ Len(children') = Len(children)
      /\ \A l \in DOMAIN children' : l \in DOMAIN children /\ children'[l].work \subseteq children[l].work
  BY <1>1, WorkLess DEF EmbeddingInv
<1>3. FailPending /\ UNCHANGED <<order, asked, answers, disposing>> /\ child' \in 0..Len(children)
  BY DEF SendFails, EmbeddingInv, EmbeddingTypes
<1> QED BY <1>2, <1>3, FailPendingInv

LEMMA DisposeInv ==
  ASSUME EmbeddingInv, Dispose \/ Disposed
  PROVE  EmbeddingInv'
<1> USE DEF EmbeddingInv
<1>1. UNCHANGED <<order, stage, asked, result, pending, answers>>
  BY DEF Dispose, Disposed
<1>2. disposing' \in [state : {"none", "waiting", "done"}, after : 0..Len(order)]
  BY DEF Dispose, Disposed, EmbeddingTypes
<1>3. /\ children' \in Seq(Children) /\ Len(children') = Len(children) /\ child' \in {0, child}
      /\ \A k \in DOMAIN children' : k \in DOMAIN children /\ children'[k].work \subseteq children[k].work
  <2>1. CASE Disposed /\ child # 0
    <3> DEFINE new == [children[child] EXCEPT !.state = "killed"]
    <3>1. child \in DOMAIN children
      BY <2>1, ChildIsThere
    <3>2. new \in Children /\ child' = 0 /\ new.work = children[child].work
      BY <2>1, <3>1, ChildTyped DEF Disposed, Children
    <3>3. children' = [children EXCEPT ![child] = new]
      BY <2>1 DEF Disposed
    <3> HIDE DEF new
    <3> QED BY <3>1, <3>2, <3>3, ChildChanges
  <2>2. CASE ~(Disposed /\ child # 0)
    BY <2>2 DEF Dispose, Disposed, EmbeddingTypes
  <2> QED BY <2>1, <2>2
<1>4. EmbeddingTypes'
  BY <1>1, <1>2, <1>3 DEF EmbeddingTypes
<1>5. SentOnce'
  BY <1>1, <1>3, OnceStays DEF Sent
<1> QED BY <1>1, <1>4, <1>5 DEF TurnsInOrder, Active, PendingWorks, AnswersAreNamed, Own, Named

LEMMA EmbeddingStepInv ==
  ASSUME EmbeddingInv, [EmbeddingNext]_embedding
  PROVE  EmbeddingInv'
<1>1. CASE UNCHANGED embedding
  <2>1. UNCHANGED <<order, stage, asked, result, pending, child, children, answers, disposing>>
    BY <1>1 DEF embedding
  <2>2. SentOnce'
    BY <2>1, OnceStays DEF EmbeddingInv, Sent
  <2> QED BY <2>1, <2>2 DEF EmbeddingInv, EmbeddingTypes, TurnsInOrder, Active, PendingWorks, AnswersAreNamed, Own, Named
<1>2. CASE EmbeddingNext
  BY <1>2, EmbedInv, TurnInv, DriftedInv, WorkerEmbedInv, AbortInv, ChildAnswersInv, ChildExitsInv, SendFailsInv,
     ReceiveInv, DisposeInv DEF EmbeddingNext
<1> QED BY <1>1, <1>2

\* Two calls at work would each have been made before the other.
LEMMA OneAtWork ==
  ASSUME EmbeddingInv
  PROVE  Cardinality({r \in Requests : stage[r] \in {"verifying", "working"}}) <= 1
<1> DEFINE S == {r \in Requests : stage[r] \in {"verifying", "working"}}
<1>1. ASSUME NEW x \in S, NEW y \in S PROVE x = y
  <2>1. PICK i \in DOMAIN order : order[i] = x
    BY DEF EmbeddingInv, TurnsInOrder
  <2>2. PICK j \in DOMAIN order : order[j] = y
    BY DEF EmbeddingInv, TurnsInOrder
  <2>3. i \in Nat /\ j \in Nat
    BY DEF EmbeddingInv, EmbeddingTypes
  <2>4. ~(i < j) /\ ~(j < i)
    BY <2>1, <2>2 DEF EmbeddingInv, TurnsInOrder, Active
  <2> QED BY <2>1, <2>2, <2>3, <2>4
<1>2. S = {} \/ \E x \in S : S = {x}
  BY <1>1
<1> HIDE DEF S
<1>3. Cardinality(S) <= 1
  <2>1. CASE S = {}
    BY <2>1, FS_EmptySet
  <2>2. ASSUME NEW x \in S, S = {x} PROVE Cardinality(S) = 1
    BY <2>2, FS_Singleton
  <2> QED BY <2>1, <2>2, <1>2
<1> QED BY <1>3 DEF S

\* Two calls that return the same vectors would both have those of one call.
LEMMA NoVectorsTwice ==
  ASSUME EmbeddingInv, NEW q \in Requests, NEW r \in Requests, result[q] = result[r], result[q] # Failed
  PROVE  q = r
<1>1. result[q] \in Named(q)
  BY DEF EmbeddingInv, AnswersAreNamed
<1>2. PICK x \in Requests : result[q] = [request |-> x, model |-> asked[x]]
  BY <1>1 DEF Named
<1>3. result[q].request = x /\ result[r].request = x
  BY <1>2
<1>4. Once(x)
  BY DEF EmbeddingInv, SentOnce
<1> QED BY <1>3, <1>4 DEF Once

\* Whatever is aborted, killed, lost or late, a call returns vectors computed for
\* a call of its requestId, by the model of that call, or none; no vectors are
\* returned twice, and no two calls are at work at once.
THEOREM VectorsStayOwn == EmbeddingSpec => []VectorsAreOwn
<1>1. EmbeddingInv => VectorsAreOwn
  <2> SUFFICES ASSUME EmbeddingInv PROVE VectorsAreOwn
    OBVIOUS
  <2>1. ASSUME NEW r \in Requests, result[r] # Failed
        PROVE  \E q \in Requests : RequestId[q] = RequestId[r] /\ result[r] = [request |-> q, model |-> asked[q]]
    BY <2>1 DEF EmbeddingInv, AnswersAreNamed, Named
  <2>2. \A q, r \in Requests : result[q] = result[r] /\ result[q] # Failed => q = r
    BY NoVectorsTwice
  <2> QED BY <2>1, <2>2, OneAtWork DEF VectorsAreOwn
<1>2. EmbeddingInv /\ [EmbeddingNext]_embedding => EmbeddingInv'
  BY EmbeddingStepInv
<1> QED BY <1>1, <1>2, EmbeddingInitInv, PTL DEF EmbeddingSpec

-----------------------------------------------------------------------------
(* The decision of a recall.  Each ranking is a strict order of finitely   *)
(* many Versions, filled by the number of those that come before; the      *)
(* runner-up is kept whatever the candidate limit, so the margin to it is  *)
(* the margin to every rival.                                              *)

\* A strict total order of S, given by what comes before each.
Orders(before, S) ==
  /\ DOMAIN before = S
  /\ \A a \in S : before[a] \in SUBSET S /\ a \notin before[a]
  /\ \A a, b \in S : a # b => a \in before[b] \/ b \in before[a]
  /\ \A a, b, c \in S : a \in before[b] /\ b \in before[c] => a \in before[c]

LEMMA PlacesFilled ==
  ASSUME NEW S, IsFiniteSet(S), NEW before, Orders(before, S)
  PROVE  /\ Cardinality(S) \in Nat
         /\ \A a, b \in S : a \in before[b] => Cardinality(before[a]) < Cardinality(before[b])
         /\ \A a \in S : Cardinality(before[a]) \in 0..Cardinality(S) - 1
         /\ \A m \in 0..Cardinality(S) - 1 : \E a \in S : Cardinality(before[a]) = m
<1>1. Cardinality(S) \in Nat
  BY FS_CardinalityType
<1>2. ASSUME NEW a \in S
      PROVE  IsFiniteSet(before[a]) /\ Cardinality(before[a]) \in 0..Cardinality(S) - 1
  <2>1. before[a] \in SUBSET S /\ a \notin before[a]
    BY DEF Orders
  <2>2. /\ IsFiniteSet(before[a]) /\ Cardinality(before[a]) <= Cardinality(S)
        /\ Cardinality(S) = Cardinality(before[a]) => S = before[a]
    BY <2>1, FS_Subset
  <2>3. Cardinality(before[a]) \in Nat
    BY <2>2, FS_CardinalityType
  <2>4. Cardinality(S) # Cardinality(before[a])
    BY <2>1, <2>2
  <2> QED BY <1>1, <2>2, <2>3, <2>4
<1>3. ASSUME NEW a \in S, NEW b \in S, a \in before[b]
      PROVE  Cardinality(before[a]) < Cardinality(before[b])
  <2>1. before[a] \in SUBSET before[b] /\ a \notin before[a]
    BY <1>3 DEF Orders
  <2>2. /\ Cardinality(before[a]) <= Cardinality(before[b])
        /\ Cardinality(before[b]) = Cardinality(before[a]) => before[b] = before[a]
    BY <1>2, <2>1, FS_Subset
  <2>3. Cardinality(before[b]) # Cardinality(before[a])
    BY <1>3, <2>1, <2>2
  <2> QED BY <1>1, <1>2, <2>2, <2>3
<1>4. ASSUME NEW m \in 0..Cardinality(S) - 1 PROVE \E a \in S : Cardinality(before[a]) = m
  <2> DEFINE f == [a \in S |-> Cardinality(before[a])]
             T == 0..Cardinality(S) - 1
  <2>1. \A a \in S : f[a] \in T /\ f[a] = Cardinality(before[a])
    BY <1>2
  <2>2. \A a, b \in S : f[a] = f[b] => a = b
    <3> SUFFICES ASSUME NEW a \in S, NEW b \in S, f[a] = f[b], a # b PROVE FALSE
      OBVIOUS
    <3>1. a \in before[b] \/ b \in before[a]
      BY DEF Orders
    <3>2. Cardinality(before[a]) < Cardinality(before[b]) \/ Cardinality(before[b]) < Cardinality(before[a])
      BY <1>3, <3>1
    <3> QED BY <1>1, <1>2, <2>1, <3>2
  <2>3. IsFiniteSet(T) /\ Cardinality(T) = Cardinality(S)
    <3>1. 0 \in Int /\ Cardinality(S) - 1 \in Int
      BY <1>1
    <3>2. IsFiniteSet(T) /\ Cardinality(T) = IF 0 > Cardinality(S) - 1 THEN 0 ELSE Cardinality(S) - 1 - 0 + 1
      BY <3>1, FS_Interval
    <3> QED BY <1>1, <3>2
  <2>4. f = [a \in DOMAIN f |-> f[a]] /\ DOMAIN f = S
    OBVIOUS
  <2> HIDE DEF f, T
  <2>5. f \in [S -> T]
    BY <2>1, <2>4
  <2>6. f \in Injection(S, T)
    BY <2>2, <2>5 DEF Injection, IsInjective
  <2>7. Cardinality(S) = Cardinality(T) <=> f \in Surjection(S, T)
    BY <2>3, <2>6, FS_Injection
  <2>8. f \in Surjection(S, T)
    BY <2>3, <2>7
  <2>9. m \in T
    BY DEF T
  <2>10. \E a \in S : f[a] = m
    BY <2>8, <2>9 DEF Surjection
  <2> QED BY <2>1, <2>10
<1> QED BY <1>1, <1>2, <1>3, <1>4

\* InOrder lists every entry once, and what comes before it earlier.
LEMMA InOrderIs ==
  ASSUME NEW S, IsFiniteSet(S), NEW before, Orders(before, S)
  PROVE  /\ Cardinality(S) \in Nat
         /\ DOMAIN InOrder(before) = 1..Cardinality(S) /\ InOrder(before) \in Seq(S)
         /\ \A i \in 1..Cardinality(S) : InOrder(before)[i] \in S
         /\ \A a \in S : \E i \in 1..Cardinality(S) : InOrder(before)[i] = a
         /\ \A i, j \in 1..Cardinality(S) : i < j => InOrder(before)[i] \in before[InOrder(before)[j]]
<1> DEFINE n == Cardinality(S)
           s == InOrder(before)
<1>1. /\ n \in Nat
      /\ \A a, b \in S : a \in before[b] => Cardinality(before[a]) < Cardinality(before[b])
      /\ \A a \in S : Cardinality(before[a]) \in 0..n - 1
      /\ \A m \in 0..n - 1 : \E a \in S : Cardinality(before[a]) = m
  BY PlacesFilled
<1>2. DOMAIN before = S
  BY DEF Orders
<1>3. s = [i \in 1..n |-> CHOOSE a \in S : Cardinality(before[a]) = i - 1]
  BY <1>2 DEF InOrder
<1> HIDE DEF n, s
<1>4. ASSUME NEW i \in 1..n PROVE s[i] \in S /\ Cardinality(before[s[i]]) = i - 1
  <2>1. i - 1 \in 0..n - 1
    BY <1>1
  <2>2. \E a \in S : Cardinality(before[a]) = i - 1
    BY <1>1, <2>1
  <2> QED BY <1>3, <2>2
<1>5. \A a, b \in S : Cardinality(before[a]) = Cardinality(before[b]) => a = b
  <2> SUFFICES ASSUME NEW a \in S, NEW b \in S, Cardinality(before[a]) = Cardinality(before[b]), a # b
               PROVE  FALSE
    OBVIOUS
  <2>1. a \in before[b] \/ b \in before[a]
    BY DEF Orders
  <2> QED BY <1>1, <2>1
<1>6. ASSUME NEW a \in S PROVE \E i \in 1..n : s[i] = a
  <2> DEFINE m == Cardinality(before[a])
  <2>1. m \in 0..n - 1
    BY <1>1
  <2>2. m + 1 \in 1..n /\ (m + 1) - 1 = m
    BY <1>1, <2>1
  <2>3. s[m + 1] = a
    BY <1>4, <1>5, <2>2
  <2> QED BY <2>2, <2>3
<1>7. ASSUME NEW i \in 1..n, NEW j \in 1..n, i < j PROVE s[i] \in before[s[j]]
  <2>1. s[i] # s[j]
    BY <1>1, <1>4, <1>7
  <2>2. s[j] \notin before[s[i]]
    BY <1>1, <1>4, <1>7
  <2> QED BY <1>4, <2>1, <2>2 DEF Orders
<1>8. s \in Seq(S) /\ DOMAIN s = 1..n
  BY <1>1, <1>3, <1>4
<1> QED BY <1>1, <1>4, <1>6, <1>7, <1>8 DEF n, s

\* The head of a ranking that keeps two entries or more leads them all.
LEMMA HeadLeads ==
  ASSUME NEW S, IsFiniteSet(S), NEW before, Orders(before, S), NEW n \in Nat, n >= 2,
         NEW s, s = TakeFirst(InOrder(before), n)
  PROVE  /\ s \in Seq(S) /\ Len(s) \in Nat /\ DOMAIN s = 1..Len(s)
         /\ \A i \in 1..Len(s) : s[i] \in S
         /\ S # {} => 1 \in DOMAIN s
         /\ \A q \in S : \/ q = s[1]
                         \/ 2 \in DOMAIN s /\ s[1] \in before[q] /\ (q = s[2] \/ s[2] \in before[q])
<1> DEFINE t == InOrder(before)
           c == Cardinality(S)
           k == IF c < n THEN c ELSE n
<1>1. /\ c \in Nat /\ DOMAIN t = 1..c /\ t \in Seq(S)
      /\ \A i \in 1..c : t[i] \in S
      /\ \A a \in S : \E i \in 1..c : t[i] = a
      /\ \A i, j \in 1..c : i < j => t[i] \in before[t[j]]
  BY InOrderIs
<1>2. Len(t) = c
  BY <1>1
<1>3. s = [i \in 1..k |-> t[i]]
  BY <1>2 DEF TakeFirst
<1> HIDE DEF t, c, k
<1>4. k \in Nat /\ k <= c /\ (k < c => k = n)
  BY <1>1 DEF k
<1>5. s \in Seq(S) /\ Len(s) = k /\ DOMAIN s = 1..k /\ \A i \in 1..k : s[i] = t[i] /\ s[i] \in S
  BY <1>1, <1>3, <1>4
<1>6. ASSUME NEW q \in S
      PROVE  \/ q = s[1]
             \/ 2 \in DOMAIN s /\ s[1] \in before[q] /\ (q = s[2] \/ s[2] \in before[q])
  <2>1. PICK i \in 1..c : t[i] = q
    BY <1>1
  <2>2. CASE i = 1
    BY <1>1, <1>4, <1>5, <2>1, <2>2
  <2>3. CASE i # 1
    <3>1. 1 \in 1..k /\ 2 \in 1..k /\ 1 \in 1..c /\ 2 \in 1..c /\ 1 < i
      BY <1>1, <1>4, <2>1, <2>3
    <3>2. t[1] \in before[t[i]] /\ (i = 2 \/ t[2] \in before[t[i]])
      BY <1>1, <2>1, <3>1
    <3> QED BY <1>5, <2>1, <3>1, <3>2
  <2> QED BY <2>2, <2>3
<1>7. S # {} => 1 \in DOMAIN s
  BY <1>1, <1>4, <1>5
<1> QED BY <1>4, <1>5, <1>6, <1>7

-----------------------------------------------------------------------------
\* Versions that a ranking tells apart.
Rankable(S) == S \in SUBSET Matches /\ IsFiniteSet(S) /\ \A v, w \in S : v.id = w.id => v = w

LEMMA RankableSubset ==
  ASSUME NEW S, Rankable(S), NEW T \in SUBSET S
  PROVE  Rankable(T)
<1>1. IsFiniteSet(T)
  BY FS_Subset DEF Rankable
<1> QED BY <1>1 DEF Rankable

LEMMA HitsRankable ==
  ASSUME NEW versions, Rankable(versions), NEW op
  PROVE  /\ Eligible(versions, op) \in SUBSET versions
         /\ LexicalHits(versions, op) \in SUBSET Eligible(versions, op) /\ Rankable(LexicalHits(versions, op))
         /\ DenseHits(versions, op) \in SUBSET Eligible(versions, op) /\ Rankable(DenseHits(versions, op))
<1>1. /\ Eligible(versions, op) \in SUBSET versions
      /\ LexicalHits(versions, op) \in SUBSET Eligible(versions, op)
      /\ DenseHits(versions, op) \in SUBSET Eligible(versions, op)
  BY DEF Eligible, LexicalHits, DenseHits
<1> QED BY <1>1, RankableSubset

LEMMA LexicalOrders ==
  ASSUME NEW S, Rankable(S), NEW before, before = [v \in S |-> {w \in S : LexicalBefore(w, v)}]
  PROVE  /\ Orders(before, S)
         /\ \A v, w \in S : w \in before[v] => w.bm25 >= v.bm25
<1>1. \A v, w \in S : w \in before[v] <=> LexicalBefore(w, v)
  OBVIOUS
<1>2. \A v \in S : v.id \in Nat /\ v.bm25 \in Nat
  BY DEF Rankable, Matches
<1>3. \A v, w \in S : v # w => v.id # w.id
  BY DEF Rankable
<1>4. \A a, b \in S : a # b => LexicalBefore(a, b) \/ LexicalBefore(b, a)
  BY <1>2, <1>3 DEF LexicalBefore
<1>5. \A a \in S : ~LexicalBefore(a, a)
  BY <1>2 DEF LexicalBefore
<1>6. \A a, b, c \in S : LexicalBefore(a, b) /\ LexicalBefore(b, c) => LexicalBefore(a, c)
  BY <1>2 DEF LexicalBefore
<1>7. \A v, w \in S : w \in before[v] => w.bm25 >= v.bm25
  BY <1>1, <1>2 DEF LexicalBefore
<1>8. DOMAIN before = S /\ \A a \in S : before[a] \in SUBSET S
  OBVIOUS
<1>9. \A a, b, c \in S : a \in before[b] /\ b \in before[c] => a \in before[c]
  BY <1>1, <1>6
<1>10. \A a, b \in S : a # b => a \in before[b] \/ b \in before[a]
  BY <1>1, <1>4
<1>11. \A a \in S : a \notin before[a]
  BY <1>1, <1>5
<1> QED BY <1>7, <1>8, <1>9, <1>10, <1>11 DEF Orders

LEMMA DenseOrders ==
  ASSUME NEW S, Rankable(S), NEW before, before = [v \in S |-> {w \in S : DenseBefore(w, v)}]
  PROVE  /\ Orders(before, S)
         /\ \A v, w \in S : w \in before[v] => w.similarity >= v.similarity
<1>1. \A v, w \in S : w \in before[v] <=> DenseBefore(w, v)
  OBVIOUS
<1>2. \A v \in S : v.id \in Nat /\ v.similarity \in Int
  BY DEF Rankable, Matches
<1>3. \A v, w \in S : v # w => v.id # w.id
  BY DEF Rankable
<1>4. \A a, b \in S : a # b => DenseBefore(a, b) \/ DenseBefore(b, a)
  BY <1>2, <1>3 DEF DenseBefore
<1>5. \A a \in S : ~DenseBefore(a, a)
  BY <1>2 DEF DenseBefore
<1>6. \A a, b, c \in S : DenseBefore(a, b) /\ DenseBefore(b, c) => DenseBefore(a, c)
  BY <1>2 DEF DenseBefore
<1>7. \A v, w \in S : w \in before[v] => w.similarity >= v.similarity
  BY <1>1, <1>2 DEF DenseBefore
<1>8. DOMAIN before = S /\ \A a \in S : before[a] \in SUBSET S
  OBVIOUS
<1>9. \A a, b, c \in S : a \in before[b] /\ b \in before[c] => a \in before[c]
  BY <1>1, <1>6
<1>10. \A a, b \in S : a # b => a \in before[b] \/ b \in before[a]
  BY <1>1, <1>4
<1>11. \A a \in S : a \notin before[a]
  BY <1>1, <1>5
<1> QED BY <1>7, <1>8, <1>9, <1>10, <1>11 DEF Orders

\* The second entry of a ranking stands for every rival of the first.
Ranking(s, S) ==
  /\ s \in Seq(S) /\ DOMAIN s = 1..Len(s)
  /\ \A i \in DOMAIN s : s[i] \in S
  /\ S # {} => 1 \in DOMAIN s

LEMMA LexicalIs ==
  ASSUME NEW versions, Rankable(versions), NEW op, NEW limit \in Nat,
         NEW lexical, lexical = LexicalResults(versions, op, limit)
  PROVE  /\ Ranking(lexical, LexicalHits(versions, op))
         /\ \A q \in LexicalHits(versions, op) :
              q = lexical[1] \/ (2 \in DOMAIN lexical /\ lexical[2].bm25 >= q.bm25)
<1> DEFINE S == LexicalHits(versions, op)
           before == [v \in S |-> {w \in S : LexicalBefore(w, v)}]
           n == RankingLimit(limit)
<1>1. Rankable(S) /\ IsFiniteSet(S)
  BY HitsRankable DEF Rankable
<1>2. Orders(before, S) /\ \A v, w \in S : w \in before[v] => w.bm25 >= v.bm25
  BY <1>1, LexicalOrders
<1>3. n \in Nat /\ n >= 2
  BY DEF RankingLimit
<1>4. lexical = TakeFirst(InOrder(before), n)
  BY DEF LexicalResults
<1>5. \A v \in S : v.bm25 \in Nat
  BY <1>1 DEF Rankable, Matches
<1> HIDE DEF S, before, n
<1>6. /\ lexical \in Seq(S) /\ Len(lexical) \in Nat /\ DOMAIN lexical = 1..Len(lexical)
      /\ \A i \in 1..Len(lexical) : lexical[i] \in S
      /\ S # {} => 1 \in DOMAIN lexical
      /\ \A q \in S : \/ q = lexical[1]
                      \/ /\ 2 \in DOMAIN lexical /\ lexical[1] \in before[q]
                         /\ (q = lexical[2] \/ lexical[2] \in before[q])
  BY <1>1, <1>2, <1>3, <1>4, HeadLeads
<1>7. \A q \in S : q = lexical[1] \/ (2 \in DOMAIN lexical /\ lexical[2].bm25 >= q.bm25)
  BY <1>2, <1>5, <1>6
<1> QED BY <1>6, <1>7 DEF S, Ranking

LEMMA DenseIs ==
  ASSUME NEW versions, Rankable(versions), NEW op, NEW limit \in Nat,
         NEW dense, dense = DenseResults(versions, op, limit)
  PROVE  /\ Ranking(dense, DenseHits(versions, op))
         /\ \A q \in DenseHits(versions, op) :
              \/ q = dense[1]
              \/ 2 \in DOMAIN dense /\ dense[2].similarity >= q.similarity /\ dense[1].similarity >= q.similarity
<1> DEFINE S == DenseHits(versions, op)
           before == [v \in S |-> {w \in S : DenseBefore(w, v)}]
           n == RankingLimit(limit)
<1>1. Rankable(S) /\ IsFiniteSet(S)
  BY HitsRankable DEF Rankable
<1>2. Orders(before, S) /\ \A v, w \in S : w \in before[v] => w.similarity >= v.similarity
  BY <1>1, DenseOrders
<1>3. n \in Nat /\ n >= 2
  BY DEF RankingLimit
<1>4. dense = TakeFirst(InOrder(before), n)
  BY DEF DenseResults
<1>5. \A v \in S : v.similarity \in Int
  BY <1>1 DEF Rankable, Matches
<1> HIDE DEF S, before, n
<1>6. /\ dense \in Seq(S) /\ Len(dense) \in Nat /\ DOMAIN dense = 1..Len(dense)
      /\ \A i \in 1..Len(dense) : dense[i] \in S
      /\ S # {} => 1 \in DOMAIN dense
      /\ \A q \in S : \/ q = dense[1]
                      \/ /\ 2 \in DOMAIN dense /\ dense[1] \in before[q]
                         /\ (q = dense[2] \/ dense[2] \in before[q])
  BY <1>1, <1>2, <1>3, <1>4, HeadLeads
<1>7. \A q \in S : \/ q = dense[1]
                   \/ 2 \in DOMAIN dense /\ dense[2].similarity >= q.similarity /\ dense[1].similarity >= q.similarity
  BY <1>2, <1>5, <1>6
<1> QED BY <1>6, <1>7 DEF S, Ranking

-----------------------------------------------------------------------------
(* The fusion.  Fused scores are fractions compared without division.      *)

LEMMA Scaled ==
  ASSUME NEW x \in Nat, NEW y \in Nat, NEW z \in Nat, z > 0
  PROVE  x <= y <=> x * z <= y * z
<1>1. CASE x <= y
  <2>1. y - x \in Nat /\ (y - x) * z \in Nat /\ (y - x) * z = y * z - x * z
    BY <1>1
  <2> QED BY <1>1, <2>1
<1>2. CASE ~(x <= y)
  <2>1. x - y \in Nat /\ x - y >= 1
    BY <1>2
  <2>2. (x - y) * z = x * z - y * z /\ (x - y) * z > 0
    BY <2>1
  <2> QED BY <1>2, <2>2
<1> QED BY <1>1, <1>2

\* What is at most a fraction is at most every fraction above it.
LEMMA Fractions ==
  ASSUME NEW p \in Nat, NEW q \in Nat, NEW r \in Nat, NEW s \in Nat, NEW t \in Nat, NEW u \in Nat,
         q > 0, s > 0, u > 0, r * q <= p * s, t * s <= r * u
  PROVE  t * q <= p * u
<1>1. (t * s) * q <= (r * u) * q
  BY Scaled
<1>2. (r * q) * u <= (p * s) * u
  BY Scaled
<1>3. (t * q) * s <= (p * u) * s
  BY <1>1, <1>2
<1>4. t * q \in Nat /\ p * u \in Nat
  OBVIOUS
<1> QED BY <1>3, <1>4, Scaled

Fraction(f) == f[1] \in Nat /\ f[2] \in Nat /\ f[2] > 0

LEMMA ExceedsOrders ==
  ASSUME NEW f, NEW g, NEW h, Fraction(f), Fraction(g), Fraction(h)
  PROVE  /\ ~Exceeds(f, f)
         /\ Exceeds(f, g) => ~Exceeds(g, f)
         /\ ~Exceeds(g, f) /\ ~Exceeds(h, g) => ~Exceeds(h, f)
<1> DEFINE p == f[1]
           q == f[2]
           r == g[1]
           s == g[2]
           t == h[1]
           u == h[2]
<1>1. p \in Nat /\ q \in Nat /\ r \in Nat /\ s \in Nat /\ t \in Nat /\ u \in Nat /\ q > 0 /\ s > 0 /\ u > 0
  BY DEF Fraction
<1>2. /\ Exceeds(f, g) <=> p * s > r * q
      /\ Exceeds(g, f) <=> r * q > p * s
      /\ Exceeds(h, g) <=> t * s > r * u
      /\ Exceeds(h, f) <=> t * q > p * u
      /\ Exceeds(f, f) <=> p * q > p * q
  BY DEF Exceeds
<1> HIDE DEF p, q, r, s, t, u
<1>3. p * s \in Nat /\ r * q \in Nat /\ t * s \in Nat /\ r * u \in Nat /\ t * q \in Nat /\ p * u \in Nat /\ p * q \in Nat
  BY <1>1
<1>4. ASSUME ~Exceeds(g, f), ~Exceeds(h, g) PROVE ~Exceeds(h, f)
  <2>1. r * q <= p * s /\ t * s <= r * u
    BY <1>2, <1>3, <1>4
  <2>2. t * q <= p * u
    BY <1>1, <2>1, Fractions
  <2> QED BY <1>2, <1>3, <2>2
<1>5. ~Exceeds(f, f) /\ (Exceeds(f, g) => ~Exceeds(g, f))
  BY <1>2, <1>3
<1> QED BY <1>4, <1>5

\* What the fusion compares.
Scored(a) ==
  /\ a.v.exact \in BOOLEAN /\ a.v.id \in Nat /\ a.semantic \in Int /\ a.lexical \in Nat
  /\ Fraction(a.fused)

LEMMA PrecedesOrders ==
  ASSUME NEW a, NEW b, NEW c, Scored(a), Scored(b), Scored(c)
  PROVE  /\ ~Precedes(a, a)
         /\ a.v.id # b.v.id => Precedes(a, b) \/ Precedes(b, a)
         /\ Precedes(a, b) /\ Precedes(b, c) => Precedes(a, c)
<1> DEFINE F == Exceeds(a.fused, b.fused)
           G == Exceeds(b.fused, a.fused)
           H == Exceeds(b.fused, c.fused)
           I == Exceeds(c.fused, b.fused)
           J == Exceeds(a.fused, c.fused)
           K == Exceeds(c.fused, a.fused)
<1>1. /\ ~Exceeds(a.fused, a.fused) /\ ~(F /\ G) /\ ~(H /\ I) /\ ~(J /\ K)
      /\ ~G /\ ~I => ~K
      /\ ~F /\ ~H => ~J
      /\ ~K /\ ~H => ~G
      /\ ~J /\ ~I => ~F
      /\ ~F /\ ~K => ~I
      /\ ~G /\ ~J => ~H
  BY ExceedsOrders DEF Scored
<1> DEFINE Below(x, y) ==
             IF x.semantic # y.semantic THEN x.semantic > y.semantic
             ELSE IF x.lexical # y.lexical THEN x.lexical > y.lexical
             ELSE x.v.id < y.v.id
<1>2. /\ a.semantic \in Int /\ b.semantic \in Int /\ c.semantic \in Int
      /\ a.lexical \in Int /\ b.lexical \in Int /\ c.lexical \in Int
      /\ a.v.id \in Int /\ b.v.id \in Int /\ c.v.id \in Int
      /\ a.v.exact \in BOOLEAN /\ b.v.exact \in BOOLEAN /\ c.v.exact \in BOOLEAN
  BY DEF Scored
<1>3. /\ ~Below(a, a)
      /\ a.v.id # b.v.id => Below(a, b) \/ Below(b, a)
      /\ Below(a, b) /\ Below(b, c) => Below(a, c)
  BY <1>2
<1>4. /\ Precedes(a, b) = (IF a.v.exact # b.v.exact THEN a.v.exact ELSE IF F \/ G THEN F ELSE Below(a, b))
      /\ Precedes(b, a) = (IF b.v.exact # a.v.exact THEN b.v.exact ELSE IF G \/ F THEN G ELSE Below(b, a))
      /\ Precedes(b, c) = (IF b.v.exact # c.v.exact THEN b.v.exact ELSE IF H \/ I THEN H ELSE Below(b, c))
      /\ Precedes(a, c) = (IF a.v.exact # c.v.exact THEN a.v.exact ELSE IF J \/ K THEN J ELSE Below(a, c))
      /\ Precedes(a, a) = (IF Exceeds(a.fused, a.fused) THEN TRUE ELSE Below(a, a))
  BY DEF Precedes
<1> HIDE DEF F, G, H, I, J, K, Below
<1>5. ~Precedes(a, a)
  BY <1>1, <1>3, <1>4
<1>6. a.v.id # b.v.id => Precedes(a, b) \/ Precedes(b, a)
  BY <1>1, <1>2, <1>3, <1>4
<1>7. ASSUME Precedes(a, b), Precedes(b, c) PROVE Precedes(a, c)
  BY <1>1, <1>2, <1>3, <1>4, <1>7
<1> QED BY <1>5, <1>6, <1>7

LEMMA RankIs ==
  ASSUME NEW s, NEW S, Ranking(s, S), NEW v
  PROVE  /\ Rank(s, v) \in Nat
         /\ Rank(s, v) # 0 => Rank(s, v) \in DOMAIN s /\ s[Rank(s, v)] = v
         /\ \A i \in DOMAIN s : s[i] = v => Rank(s, v) # 0
<1>1. \A i \in DOMAIN s : i \in Nat /\ i # 0
  BY DEF Ranking
<1>2. CASE \E i \in DOMAIN s : s[i] = v
  <2>1. Rank(s, v) \in DOMAIN s /\ s[Rank(s, v)] = v
    BY <1>2 DEF Rank
  <2> QED BY <1>1, <2>1
<1>3. CASE ~\E i \in DOMAIN s : s[i] = v
  BY <1>3 DEF Rank
<1> QED BY <1>2, <1>3

\* What one of the two rankings holds.
Found(lexical, dense, v) == (\E i \in DOMAIN lexical : lexical[i] = v) \/ (\E i \in DOMAIN dense : dense[i] = v)

LEMMA EntryIs ==
  ASSUME NEW lexical, NEW L, Ranking(lexical, L), NEW dense, NEW D, Ranking(dense, D),
         NEW v \in Matches, Found(lexical, dense, v)
  PROVE  Scored(Entry(lexical, dense, v)) /\ Entry(lexical, dense, v).v = v
<1> DEFINE l == Rank(lexical, v)
           m == Rank(dense, v)
           e == Entry(lexical, dense, v)
<1>1. l \in Nat /\ m \in Nat /\ (l # 0 \/ m # 0)
  BY RankIs DEF Found
<1>2. /\ e.v = v /\ e.fused = Fused(l, m)
      /\ e.semantic = (IF m = 0 THEN -100 ELSE v.similarity) /\ e.lexical = (IF l = 0 THEN 0 ELSE v.bm25)
  BY DEF Entry
<1>3. v.exact \in BOOLEAN /\ v.id \in Nat /\ v.similarity \in Int /\ v.bm25 \in Nat
  BY DEF Matches
<1> HIDE DEF l, m, e
<1>4. e.semantic \in Int /\ e.lexical \in Nat
  BY <1>2, <1>3
<1>5. RrfK \in Nat
  BY RetrievalAssumption DEF RetrievalAssumption
<1>6. Fraction(Fused(l, m))
  <2>1. CASE m = 0
    <3>1. Fused(l, m) = <<1, RrfK + l>> /\ RrfK + l \in Nat /\ RrfK + l > 0
      BY <1>1, <1>5, <2>1 DEF Fused
    <3> QED BY <3>1 DEF Fraction
  <2>2. CASE m # 0 /\ l = 0
    <3>1. Fused(l, m) = <<1, RrfK + m>> /\ RrfK + m \in Nat /\ RrfK + m > 0
      BY <1>1, <1>5, <2>2 DEF Fused
    <3> QED BY <3>1 DEF Fraction
  <2>3. CASE m # 0 /\ l # 0
    <3> DEFINE x == RrfK + l
               y == RrfK + m
    <3>1. Fused(l, m) = <<x + y, x * y>>
      BY <2>3 DEF Fused
    <3>2. x \in Nat /\ y \in Nat /\ x >= 1 /\ y >= 1
      BY <1>1, <1>5, <2>3
    <3> HIDE DEF x, y
    <3>3. x + y \in Nat /\ x * y \in Nat /\ x * y > 0
      BY <3>2
    <3> QED BY <3>1, <3>3 DEF Fraction
  <2> QED BY <2>1, <2>2, <2>3
<1>7. Scored(e)
  BY <1>2, <1>3, <1>4, <1>6 DEF Scored
<1> QED BY <1>2, <1>7 DEF e

LEMMA FusionIs ==
  ASSUME NEW T, Rankable(T), NEW lexical, NEW L \in SUBSET T, Ranking(lexical, L),
         NEW dense, NEW D \in SUBSET T, Ranking(dense, D), NEW fused, fused = Fusion(lexical, dense)
  PROVE  /\ Len(fused) \in Nat /\ DOMAIN fused = 1..Len(fused)
         /\ fused # <<>> => 1 \in DOMAIN fused
         /\ \A i \in DOMAIN fused : \E v \in T : Found(lexical, dense, v) /\ fused[i] = Entry(lexical, dense, v)
         /\ \A i, j \in DOMAIN fused : fused[i].v = fused[j].v => i = j
<1> DEFINE S == {lexical[i] : i \in DOMAIN lexical} \cup {dense[i] : i \in DOMAIN dense}
           E(v) == Entry(lexical, dense, v)
           before == [v \in S |-> {w \in S : Precedes(E(w), E(v))}]
           sequence == InOrder(before)
           n == Cardinality(S)
<1>1. \A v : v \in S <=> Found(lexical, dense, v)
  BY DEF Found
<1>2. S \in SUBSET T
  BY <1>1 DEF Found, Ranking
<1>3. Rankable(S)
  BY <1>2, RankableSubset
<1>4. \A v \in S : Scored(E(v)) /\ E(v).v = v
  BY <1>1, <1>3, EntryIs DEF Rankable
<1>5. \A v, w \in S : w \in before[v] <=> Precedes(E(w), E(v))
  OBVIOUS
<1>6. DOMAIN before = S /\ \A a \in S : before[a] \in SUBSET S
  OBVIOUS
<1>7. fused = [i \in DOMAIN sequence |-> E(sequence[i])]
  BY DEF Fusion
<1> HIDE DEF S, E, before
<1>8. Orders(before, S)
  <2>1. \A a \in S : a \notin before[a]
    BY <1>4, <1>5, PrecedesOrders
  <2>2. \A a, b \in S : a # b => a \in before[b] \/ b \in before[a]
    <3> SUFFICES ASSUME NEW a \in S, NEW b \in S, a # b PROVE a \in before[b] \/ b \in before[a]
      OBVIOUS
    <3>1. E(a).v.id # E(b).v.id
      BY <1>3, <1>4 DEF Rankable
    <3>2. Precedes(E(a), E(b)) \/ Precedes(E(b), E(a))
      BY <1>4, <3>1, PrecedesOrders
    <3> QED BY <1>5, <3>2
  <2>3. \A a, b, c \in S : a \in before[b] /\ b \in before[c] => a \in before[c]
    <3> SUFFICES ASSUME NEW a \in S, NEW b \in S, NEW c \in S, a \in before[b], b \in before[c]
                 PROVE  a \in before[c]
      OBVIOUS
    <3>1. Precedes(E(a), E(b)) /\ Precedes(E(b), E(c))
      BY <1>5
    <3>2. Precedes(E(a), E(c))
      BY <1>4, <3>1, PrecedesOrders
    <3> QED BY <1>5, <3>2
  <2> QED BY <1>6, <2>1, <2>2, <2>3 DEF Orders
<1>9. /\ n \in Nat /\ DOMAIN sequence = 1..n
      /\ \A i \in 1..n : sequence[i] \in S
      /\ \A i, j \in 1..n : i < j => sequence[i] \in before[sequence[j]]
  BY <1>3, <1>8, InOrderIs DEF Rankable
<1> HIDE DEF sequence, n
<1>10. \A i, j \in 1..n : sequence[i] = sequence[j] => i = j
  <2> SUFFICES ASSUME NEW i \in 1..n, NEW j \in 1..n, sequence[i] = sequence[j], i < j PROVE FALSE
    BY <1>9
  <2> QED BY <1>8, <1>9 DEF Orders
<1>11. DOMAIN fused = 1..n /\ \A i \in 1..n : fused[i] = E(sequence[i])
  BY <1>7, <1>9
<1>12. fused \in Seq({E(v) : v \in S}) /\ Len(fused) = n
  BY <1>7, <1>9
<1>13. fused # <<>> => 1 \in DOMAIN fused
  BY <1>9, <1>11, <1>12
<1>14. ASSUME NEW i \in DOMAIN fused
       PROVE  \E v \in T : Found(lexical, dense, v) /\ fused[i] = Entry(lexical, dense, v)
  BY <1>1, <1>2, <1>9, <1>11 DEF E
<1>15. \A i, j \in DOMAIN fused : fused[i].v = fused[j].v => i = j
  BY <1>4, <1>9, <1>10, <1>11
<1> QED BY <1>9, <1>11, <1>12, <1>13, <1>14, <1>15

-----------------------------------------------------------------------------
(* What is accepted.                                                       *)

\* An operation whose threshold no missing vector reaches.
Calibration(op) == op.threshold \in Int /\ op.margin \in Int /\ op.threshold >= NoVector + op.margin

WordsClear(p, versions, op) ==
  /\ p.overlap >= MinimumOverlap /\ p.bm25 > 0
  /\ \A q \in Eligible(versions, op) \ {p} : 100 * (p.bm25 - q.bm25) >= RelativeMargin * p.bm25
VectorLeads(p, versions, op, margin) ==
  /\ p.similarity >= op.threshold /\ DenseKindAllowed(p, op)
  /\ \A q \in Eligible(versions, op) \ {p} : DenseKindAllowed(q, op) => p.similarity >= q.similarity + margin

\* A lexical winner stands clear of every eligible rival, also of those without a hit.
LEMMA LexicalWinner ==
  ASSUME NEW versions, Rankable(versions), NEW op, NEW limit \in Nat,
         NEW lexical, lexical = LexicalResults(versions, op, limit),
         NEW first, first.v \in versions, first.lexicalRank = Rank(lexical, first.v),
         LexicalAccepted(first, lexical), ~first.v.exact
  PROVE  WordsClear(first.v, versions, op)
<1> DEFINE S == LexicalHits(versions, op)
           p == first.v
<1>1. /\ Ranking(lexical, S)
      /\ \A q \in S : q = lexical[1] \/ (2 \in DOMAIN lexical /\ lexical[2].bm25 >= q.bm25)
  BY LexicalIs
<1>2. p = lexical[1] /\ 1 \in DOMAIN lexical /\ p \in S
  <2>1. Rank(lexical, p) = 1
    BY DEF LexicalAccepted
  <2>2. Rank(lexical, p) # 0 => Rank(lexical, p) \in DOMAIN lexical /\ lexical[Rank(lexical, p)] = p
    BY <1>1, RankIs
  <2>3. 1 \in DOMAIN lexical /\ lexical[1] = p
    BY <2>1, <2>2
  <2> QED BY <1>1, <2>3 DEF Ranking
<1>3. \A q \in versions : q.bm25 \in Nat /\ q.overlap \in Nat
  BY DEF Rankable, Matches
<1>4. p.bm25 > 0 /\ p.overlap >= MinimumOverlap
  BY <1>2 DEF LexicalAccepted, LexicalHits
<1>5. RelativeMargin \in 0..100
  BY RetrievalAssumption DEF RetrievalAssumption
<1>6. ASSUME NEW q \in Eligible(versions, op), q # p
      PROVE  100 * (p.bm25 - q.bm25) >= RelativeMargin * p.bm25
  <2>1. q.bm25 \in Nat /\ p.bm25 \in Nat
    BY <1>3, HitsRankable
  <2> DEFINE x == p.bm25
             y == q.bm25
             m == RelativeMargin
  <2>2. CASE q \in S
    <3>1. 2 \in DOMAIN lexical /\ lexical[2].bm25 >= q.bm25 /\ lexical[2] \in S
      BY <1>1, <1>2, <1>6, <2>2 DEF Ranking
    <3>2. Len(lexical) # 1
      BY <1>1, <3>1 DEF Ranking
    <3>3. 100 * (lexical[1].bm25 - lexical[2].bm25) >= RelativeMargin * lexical[1].bm25
      BY <3>2 DEF LexicalAccepted
    <3> DEFINE z == lexical[2].bm25
    <3>4. z \in Nat /\ z >= y
      BY <1>3, <3>1, HitsRankable
    <3>5. 100 * (x - z) >= m * x
      BY <1>2, <3>3
    <3> HIDE DEF x, y, z, m
    <3>6. m * x \in Int
      BY <1>5, <2>1 DEF m, x
    <3>7. 100 * (x - y) >= m * x
      BY <2>1, <3>4, <3>5, <3>6 DEF x, y
    <3> QED BY <3>7 DEF x, y, m
  <2>3. CASE q \notin S
    <3>1. y = 0
      BY <2>1, <2>3 DEF LexicalHits
    <3> HIDE DEF x, y, m
    <3>2. x \in Nat /\ m \in 0..100
      BY <1>5, <2>1 DEF x, m
    <3>3. (100 - m) * x >= 0 /\ (100 - m) * x = 100 * x - m * x
      BY <3>2
    <3>4. m * x \in Int
      BY <3>2
    <3>5. 100 * (x - y) >= m * x
      BY <3>1, <3>2, <3>3, <3>4
    <3> QED BY <3>5 DEF x, y, m
  <2> QED BY <2>2, <2>3
<1> QED BY <1>4, <1>6 DEF WordsClear

\* A dense winner leads every rival that may be compared, by the margin when it is accepted for it.
LEMMA DenseWinner ==
  ASSUME NEW versions, Rankable(versions), NEW op, Calibration(op), op.margin >= 0, NEW limit \in Nat,
         NEW dense, dense = DenseResults(versions, op, limit),
         NEW first, first.v \in versions, first.semanticRank = Rank(dense, first.v),
         DenseThresholdMet(first, op)
  PROVE  /\ VectorLeads(first.v, versions, op, 0)
         /\ DenseAccepted(first, dense, op) /\ ~first.v.exact => VectorLeads(first.v, versions, op, op.margin)
<1> DEFINE S == DenseHits(versions, op)
           p == first.v
<1>1. /\ Ranking(dense, S)
      /\ \A q \in S : \/ q = dense[1]
                      \/ 2 \in DOMAIN dense /\ dense[2].similarity >= q.similarity /\ dense[1].similarity >= q.similarity
  BY DenseIs
<1>2. p = dense[1] /\ 1 \in DOMAIN dense /\ p \in S
  <2>1. Rank(dense, p) = 1
    BY DEF DenseThresholdMet
  <2>2. Rank(dense, p) # 0 => Rank(dense, p) \in DOMAIN dense /\ dense[Rank(dense, p)] = p
    BY <1>1, RankIs
  <2>3. 1 \in DOMAIN dense /\ dense[1] = p
    BY <2>1, <2>2
  <2> QED BY <1>1, <2>3 DEF Ranking
<1>3. \A q \in versions : q.similarity \in Int
  BY DEF Rankable, Matches
<1>4. p.similarity >= op.threshold /\ DenseKindAllowed(p, op)
  BY <1>2 DEF DenseThresholdMet, DenseHits
<1>5. ASSUME NEW q \in Eligible(versions, op), q # p, DenseKindAllowed(q, op)
      PROVE  /\ p.similarity >= q.similarity
             /\ DenseAccepted(first, dense, op) /\ ~p.exact => p.similarity >= q.similarity + op.margin
  <2>1. q.similarity \in Int /\ p.similarity \in Int
    BY <1>3, HitsRankable
  <2>2. CASE q \in S
    <3>1. /\ 2 \in DOMAIN dense /\ dense[2].similarity >= q.similarity /\ dense[1].similarity >= q.similarity
          /\ dense[2] \in S
      BY <1>1, <1>2, <1>5, <2>2 DEF Ranking
    <3>2. Len(dense) # 1 /\ dense[2].similarity \in Int
      BY <1>1, <1>3, <3>1, HitsRankable DEF Ranking
    <3>3. DenseAccepted(first, dense, op) /\ ~p.exact => dense[1].similarity - dense[2].similarity >= op.margin
      BY <3>2 DEF DenseAccepted
    <3> QED BY <1>2, <2>1, <3>1, <3>2, <3>3 DEF Calibration
  <2>3. CASE q \notin S
    <3>1. op.queryVector
      BY <1>2 DEF DenseHits
    <3>2. q.similarity = NoVector
      BY <1>5, <2>3, <3>1 DEF DenseHits
    <3> QED BY <1>4, <2>1, <3>2 DEF Calibration, NoVector
  <2> QED BY <2>2, <2>3
<1>6. VectorLeads(p, versions, op, 0)
  BY <1>3, <1>4, <1>5, HitsRankable DEF VectorLeads
<1>7. DenseAccepted(first, dense, op) /\ ~p.exact => VectorLeads(p, versions, op, op.margin)
  BY <1>4, <1>5 DEF VectorLeads
<1> QED BY <1>6, <1>7

\* An eligible Version breaks no hard filter, and lacks its focus only where that is deferred.
LEMMA EligibleIs ==
  ASSUME NEW versions, Rankable(versions), NEW op, NEW p \in Eligible(versions, op)
  PROVE  /\ p \in versions /\ p.conflicts = {} /\ p.supported /\ (op.automatic => ~p.vetoed)
         /\ ~FocusDeferred(p, op) => p.focus
<1>1. p \in versions /\ ~HardRejected(p, op)
  BY DEF Eligible
<1>2. p.conflicts \in SUBSET HardFilters
  BY <1>1 DEF Rankable, Matches
<1>3. p.supported /\ (op.automatic => ~p.vetoed)
  BY <1>1 DEF HardRejected, TypeEvidenceRejected, AutomaticRejected
<1>4. Rejections(p) = {} \/ (FocusDeferred(p, op) /\ Rejections(p) = {"automatic_focus_not_matched"})
  BY <1>1 DEF HardRejected, FocusDeferred
<1>5. p.conflicts \in SUBSET Rejections(p)
  BY DEF Rejections
<1>6. "automatic_focus_not_matched" \notin p.conflicts
  BY <1>2 DEF HardFilters
<1>7. p.conflicts = {}
  BY <1>4, <1>5, <1>6
<1>8. ~FocusDeferred(p, op) => p.focus
  BY <1>4 DEF Rejections
<1> QED BY <1>1, <1>3, <1>7, <1>8

ClearlyFirst(p, versions, op) ==
  \/ p.exact
  \/ p.focus /\ WordsClear(p, versions, op)
  \/ VectorLeads(p, versions, op, op.margin)
  \/ VectorLeads(p, versions, op, 0) /\ WordsClear(p, versions, op)

\* The first of the fusion, as both rankings and every gate see it.
LEMMA FirstIs ==
  ASSUME NEW versions, Rankable(versions), NEW op, NEW limit \in Nat,
         NEW lexical, lexical = LexicalResults(versions, op, limit),
         NEW dense, dense = DenseResults(versions, op, limit),
         NEW fused, fused = Fusion(lexical, dense)
  PROVE  /\ Len(fused) \in Nat /\ DOMAIN fused = 1..Len(fused)
         /\ fused # <<>> => 1 \in DOMAIN fused
         /\ \A i \in DOMAIN fused : /\ fused[i].v \in Eligible(versions, op)
                                    /\ fused[i] = Entry(lexical, dense, fused[i].v)
         /\ \A i, j \in DOMAIN fused : fused[i].v.id = fused[j].v.id => i = j
<1> DEFINE L == LexicalHits(versions, op)
           D == DenseHits(versions, op)
           T == Eligible(versions, op)
<1>1. Ranking(lexical, L) /\ Ranking(dense, D)
  BY LexicalIs, DenseIs
<1>2. L \in SUBSET T /\ D \in SUBSET T /\ T \in SUBSET versions
  BY HitsRankable
<1>3. Rankable(T)
  BY <1>2, RankableSubset
<1> HIDE DEF L, D, T
<1>4. /\ Len(fused) \in Nat /\ DOMAIN fused = 1..Len(fused)
      /\ fused # <<>> => 1 \in DOMAIN fused
      /\ \A i \in DOMAIN fused : \E v \in T : Found(lexical, dense, v) /\ fused[i] = Entry(lexical, dense, v)
      /\ \A i, j \in DOMAIN fused : fused[i].v = fused[j].v => i = j
  BY <1>1, <1>2, <1>3, FusionIs
<1>5. \A v : Entry(lexical, dense, v).v = v
  BY DEF Entry
<1>6. \A i \in DOMAIN fused : fused[i].v \in T /\ fused[i] = Entry(lexical, dense, fused[i].v)
  BY <1>4, <1>5
<1>7. \A i, j \in DOMAIN fused : fused[i].v.id = fused[j].v.id => i = j
  BY <1>3, <1>4, <1>6 DEF Rankable
<1> QED BY <1>4, <1>6, <1>7 DEF T

LEMMA AcceptedIsClear ==
  ASSUME NEW versions, Rankable(versions), NEW op, Calibration(op), op.margin >= 0, NEW limit \in Nat,
         NEW lexical, lexical = LexicalResults(versions, op, limit),
         NEW dense, dense = DenseResults(versions, op, limit),
         NEW first, first.v \in Eligible(versions, op), first = Entry(lexical, dense, first.v),
         Accepted(first, lexical, dense, op)
  PROVE  ClearlyFirst(first.v, versions, op)
<1> DEFINE p == first.v
<1>1. p \in versions /\ (~FocusDeferred(p, op) => p.focus)
  BY EligibleIs
<1>2. first.lexicalRank = Rank(lexical, p) /\ first.semanticRank = Rank(dense, p)
  BY DEF Entry
<1>3. LexicalAccepted(first, lexical) /\ ~p.exact => WordsClear(p, versions, op)
  BY <1>1, <1>2, LexicalWinner
<1>4. DenseThresholdMet(first, op) =>
        /\ VectorLeads(p, versions, op, 0)
        /\ DenseAccepted(first, dense, op) /\ ~p.exact => VectorLeads(p, versions, op, op.margin)
  BY <1>1, <1>2, DenseWinner
<1>5. DenseAccepted(first, dense, op) => DenseThresholdMet(first, op)
  BY DEF DenseAccepted
<1>6. FocusCorroborated(first, lexical, op) => DenseThresholdMet(first, op) /\ LexicalAccepted(first, lexical)
  BY DEF FocusCorroborated
<1> QED BY <1>1, <1>3, <1>4, <1>5, <1>6 DEF Accepted, ClearlyFirst

\* The rows that only explain name no primary and carry no vector.
LEMMA ExplanationsAre ==
  ASSUME NEW versions, IsFiniteSet(versions), NEW op, NEW shown,
         NEW rows, rows = Explanations(versions, op, shown)
  PROVE  /\ Len(rows) \in Nat /\ DOMAIN rows = 1..Len(rows) /\ rows \in Seq({rows[i] : i \in DOMAIN rows})
         /\ \A i \in DOMAIN rows : ~rows[i].selected /\ rows[i].semantic = NoVector
<1> DEFINE A == {v \in versions : HardRejected(v, op) /\ (v.bm25 > 0 \/ "exact_signal_conflict" \in v.conflicts)}
           B == {v \in versions : /\ ~HardRejected(v, op) /\ op.queryVector /\ ~DenseKindAllowed(v, op)
                                  /\ v \notin shown /\ v.bm25 > 0}
           byId(S) == InOrder([v \in S |-> {w \in S : w.id < v.id}])
           all == byId(A) \o byId(B)
<1>1. ASSUME NEW S \in SUBSET versions
      PROVE  /\ Cardinality(S) \in Nat /\ DOMAIN byId(S) = 1..Cardinality(S)
             /\ byId(S) \in Seq({byId(S)[i] : i \in DOMAIN byId(S)}) /\ Len(byId(S)) \in Nat
  <2>1. Cardinality(S) \in Nat
    BY FS_Subset, FS_CardinalityType
  <2> DEFINE before == [v \in S |-> {w \in S : w.id < v.id}]
             X(i) == CHOOSE a \in S : Cardinality(before[a]) = i - 1
             n == Cardinality(S)
             s == byId(S)
  <2>2. DOMAIN before = S
    OBVIOUS
  <2>3. s = [i \in 1..n |-> X(i)]
    BY <2>2 DEF InOrder
  <2> HIDE DEF before, X, n, s
  <2>4. n \in Nat /\ DOMAIN s = 1..n /\ s \in Seq({s[i] : i \in DOMAIN s}) /\ Len(s) \in Nat
    BY <2>1, <2>3 DEF n
  <2> QED BY <2>4 DEF n, s
<1>2. rows = [i \in DOMAIN all |-> Explained(all[i])]
  BY DEF Explanations
<1>3. A \in SUBSET versions /\ B \in SUBSET versions
  OBVIOUS
<1> DEFINE a == byId(A)
           b == byId(B)
<1>4. /\ a \in Seq({a[i] : i \in DOMAIN a}) /\ Len(a) \in Nat
      /\ b \in Seq({b[i] : i \in DOMAIN b}) /\ Len(b) \in Nat
  BY <1>1, <1>3
<1>5. all = a \o b
  OBVIOUS
<1> HIDE DEF A, B, byId, all, a, b
<1> DEFINE V == {a[i] : i \in DOMAIN a} \cup {b[i] : i \in DOMAIN b}
<1>6. a \in Seq(V) /\ b \in Seq(V)
  BY <1>4
<1>7. all \in Seq(V)
  BY <1>5, <1>6
<1> HIDE DEF V
<1>8. Len(all) \in Nat /\ DOMAIN all = 1..Len(all)
  BY <1>7
<1>9. DOMAIN rows = 1..Len(all) /\ \A i \in DOMAIN rows : ~rows[i].selected /\ rows[i].semantic = NoVector
  BY <1>2, <1>8 DEF Explained
<1>10. Len(rows) = Len(all) /\ rows \in Seq({rows[i] : i \in DOMAIN rows})
  BY <1>2, <1>8
<1> QED BY <1>8, <1>9, <1>10

\* What is recalled is eligible and clearly first.
LEMMA DecisionClear ==
  ASSUME NEW versions, Rankable(versions), NEW op, Calibration(op), op.margin >= 0, NEW limit \in Nat,
         NEW p \in versions, p.id = Decision(versions, op, limit).primary
  PROVE  p \in Eligible(versions, op) /\ ClearlyFirst(p, versions, op)
<1> DEFINE lexical == LexicalResults(versions, op, limit)
           dense == DenseResults(versions, op, limit)
           fused == Fusion(lexical, dense)
           accepted == fused # <<>> /\ Accepted(fused[1], lexical, dense, op)
<1>1. Decision(versions, op, limit).primary = IF accepted THEN fused[1].v.id ELSE 0
  BY DEF Decision
<1>2. p.id # 0
  BY DEF Rankable, Matches
<1>3. accepted /\ p.id = fused[1].v.id
  BY <1>1, <1>2
<1>4. /\ fused # <<>> => 1 \in DOMAIN fused
      /\ \A i \in DOMAIN fused : /\ fused[i].v \in Eligible(versions, op)
                                 /\ fused[i] = Entry(lexical, dense, fused[i].v)
  BY FirstIs
<1> DEFINE first == fused[1]
<1>5. first.v \in Eligible(versions, op) /\ first = Entry(lexical, dense, first.v)
  BY <1>3, <1>4
<1>6. Accepted(first, lexical, dense, op)
  BY <1>3
<1> HIDE DEF fused, first, accepted
<1>7. ClearlyFirst(first.v, versions, op)
  BY <1>5, <1>6, AcceptedIsClear
<1>8. first.v = p
  BY <1>3, <1>5, HitsRankable DEF Rankable, first
<1> QED BY <1>5, <1>7, <1>8

\* The stored rows: the primary is the first of them and the only one selected, none is selected
\* without a primary, and an abstention has a reason.
LEMMA DecisionStored ==
  ASSUME NEW versions, Rankable(versions), NEW op, NEW limit \in Nat \ {0},
         NEW d, d = Decision(versions, op, limit)
  PROVE  /\ ~op.queryVector => \A i \in DOMAIN d.candidates : d.candidates[i].semantic = NoVector
         /\ d.primary = 0 => d.reasons # {} /\ \A i \in DOMAIN d.candidates : ~d.candidates[i].selected
         /\ d.primary # 0 =>
              /\ d.reasons = {}
              /\ 1 \in DOMAIN d.candidates
              /\ \A i \in DOMAIN d.candidates : d.candidates[i].selected <=> i = 1
              /\ d.candidates[1].v.id = d.primary /\ ~d.candidates[1].rejected
<1> DEFINE lexical == LexicalResults(versions, op, limit)
           dense == DenseResults(versions, op, limit)
           fused == Fusion(lexical, dense)
           accepted == fused # <<>> /\ Accepted(fused[1], lexical, dense, op)
           primary == IF accepted THEN fused[1].v.id ELSE 0
           k == IF Len(fused) < limit THEN Len(fused) ELSE limit
           shown == [i \in DOMAIN TakeFirst(fused, limit) |-> Candidate(fused[i], primary, op)]
           rows == Explanations(versions, op, {shown[i].v : i \in DOMAIN shown})
           all == shown \o rows
<1>1. /\ d.primary = primary
      /\ d.candidates = TakeFirst(all, limit)
      /\ d.reasons = IF accepted THEN {} ELSE AbstentionReasons(fused, lexical, dense, versions, op)
  BY DEF Decision
<1>2. /\ Len(fused) \in Nat /\ DOMAIN fused = 1..Len(fused)
      /\ fused # <<>> => 1 \in DOMAIN fused
      /\ \A i \in DOMAIN fused : /\ fused[i].v \in Eligible(versions, op)
                                 /\ fused[i] = Entry(lexical, dense, fused[i].v)
      /\ \A i, j \in DOMAIN fused : fused[i].v.id = fused[j].v.id => i = j
  BY FirstIs
<1>3. /\ Len(rows) \in Nat /\ DOMAIN rows = 1..Len(rows) /\ rows \in Seq({rows[i] : i \in DOMAIN rows})
      /\ \A i \in DOMAIN rows : ~rows[i].selected /\ rows[i].semantic = NoVector
  <2> DEFINE X == {shown[i].v : i \in DOMAIN shown}
  <2>1. IsFiniteSet(versions)
    BY DEF Rankable
  <2>2. rows = Explanations(versions, op, X)
    OBVIOUS
  <2> HIDE DEF rows, X
  <2> QED BY <2>1, <2>2, ExplanationsAre
<1>4. \A i \in DOMAIN fused : fused[i].v.id # 0
  BY <1>2, HitsRankable DEF Rankable, Matches
<1>5. ~op.queryVector => \A v : Rank(dense, v) = 0
  <2> SUFFICES ASSUME ~op.queryVector, NEW v PROVE Rank(dense, v) = 0
    OBVIOUS
  <2>1. Ranking(dense, DenseHits(versions, op))
    BY DenseIs
  <2>2. DenseHits(versions, op) = {}
    BY DEF DenseHits
  <2>3. DOMAIN dense = {}
    BY <2>1, <2>2 DEF Ranking
  <2> QED BY <2>3 DEF Rank
<1>6. \A i \in DOMAIN fused : fused[i].semanticRank = Rank(dense, fused[i].v)
  BY <1>2 DEF Entry
<1>7. accepted \in BOOLEAN /\ (accepted => 1 \in DOMAIN fused /\ primary = fused[1].v.id /\ primary # 0)
      /\ (~accepted => primary = 0)
  BY <1>2, <1>4
<1>8. ~accepted => AbstentionReasons(fused, lexical, dense, versions, op) # {}
  <2>1. CASE fused = <<>>
    BY <2>1 DEF AbstentionReasons
  <2>2. CASE fused # <<>> /\ ~Accepted(fused[1], lexical, dense, op)
    <3>1. ~(DenseAccepted(fused[1], dense, op) \/ FocusCorroborated(fused[1], lexical, op))
      BY <2>2 DEF Accepted
    <3> QED BY <2>2, <3>1 DEF AbstentionReasons
  <2> QED BY <2>1, <2>2
<1>9. DOMAIN TakeFirst(fused, limit) = 1..k
  BY DEF TakeFirst
<1> HIDE DEF lexical, dense, fused, accepted, primary
<1>10. k \in Nat /\ k <= limit /\ 1..k \in SUBSET DOMAIN fused /\ (1 \in DOMAIN fused => k >= 1)
  BY <1>2
<1>11. DOMAIN shown = 1..k /\ \A i \in 1..k : shown[i] = Candidate(fused[i], primary, op)
  BY <1>9
<1> HIDE DEF k
<1>12. ASSUME NEW i \in 1..k
       PROVE  /\ shown[i].selected <=> fused[i].v.id = primary
              /\ shown[i].v = fused[i].v
              /\ fused[i].v.id = primary => ~shown[i].rejected
              /\ ~op.queryVector => shown[i].semantic = NoVector
  <2>1. shown[i] = Candidate(fused[i], primary, op)
    BY <1>11
  <2>2. ~op.queryVector => fused[i].semanticRank = 0
    BY <1>5, <1>6, <1>10
  <2> DEFINE e == fused[i]
  <2> HIDE DEF e
  <2>3. /\ Candidate(e, primary, op).v = e.v
        /\ Candidate(e, primary, op).selected = (e.v.id = primary)
        /\ e.semanticRank = 0 => Candidate(e, primary, op).semantic = NoVector
    BY DEF Candidate
  <2>4. e.v.id = primary => Candidate(e, primary, op).rejected = FALSE
    BY DEF Candidate
  <2>5. shown[i] = Candidate(e, primary, op) /\ fused[i] = e
    BY <2>1 DEF e
  <2> HIDE DEF shown
  <2> QED BY <2>2, <2>3, <2>4, <2>5
<1>13. shown \in Seq({shown[i] : i \in DOMAIN shown}) /\ Len(shown) = k
  BY <1>9, <1>10, <1>11
<1> HIDE DEF shown, rows
<1> DEFINE V == {shown[i] : i \in DOMAIN shown} \cup {rows[i] : i \in DOMAIN rows}
<1>14. shown \in Seq(V) /\ rows \in Seq(V)
  BY <1>3, <1>13
<1>15. /\ all \in Seq(V) /\ Len(all) = k + Len(rows) /\ Len(all) \in Nat
       /\ \A i \in 1..k : all[i] = shown[i]
       /\ \A i \in 1..Len(all) : i > k => i - k \in DOMAIN rows /\ all[i] = rows[i - k]
  <2> HIDE DEF V
  <2>1. all = shown \o rows
    OBVIOUS
  <2>2. Len(shown) \in Nat /\ Len(rows) \in Nat
    BY <1>3, <1>10, <1>13
  <2>3. all \in Seq(V) /\ Len(all) = Len(shown) + Len(rows)
    BY <1>14, <2>1
  <2>4. \A i \in 1..Len(shown) + Len(rows) :
          all[i] = IF i <= Len(shown) THEN shown[i] ELSE rows[i - Len(shown)]
    BY <1>14, <2>1, <2>2
  <2> HIDE DEF all
  <2>5. \A i \in 1..k : i \in 1..Len(shown) + Len(rows) /\ i <= Len(shown)
    BY <1>10, <1>13, <2>2
  <2>6. \A i \in 1..k : all[i] = shown[i]
    BY <2>4, <2>5
  <2>7. ASSUME NEW i \in 1..Len(all), i > k PROVE i - k \in DOMAIN rows /\ all[i] = rows[i - k]
    <3>1. i - k \in 1..Len(rows) /\ ~(i <= Len(shown)) /\ i \in 1..Len(shown) + Len(rows)
      BY <1>10, <1>13, <2>2, <2>3, <2>7
    <3>2. all[i] = rows[i - k]
      BY <1>13, <2>4, <3>1
    <3> QED BY <1>3, <3>1, <3>2
  <2> QED BY <1>13, <2>2, <2>3, <2>6, <2>7
<1> HIDE DEF all, V
<1> DEFINE c == d.candidates
           m == IF Len(all) < limit THEN Len(all) ELSE limit
<1>16. DOMAIN c = 1..m /\ \A i \in 1..m : c[i] = all[i]
  BY <1>1 DEF TakeFirst
<1>17. m \in Nat /\ m <= Len(all) /\ (k >= 1 => 1 \in 1..m)
  BY <1>3, <1>10, <1>15
<1> HIDE DEF c, m
<1>18. ASSUME NEW i \in DOMAIN c
       PROVE  \/ i \in 1..k /\ c[i] = shown[i]
              \/ i \notin 1..k /\ ~c[i].selected /\ c[i].semantic = NoVector
  <2>1. i \in 1..Len(all) /\ c[i] = all[i]
    BY <1>15, <1>16, <1>17
  <2>2. CASE i <= k
    BY <1>10, <1>15, <2>1, <2>2
  <2>3. CASE ~(i <= k)
    <3>1. i > k /\ i \notin 1..k
      BY <1>10, <1>15, <2>1, <2>3
    <3>2. i - k \in DOMAIN rows /\ all[i] = rows[i - k]
      BY <1>15, <2>1, <3>1
    <3> QED BY <1>3, <2>1, <3>1, <3>2
  <2> QED BY <2>2, <2>3
<1>19. ~op.queryVector => \A i \in DOMAIN c : c[i].semantic = NoVector
  BY <1>12, <1>18
<1>20. ASSUME ~accepted
       PROVE  d.primary = 0 /\ d.reasons # {} /\ \A i \in DOMAIN c : ~c[i].selected
  <2>1. d.primary = 0 /\ primary = 0 /\ d.reasons # {}
    BY <1>1, <1>7, <1>8, <1>20
  <2>2. \A i \in 1..k : fused[i].v.id # primary
    BY <1>4, <1>10, <2>1
  <2> QED BY <1>12, <1>18, <2>1, <2>2
<1>21. ASSUME accepted
       PROVE  /\ d.primary # 0 /\ d.reasons = {} /\ 1 \in DOMAIN c
              /\ \A i \in DOMAIN c : c[i].selected <=> i = 1
              /\ c[1].v.id = d.primary /\ ~c[1].rejected
  <2>1. d.primary = primary /\ primary # 0 /\ primary = fused[1].v.id /\ d.reasons = {} /\ 1 \in DOMAIN fused
    BY <1>1, <1>7, <1>21
  <2>2. 1 \in 1..k /\ 1 \in DOMAIN c
    BY <1>10, <1>16, <1>17, <2>1
  <2>3. c[1] = shown[1]
    BY <1>18, <2>2
  <2>4. \A i \in 1..k : fused[i].v.id = primary <=> i = 1
    BY <1>2, <1>10, <2>1
  <2>5. \A i \in DOMAIN c : c[i].selected <=> i = 1
    BY <1>12, <1>18, <2>2, <2>4
  <2> QED BY <1>12, <2>1, <2>2, <2>3, <2>5
<1> QED BY <1>7, <1>19, <1>20, <1>21 DEF c

-----------------------------------------------------------------------------
(* The recall.  A generation is published whole, with the vectors of the   *)
(* settings its rebuild captured or with none, and a query that is ready   *)
(* has read one of its own settings.                                       *)

Generations ==
  [settings : Settings \cup {"none"}, documents : SUBSET Versions,
   vectors : Settings \cup {"none"}, failed : BOOLEAN]
Builds == {NoBuild} \cup [phase : {"embedding"}, settings : Models, documents : SUBSET Versions]
PreparedQueries ==
  [phase : {"embedding", "prepared"}, settings : Settings, automatic : BOOLEAN, task : Tasks,
   state : {"ready", "disabled", "stale_generation", "unavailable"},
   failure : {"none", "drift", "provider", "not_calibrated"},
   generation : Generations, read : BOOLEAN]
Queries ==
  {NoQuery} \cup [phase : {"fingerprint"}, settings : Settings, automatic : BOOLEAN, task : Tasks]
            \cup PreparedQueries

RecallTypes ==
  /\ model \in Settings /\ library \in SUBSET Versions
  /\ generation \in Generations
  /\ builders \in [Owners -> Builds]
  /\ query \in Queries

OneSpace(g) == g.vectors \in {"none", g.settings}

\* The dense state of a query that was prepared, and what it says of its operation.
Answerable ==
  query.phase \in {"embedding", "prepared"} =>
    /\ query.state = "ready" => /\ query.read /\ query.failure = "none"
                                /\ query.automatic => query.settings \in Calibrated
    /\ query.state \in {"unavailable", "stale_generation"} => query.failure # "none"

RecallInv ==
  /\ RecallTypes
  /\ OneSpace(generation)
  /\ SameModelSpace
  /\ Answerable
  /\ query.phase = "embedding" => query.state = "ready"

LEMMA RecallInitInv == RecallInit => RecallInv
<1> SUFFICES ASSUME RecallInit PROVE RecallInv
  OBVIOUS
<1> USE DEF RecallInit
<1>1. RecallTypes
  BY DEF RecallTypes, Generations, Builds, Queries, NoQuery
<1> QED BY <1>1 DEF RecallInv, OneSpace, SameModelSpace, Answerable, NoQuery

LEMMA PublishedInv ==
  ASSUME generation \in Generations, OneSpace(generation), NEW new \in Generations, OneSpace(new), Published(new)
  PROVE  generation' \in Generations /\ OneSpace(generation)'
BY DEF Published, OneSpace

LEMMA CaptureInv ==
  ASSUME RecallTypes, OneSpace(generation), NEW o \in Owners, Capture(o, builders)
  PROVE  generation' \in Generations /\ OneSpace(generation)' /\ builders' \in [Owners -> Builds]
<1> USE DEF RecallTypes
<1>1. CASE model = "disabled" \/ library = {}
  <2> DEFINE new == [settings |-> model, documents |-> library, vectors |-> "none", failed |-> FALSE]
  <2>1. new \in Generations /\ OneSpace(new)
    BY DEF Generations, OneSpace
  <2>2. Published(new) /\ builders' = builders
    BY <1>1 DEF Capture
  <2> HIDE DEF new
  <2> QED BY <2>1, <2>2, PublishedInv
<1>2. CASE ~(model = "disabled" \/ library = {})
  <2> DEFINE new == [phase |-> "embedding", settings |-> model, documents |-> library]
  <2>1. new \in Builds
    BY <1>2 DEF Builds, Settings
  <2>2. builders' = [builders EXCEPT ![o] = new] /\ UNCHANGED generation
    BY <1>2 DEF Capture
  <2> HIDE DEF new
  <2> QED BY <2>1, <2>2 DEF OneSpace
<1> QED BY <1>1, <1>2

LEMMA ScheduleInv ==
  ASSUME RecallTypes, OneSpace(generation), ScheduleRebuild
  PROVE  generation' \in Generations /\ OneSpace(generation)' /\ builders' \in [Owners -> Builds]
<1>1. CASE builders["recall"].phase = "idle"
  BY <1>1, CaptureInv DEF ScheduleRebuild, Owners
<1>2. CASE builders["recall"].phase # "idle"
  BY <1>2 DEF ScheduleRebuild, RecallTypes, OneSpace
<1> QED BY <1>1, <1>2

LEMMA RebuildInv ==
  ASSUME RecallInv, RebuildGeneration
  PROVE  RecallInv'
<1>1. generation' \in Generations /\ OneSpace(generation)' /\ builders' \in [Owners -> Builds]
  BY CaptureInv DEF RebuildGeneration, RecallInv, Owners
<1>2. UNCHANGED <<model, library, query>>
  BY DEF RebuildGeneration
<1> QED BY <1>1, <1>2 DEF RecallInv, RecallTypes, SameModelSpace, Answerable

LEMMA EmbeddedInv ==
  ASSUME RecallInv, NEW o \in Owners, Embedded(o)
  PROVE  RecallInv'
<1> DEFINE b == builders[o]
<1>1. b \in [phase : {"embedding"}, settings : Models, documents : SUBSET Versions]
  BY DEF Embedded, RecallInv, RecallTypes, Builds, NoBuild
<1>2. PICK ok \in BOOLEAN :
        Published([settings |-> b.settings, documents |-> b.documents,
                   vectors |-> IF ok THEN b.settings ELSE "none", failed |-> ~ok])
  BY DEF Embedded
<1> DEFINE new == [settings |-> b.settings, documents |-> b.documents,
                   vectors |-> IF ok THEN b.settings ELSE "none", failed |-> ~ok]
<1>3. new \in Generations /\ OneSpace(new)
  BY <1>1 DEF Generations, OneSpace, Settings
<1>4. Published(new)
  BY <1>2
<1> HIDE DEF new
<1>5. generation' \in Generations /\ OneSpace(generation)'
  BY <1>3, <1>4, PublishedInv DEF RecallInv, RecallTypes
<1>6. builders' \in [Owners -> Builds] /\ UNCHANGED <<model, library, query>>
  BY DEF Embedded, RecallInv, RecallTypes, Builds
<1> QED BY <1>5, <1>6 DEF RecallInv, RecallTypes, SameModelSpace, Answerable

LEMMA AskInv ==
  ASSUME RecallInv, Ask
  PROVE  RecallInv'
<1>1. PICK automatic \in BOOLEAN, task \in Tasks :
        query' = [phase |-> "fingerprint", settings |-> model, automatic |-> automatic, task |-> task]
  BY DEF Ask
<1>2. query' \in Queries /\ query'.phase = "fingerprint"
  BY <1>1 DEF Queries, RecallInv, RecallTypes
<1> QED BY <1>2 DEF Ask, RecallInv, RecallTypes, SameModelSpace, Answerable, OneSpace

\* A query keeps the settings it captured and reads the generation there is.
LEMMA PreparedInv ==
  ASSUME RecallInv, query.phase = "fingerprint",
         NEW phase \in {"embedding", "prepared"},
         NEW state \in {"ready", "disabled", "stale_generation", "unavailable"},
         NEW failure \in {"none", "drift", "provider", "not_calibrated"},
         Prepared(phase, state, failure),
         generation' \in Generations, OneSpace(generation)', builders' \in [Owners -> Builds],
         UNCHANGED <<model, library>>,
         state = "ready" => generation.settings = query.settings /\ generation.vectors # "none",
         phase = "embedding" => state = "ready",
         state = "ready" => failure = "none" /\ (query.automatic => query.settings \in Calibrated),
         state \in {"unavailable", "stale_generation"} => failure # "none"
  PROVE  RecallInv'
<1>1. query \in [phase : {"fingerprint"}, settings : Settings, automatic : BOOLEAN, task : Tasks]
  BY DEF RecallInv, RecallTypes, Queries, NoQuery, PreparedQueries
<1>2. query' \in PreparedQueries
  BY <1>1 DEF Prepared, PreparedQueries, RecallInv, RecallTypes
<1>3. /\ query'.phase = phase /\ query'.state = state /\ query'.failure = failure /\ query'.read
      /\ query'.generation = generation /\ query'.settings = query.settings /\ query'.automatic = query.automatic
  BY DEF Prepared
<1>4. state = "ready" => generation.vectors = query.settings
  BY DEF RecallInv, OneSpace
<1> QED BY <1>2, <1>3, <1>4 DEF RecallInv, RecallTypes, Queries, SameModelSpace, Answerable

LEMMA PrepareInv ==
  ASSUME RecallInv, Prepare
  PROVE  RecallInv'
<1>1. query.phase = "fingerprint" /\ UNCHANGED <<model, library>>
  BY DEF Prepare
<1>2. CASE UNCHANGED <<generation, builders>>
  <2>1. generation' \in Generations /\ OneSpace(generation)' /\ builders' \in [Owners -> Builds]
    BY <1>2 DEF RecallInv, RecallTypes, OneSpace
  <2> QED BY <1>1, <2>1, PreparedInv DEF Prepare, SameSettings
<1>3. CASE ScheduleRebuild
  <2>1. generation' \in Generations /\ OneSpace(generation)' /\ builders' \in [Owners -> Builds]
    BY <1>3, ScheduleInv DEF RecallInv
  <2> QED BY <1>1, <2>1, PreparedInv DEF Prepare, SameSettings
<1> QED BY <1>2, <1>3 DEF Prepare

LEMMA PrepareUnreadableInv ==
  ASSUME RecallInv, PrepareUnreadable
  PROVE  RecallInv'
<1>1. query \in [phase : {"fingerprint"}, settings : Settings, automatic : BOOLEAN, task : Tasks]
  BY DEF PrepareUnreadable, RecallInv, RecallTypes, Queries, NoQuery, PreparedQueries
<1>2. /\ query' \in PreparedQueries /\ query'.phase = "prepared" /\ query'.state # "ready"
      /\ query'.state \in {"unavailable", "stale_generation"} => query'.failure # "none"
  BY <1>1 DEF PrepareUnreadable, PreparedQueries, RecallInv, RecallTypes
<1>3. generation' \in Generations /\ OneSpace(generation)' /\ builders' \in [Owners -> Builds]
  BY ScheduleInv DEF PrepareUnreadable, RecallInv
<1> QED BY <1>2, <1>3 DEF PrepareUnreadable, RecallInv, RecallTypes, Queries, SameModelSpace, Answerable

LEMMA QueryEndsInv ==
  ASSUME RecallInv, QueryEmbedded \/ QueryFails
  PROVE  RecallInv'
<1>1. query \in PreparedQueries
  BY DEF QueryEmbedded, QueryFails, RecallInv, RecallTypes, Queries, NoQuery
<1>2. UNCHANGED <<model, library, generation, builders>>
  BY DEF QueryEmbedded, QueryFails
<1>3. CASE QueryEmbedded
  <2>1. query' = [query EXCEPT !.phase = "prepared"]
    BY <1>3 DEF QueryEmbedded
  <2>2. query' \in PreparedQueries /\ query'.phase = "prepared"
        /\ query'.state = query.state /\ query'.generation = query.generation /\ query'.settings = query.settings
        /\ query'.failure = query.failure /\ query'.read = query.read /\ query'.automatic = query.automatic
    BY <1>1, <2>1 DEF PreparedQueries
  <2> QED BY <1>3, <1>2, <2>2 DEF QueryEmbedded, RecallInv, RecallTypes, Queries, SameModelSpace, Answerable, OneSpace
<1>4. CASE QueryFails
  <2>1. query' = [query EXCEPT !.phase = "prepared", !.state = "unavailable", !.failure = "provider"]
    BY <1>4 DEF QueryFails
  <2>2. /\ query' \in PreparedQueries /\ query'.phase = "prepared" /\ query'.state = "unavailable"
        /\ query'.failure = "provider"
    BY <1>1, <2>1 DEF PreparedQueries
  <2> QED BY <1>2, <2>2 DEF RecallInv, RecallTypes, Queries, SameModelSpace, Answerable, OneSpace
<1> QED BY <1>3, <1>4

LEMMA MatchInv ==
  ASSUME RecallInv, Match
  PROVE  RecallInv'
BY DEF Match, RecallInv, RecallTypes, Queries, SameModelSpace, Answerable, OneSpace, NoQuery

LEMMA HostInv ==
  ASSUME RecallInv,
         \/ \E m \in Settings : ChangeSettings(m)
         \/ \E v \in Versions : Activate(v) \/ Retire(v)
  PROVE  RecallInv'
<1>1. UNCHANGED <<generation, builders, query>> /\ model' \in Settings /\ library' \in SUBSET Versions
  BY DEF ChangeSettings, Activate, Retire, RecallInv, RecallTypes
<1> QED BY <1>1 DEF RecallInv, RecallTypes, SameModelSpace, Answerable, OneSpace

LEMMA RecallStepInv ==
  ASSUME RecallInv, [RecallNext]_recall
  PROVE  RecallInv'
<1>1. CASE UNCHANGED recall
  BY <1>1 DEF recall, RecallInv, RecallTypes, SameModelSpace, Answerable, OneSpace
<1>2. CASE RecallNext
  BY <1>2, RebuildInv, EmbeddedInv, AskInv, PrepareInv, PrepareUnreadableInv, QueryEndsInv, MatchInv, HostInv
     DEF RecallNext
<1> QED BY <1>1, <1>2

\* A query is only compared with documents that its own model embedded,
\* whatever settings changed and whichever rebuild ended last.
THEOREM QueriesShareModel == RecallSpec => []SameModelSpace
<1>1. RecallInv => SameModelSpace
  BY DEF RecallInv
<1>2. RecallInv /\ [RecallNext]_recall => RecallInv'
  BY RecallStepInv
<1> QED BY <1>1, <1>2, RecallInitInv, PTL DEF RecallSpec

\* What the Versions are to a query is finite and told apart by identifier.
LEMMA RankedIs ==
  ASSUME RecallInv, query.phase = "prepared"
  PROVE  Rankable(Ranked)
<1> DEFINE f == [v \in library |->
                   [query.task[v] EXCEPT !.similarity =
                      IF query.state = "ready" /\ v \in query.generation.documents THEN @ ELSE NoVector]]
<1>1. query \in PreparedQueries
  BY DEF RecallInv, RecallTypes, Queries, NoQuery
<1>2. query.task \in [Versions -> Matches] /\ library \in SUBSET Versions
  BY <1>1, RecallAssumption DEF RecallAssumption, PreparedQueries, RecallInv, RecallTypes
<1>3. \A v, w \in Versions : query.task[v].id = query.task[w].id => v = w
  BY <1>1, RecallAssumption DEF RecallAssumption, PreparedQueries
<1>4. ASSUME NEW v \in library PROVE f[v] \in Matches /\ f[v].id = query.task[v].id
  <2> DEFINE e == query.task[v]
             s == IF query.state = "ready" /\ v \in query.generation.documents THEN e.similarity ELSE NoVector
  <2>1. e \in Matches
    BY <1>2
  <2>2. s \in Int
    BY <2>1 DEF Matches, NoVector
  <2>3. f[v] = [e EXCEPT !.similarity = s]
    OBVIOUS
  <2> HIDE DEF e, s, f
  <2>4. f[v] \in Matches /\ f[v].id = e.id
    BY <2>1, <2>2, <2>3 DEF Matches
  <2> QED BY <2>4 DEF e
<1>5. Ranked = {f[v] : v \in library} /\ DOMAIN f = library
  BY DEF Ranked
<1>6. f = [v \in DOMAIN f |-> f[v]]
  OBVIOUS
<1> HIDE DEF f
<1>7. \A p \in Ranked : \E v \in library : p = f[v]
  BY <1>5
<1>8. \A v \in library : f[v] \in Ranked
  BY <1>5
<1>9. f \in Surjection(library, Ranked)
  <2>1. f \in [library -> Ranked]
    BY <1>5, <1>6, <1>8
  <2> QED BY <1>7, <2>1 DEF Surjection
<1>10. IsFiniteSet(library)
  BY <1>2, RecallAssumption, FS_Subset DEF RecallAssumption
<1>11. IsFiniteSet(Ranked)
  BY <1>9, <1>10, FS_Surjection
<1>12. \A p, q \in Ranked : p.id = q.id => p = q
  BY <1>2, <1>3, <1>4, <1>7
<1>13. Ranked \in SUBSET Matches
  BY <1>4, <1>7
<1> QED BY <1>11, <1>12, <1>13 DEF Rankable

LEMMA OperationIs ==
  /\ Calibration(Operation) /\ Operation.margin >= 0
  /\ Operation.automatic = query.automatic /\ Operation.queryVector = (query.state = "ready")
BY DEF Operation, Calibration, NoVector

LEMMA AcceptsOnlyClearHolds ==
  ASSUME RecallInv
  PROVE  AcceptsOnlyClear
<1> SUFFICES ASSUME query.phase = "prepared", NEW p \in Ranked, p.id = Outcome.primary
             PROVE  /\ p.conflicts = {} /\ p.supported /\ (query.automatic => ~p.vetoed)
                    /\ \/ p.exact
                       \/ p.focus /\ Clear(p)
                       \/ DenseClear(p)
                       \/ DenseFirst(p) /\ Clear(p)
  BY DEF AcceptsOnlyClear
<1>1. Rankable(Ranked)
  BY RankedIs
<1>2. CandidateMax \in Nat
  BY RecallAssumption DEF RecallAssumption
<1>3. p \in Eligible(Ranked, Operation) /\ ClearlyFirst(p, Ranked, Operation)
  BY <1>1, <1>2, OperationIs, DecisionClear DEF Outcome
<1>4. p.conflicts = {} /\ p.supported /\ (query.automatic => ~p.vetoed)
  BY <1>1, <1>3, EligibleIs, OperationIs
<1>5. WordsClear(p, Ranked, Operation) => Clear(p)
  BY DEF WordsClear, Clear, OthersOf
<1>6. VectorLeads(p, Ranked, Operation, Operation.margin) => DenseClear(p)
  <2> SUFFICES ASSUME VectorLeads(p, Ranked, Operation, Operation.margin) PROVE DenseClear(p)
    OBVIOUS
  <2>1. /\ p.similarity >= Operation.threshold /\ DenseKindAllowed(p, Operation)
        /\ \A q \in OthersOf(p) : DenseKindAllowed(q, Operation) => p.similarity >= q.similarity + Operation.margin
    BY DEF VectorLeads, OthersOf
  <2>2. p.similarity \in Int /\ \A q \in OthersOf(p) : q.similarity \in Int
    BY <1>1, HitsRankable DEF OthersOf, Rankable, Matches
  <2>3. Operation.margin \in Nat
    BY DEF Operation
  <2>4. \A q \in OthersOf(p) : DenseKindAllowed(q, Operation) => p.similarity >= q.similarity
    BY <2>1, <2>2, <2>3
  <2> QED BY <2>1, <2>4 DEF DenseClear, DenseFirst
<1>7. VectorLeads(p, Ranked, Operation, 0) => DenseFirst(p)
  <2>1. p.similarity \in Int /\ \A q \in OthersOf(p) : q.similarity \in Int
    BY <1>1, HitsRankable DEF OthersOf, Rankable, Matches
  <2> QED BY <2>1 DEF VectorLeads, OthersOf, DenseFirst
<1> QED BY <1>3, <1>4, <1>5, <1>6, <1>7 DEF ClearlyFirst

LEMMA DecisionReadableHolds ==
  ASSUME RecallInv
  PROVE  DecisionReadable
<1> SUFFICES ASSUME query.phase = "prepared" PROVE ValidDecision(Outcome)
  BY DEF DecisionReadable
<1> DEFINE d == Outcome
           Selected == {i \in DOMAIN d.candidates : d.candidates[i].selected}
<1>1. Rankable(Ranked) /\ CandidateMax \in Nat \ {0} /\ d = Decision(Ranked, Operation, CandidateMax)
  BY RankedIs, RecallAssumption DEF RecallAssumption, Outcome
<1> HIDE DEF d
<1>2. /\ ~Operation.queryVector => \A i \in DOMAIN d.candidates : d.candidates[i].semantic = NoVector
      /\ d.primary = 0 => d.reasons # {} /\ \A i \in DOMAIN d.candidates : ~d.candidates[i].selected
      /\ d.primary # 0 =>
           /\ d.reasons = {}
           /\ 1 \in DOMAIN d.candidates
           /\ \A i \in DOMAIN d.candidates : d.candidates[i].selected <=> i = 1
           /\ d.candidates[1].v.id = d.primary /\ ~d.candidates[1].rejected
  BY <1>1, DecisionStored
<1>3. query.state # "ready" => \A i \in DOMAIN d.candidates : d.candidates[i].semantic = NoVector
  BY <1>2, OperationIs
<1>4. query.state = "ready" /\ query.automatic => Operation.allowed # {}
  BY RecallAssumption DEF RecallAssumption, RecallInv, Answerable, Operation
<1>5. /\ query.state = "ready" => query.read /\ query.failure = "none"
      /\ query.state \in {"unavailable", "stale_generation"} => query.failure # "none"
  BY DEF RecallInv, Answerable
<1>6. d.primary = 0 => d.reasons # {} /\ Selected = {}
  BY <1>2
<1>7. ASSUME d.primary # 0
      PROVE  /\ d.reasons = {} /\ Cardinality(Selected) = 1
             /\ \A i \in Selected : d.candidates[i].v.id = d.primary /\ ~d.candidates[i].rejected
  <2>1. Selected = {1}
    BY <1>2, <1>7
  <2>2. Cardinality({1}) = 1
    BY FS_Singleton
  <2> QED BY <1>2, <1>7, <2>1, <2>2
<1> QED BY <1>3, <1>4, <1>5, <1>6, <1>7 DEF ValidDecision, d

\* A recalled Version breaks no hard filter and stands clear of every eligible
\* rival in a channel that may carry it, for every score, limit and number of
\* Versions, and every stored decision passes the check it is read back with.
THEOREM RecallsAreSound == RecallSpec => []RecallSound
<1>1. RecallInv => RecallSound
  BY AcceptsOnlyClearHolds, DecisionReadableHolds DEF RecallSound
<1>2. RecallInv /\ [RecallNext]_recall => RecallInv'
  BY RecallStepInv
<1> QED BY <1>1, <1>2, RecallInitInv, PTL DEF RecallSpec
=============================================================================
