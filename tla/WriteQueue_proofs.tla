-------------------------- MODULE WriteQueue_proofs --------------------------
(***************************************************************************)
(* What happens in each process, for any number of processes and calls and *)
(* any bound.                                                              *)
(*                                                                         *)
(* WriteQueue: its state is typed, the chain of promises serves the        *)
(* accepted calls first in, first out, and the queue implements            *)
(* SerialWrites.                                                           *)
(*                                                                         *)
(* HostLifecycle: there is one local owner, and an opening that no other   *)
(* overlaps comes up with the store at the path, wherever earlier starts   *)
(* were killed and whatever an earlier build left.  The inductive          *)
(* invariant says in which shapes a file can be left, and of an opening    *)
(* that is alone that each of its steps finds what it read before.         *)
(***************************************************************************)
EXTENDS WriteQueue, HostLifecycle, FiniteSetTheorems, TLAPS

Inv == TypeOK /\ QueueInvariant /\ DrainedBeforeClose

\* What the queue of one process satisfies.
HostInv(h) == Chained(h) /\ InOrder(h) /\ Counted(h)

\* The rows of a process that an action of another process leaves alone.
SameHost(g) ==
  /\ called'[g] = called[g] /\ call'[g] = call[g] /\ predecessor'[g] = predecessor[g]
  /\ tail'[g] = tail[g] /\ resolved'[g] = resolved[g] /\ pending'[g] = pending[g]

-----------------------------------------------------------------------------
\* The calls of one process that are unsettled are finitely many, so that
\* counting them makes sense.
LEMMA UnsettledFinite ==
  ASSUME NEW h \in Hosts
  PROVE  IsFiniteSet(Unsettled(h)) /\ Cardinality(Unsettled(h)) \in Nat
<1>1. IsFiniteSet(Calls)
  BY FS_Interval, QueueAssumption DEF Calls
<1>2. Unsettled(h) \subseteq Calls
  BY DEF Unsettled
<1>3. IsFiniteSet(Unsettled(h))
  BY <1>1, <1>2, FS_Subset
<1> QED
  BY <1>3, FS_CardinalityType

\* The queue of a process whose rows do not change keeps its invariant.
LEMMA OtherHost ==
  ASSUME NEW g \in Hosts, HostInv(g), SameHost(g)
  PROVE  HostInv(g)'
<1>1. Unsettled(g)' = Unsettled(g) /\ Taken(g)' = Taken(g) /\ Settled(g)' = Settled(g)
  BY DEF SameHost, Unsettled, Taken, Settled
<1>2. Chained(g)'
  BY <1>1 DEF HostInv, SameHost, Chained
<1>3. InOrder(g)'
  BY <1>1 DEF HostInv, SameHost, InOrder
<1>4. Counted(g)'
  BY <1>1 DEF HostInv, SameHost, Counted
<1> QED
  BY <1>2, <1>3, <1>4 DEF HostInv

\* Initially nothing is queued.
LEMMA InitInv == Init => Inv
<1> SUFFICES ASSUME Init PROVE Inv
  OBVIOUS
<1> USE QueueAssumption
<1>1. TypeOK
  BY DEF Init, TypeOK, Calls, Promises, CallStates
<1>2. ASSUME NEW h \in Hosts
      PROVE  HostInv(h) /\ Locked(h) /\ Unsettled(h) = {}
  <2>1. \A i \in Calls : call[h][i] = "new"
    BY DEF Init
  <2>2. Unsettled(h) = {} /\ Taken(h) = {} /\ Settled(h) = {}
    BY <2>1 DEF Unsettled, Taken, Settled
  <2>3. Chained(h)
    BY <2>1, <2>2 DEF Init, Chained, Calls
  <2>4. InOrder(h) /\ Locked(h)
    BY <2>1, <2>2 DEF InOrder, Locked
  <2>5. Counted(h)
    BY <2>2, FS_EmptySet DEF Init, Counted
  <2> QED
    BY <2>2, <2>3, <2>4, <2>5 DEF HostInv
<1> QED
  BY <1>1, <1>2 DEF Inv, QueueInvariant, DrainedBeforeClose, HostInv

-----------------------------------------------------------------------------
\* Changing the state of one call of one process.
LEMMA BecomesRows ==
  ASSUME TypeOK, NEW h \in Hosts, NEW c \in Calls, NEW s \in CallStates, Becomes(h, c, s)
  PROVE  /\ call' \in [Hosts -> [Calls -> CallStates]]
         /\ call'[h][c] = s
         /\ \A i \in Calls : i # c => call'[h][i] = call[h][i]
         /\ \A g \in Hosts : g # h => call'[g] = call[g]
<1>1. call \in [Hosts -> [Calls -> CallStates]]
  BY DEF TypeOK
<1>2. [call[h] EXCEPT ![c] = s] \in [Calls -> CallStates]
  BY <1>1
<1>3. call' = [call EXCEPT ![h] = [call[h] EXCEPT ![c] = s]]
  BY DEF Becomes
<1>4. call'[h] = [call[h] EXCEPT ![c] = s] /\ \A g \in Hosts : g # h => call'[g] = call[g]
  BY <1>1, <1>3
<1>5. call'[h][c] = s /\ \A i \in Calls : i # c => call'[h][i] = call[h][i]
  BY <1>1, <1>4
<1> QED
  BY <1>1, <1>2, <1>3, <1>4, <1>5

\* A call that its predecessor has let go on was accepted after settled calls only.
LEMMA TurnInOrder ==
  ASSUME TypeOK, NEW h \in Hosts, NEW i \in Calls, HostInv(h), Turn(h, i)
  PROVE  \A j \in Taken(h) : j < i => j \in Settled(h)
<1> SUFFICES ASSUME NEW j \in Taken(h), j < i PROVE j \in Settled(h)
  OBVIOUS
<1>1. i \in Taken(h) /\ j \in Calls /\ Taken(h) \subseteq Nat
  BY DEF Turn, Taken, Calls
<1>2. j <= predecessor[h][i] /\ predecessor[h][i] \in Settled(h) \cup {0}
  BY <1>1 DEF HostInv, Chained, Turn
<1>3. predecessor[h][i] \in Settled(h) /\ predecessor[h][i] \in Taken(h)
  BY <1>1, <1>2 DEF Settled, Taken, Calls
<1>4. call[h][predecessor[h][i]] # "waiting"
  BY <1>3 DEF Settled
<1>5. CASE j = predecessor[h][i]
  BY <1>3, <1>5
<1>6. CASE j # predecessor[h][i]
  <2>1. j < predecessor[h][i]
    BY <1>1, <1>2, <1>3, <1>6
  <2> QED
    BY <1>3, <1>4, <2>1 DEF HostInv, InOrder
<1> QED
  BY <1>5, <1>6

\* An invariant state before a step, for a process and another one.
LEMMA InvAt ==
  ASSUME Inv, NEW h \in Hosts
  PROVE  TypeOK /\ HostInv(h) /\ Locked(h) /\ (mode[h] = "closed" => Unsettled(h) = {})
BY DEF Inv, QueueInvariant, HostInv, DrainedBeforeClose

\* The invariant after a step, from its parts.
LEMMA InvNext ==
  ASSUME TypeOK', \A g \in Hosts : HostInv(g)' /\ Locked(g)',
         \A g \in Hosts : mode'[g] = "closed" => Unsettled(g)' = {}
  PROVE  Inv'
BY DEF Inv, QueueInvariant, HostInv, DrainedBeforeClose

\* A call that may still be made has a number among the calls.
LEMMA NextCall ==
  ASSUME TypeOK, NEW h \in Hosts, called[h] < MaxCalls
  PROVE  called[h] \in Nat /\ called[h] + 1 \in Calls /\ called[h] + 1 \in Promises
<1>1. called[h] \in Promises
  BY DEF TypeOK
<1> QED
  BY <1>1, QueueAssumption DEF Calls, Promises

-----------------------------------------------------------------------------
\* A refused call is numbered and changes nothing else.
LEMMA RefuseInv == ASSUME Inv, NEW h \in Hosts, Refuse(h) PROVE Inv'
<1> DEFINE c == called[h] + 1
<1>0. TypeOK /\ HostInv(h) /\ Locked(h)
  BY InvAt
<1>1. c \in Calls /\ called[h] \in Nat /\ c \in Promises
  BY <1>0, NextCall DEF Refuse
<1>2. call' \in [Hosts -> [Calls -> CallStates]] /\ call'[h][c] = "refused"
      /\ (\A i \in Calls : i # c => call'[h][i] = call[h][i])
      /\ (\A g \in Hosts : g # h => call'[g] = call[g])
  BY <1>0, <1>1, BecomesRows DEF Refuse, CallStates
<1>3. call[h][c] = "new"
  BY <1>0, <1>1 DEF HostInv, Chained
<1>4. tail' = tail
  BY <1>0 DEF Refuse, RefusedTail, TypeOK
<1>5. TypeOK'
  BY <1>0, <1>1, <1>2, <1>4 DEF TypeOK, Refuse
<1>6. called'[h] = c /\ \A g \in Hosts : g # h => called'[g] = called[g]
  BY <1>0 DEF Refuse, TypeOK
<1> HIDE DEF c
<1>7. Unsettled(h)' = Unsettled(h) /\ Taken(h)' = Taken(h) /\ Settled(h)' = Settled(h)
  BY <1>1, <1>2, <1>3 DEF Unsettled, Taken, Settled
<1>8. HostInv(h)'
  <2>1. \A i \in Calls : i > called'[h] <=> call'[h][i] = "new"
    <3> SUFFICES ASSUME NEW i \in Calls PROVE i > called'[h] <=> call'[h][i] = "new"
      OBVIOUS
    <3>1. i > called[h] <=> call[h][i] = "new"
      BY <1>0 DEF HostInv, Chained
    <3>2. i > called'[h] <=> i > called[h] /\ i # c
      BY <1>1, <1>6 DEF c, Calls
    <3> QED
      BY <1>2, <3>1, <3>2
  <2>2. Chained(h)'
    BY <1>0, <1>4, <1>7, <2>1 DEF HostInv, Chained, Refuse
  <2>3. InOrder(h)'
    <3>1. \A i \in Taken(h) : i # c
      BY <1>3 DEF Taken
    <3> QED
      BY <1>0, <1>2, <1>7, <3>1 DEF HostInv, InOrder, Taken
  <2>4. Counted(h)'
    BY <1>0, <1>7 DEF HostInv, Counted, Refuse
  <2> QED
    BY <2>2, <2>3, <2>4 DEF HostInv
<1>9. ASSUME NEW g \in Hosts PROVE HostInv(g)' /\ Locked(g)' /\ (mode'[g] = "closed" => Unsettled(g)' = {})
  <2>1. CASE g = h
    <3>1. Locked(h)'
      BY <1>0, <1>2, <1>3 DEF Locked, Refuse
    <3> QED
      BY <1>7, <1>8, <2>1, <3>1, InvAt DEF Refuse
  <2>2. CASE g # h
    <3>1. SameHost(g)
      BY <1>2, <1>4, <1>6, <2>2 DEF SameHost, Refuse
    <3>2. HostInv(g)'
      BY <3>1, InvAt, OtherHost
    <3> QED
      BY <3>1, <3>2, InvAt DEF SameHost, Locked, Unsettled, Refuse
  <2> QED
    BY <2>1, <2>2
<1> QED
  BY <1>5, <1>9, InvNext

-----------------------------------------------------------------------------
\* An accepted call becomes the end of the chain.
LEMMA AcceptInv == ASSUME Inv, NEW h \in Hosts, Accept(h) PROVE Inv'
<1> DEFINE c == called[h] + 1
<1>0. TypeOK /\ HostInv(h) /\ Locked(h)
  BY InvAt
<1>1. c \in Calls /\ called[h] \in Nat /\ c \in Promises
  BY <1>0, NextCall DEF Accept
<1>2. call' \in [Hosts -> [Calls -> CallStates]] /\ call'[h][c] = "waiting"
      /\ (\A i \in Calls : i # c => call'[h][i] = call[h][i])
      /\ (\A g \in Hosts : g # h => call'[g] = call[g])
  BY <1>0, <1>1, BecomesRows DEF Accept, CallStates
<1>3. \A i \in Calls : i >= c => call[h][i] = "new"
  BY <1>0, <1>1 DEF HostInv, Chained, Calls
<1>4. /\ called'[h] = c /\ tail'[h] = c /\ pending'[h] = pending[h] + 1
      /\ \A g \in Hosts : g # h =>
           called'[g] = called[g] /\ tail'[g] = tail[g] /\ pending'[g] = pending[g]
  BY <1>0 DEF Accept, TypeOK, NewTail
<1>5. /\ predecessor' \in [Hosts -> [Calls -> Promises]]
      /\ predecessor'[h][c] = tail[h]
      /\ \A i \in Calls : i # c => predecessor'[h][i] = predecessor[h][i]
      /\ \A g \in Hosts : g # h => predecessor'[g] = predecessor[g]
  <2>1. predecessor \in [Hosts -> [Calls -> Promises]] /\ tail[h] \in Promises
    BY <1>0 DEF TypeOK
  <2>2. [predecessor[h] EXCEPT ![c] = tail[h]] \in [Calls -> Promises]
    BY <1>1, <2>1
  <2>3. predecessor' = [predecessor EXCEPT ![h] = [predecessor[h] EXCEPT ![c] = tail[h]]]
    BY DEF Accept
  <2>4. predecessor'[h] = [predecessor[h] EXCEPT ![c] = tail[h]]
    BY <2>1, <2>3
  <2> QED
    BY <1>1, <2>1, <2>2, <2>3, <2>4
<1>6. TypeOK'
  <2>1. pending' \in [Hosts -> 0..MaxPending]
    <3>1. pending[h] + 1 \in 0..MaxPending
      BY <1>0, QueueAssumption DEF TypeOK, Accept, Full
    <3> QED
      BY <1>0, <3>1 DEF TypeOK, Accept
  <2>2. called' \in [Hosts -> Promises] /\ tail' \in [Hosts -> Promises]
    BY <1>0, <1>1 DEF TypeOK, Accept, NewTail
  <2> QED
    BY <1>0, <1>2, <1>5, <2>1, <2>2 DEF TypeOK, Accept
<1> HIDE DEF c
<1>7. Unsettled(h)' = Unsettled(h) \cup {c} /\ Taken(h)' = Taken(h) \cup {c}
      /\ Settled(h)' = Settled(h)
  <2>1. call[h][c] = "new"
    BY <1>1, <1>3 DEF Calls
  <2> QED
    BY <1>1, <1>2, <2>1 DEF Unsettled, Taken, Settled
<1>8. Chained(h)'
  <2>0. Taken(h) \subseteq Calls /\ tail[h] \in Taken(h) \cup {0} /\ c \notin Taken(h)
    BY <1>0, <1>1, <1>3 DEF Taken, HostInv, Chained, Calls
  <2>1. \A i \in Taken(h) : i < c
    <3>1. \A i \in Taken(h) : ~(i >= c)
      BY <1>3, <2>0 DEF Taken
    <3> QED
      BY <1>1, <2>0, <3>1 DEF Calls
  <2>2. \A i \in Calls : i > called'[h] <=> call'[h][i] = "new"
    <3> SUFFICES ASSUME NEW i \in Calls PROVE i > called'[h] <=> call'[h][i] = "new"
      OBVIOUS
    <3>1. i > called[h] <=> call[h][i] = "new"
      BY <1>0 DEF HostInv, Chained
    <3>2. i > called'[h] <=> i > called[h] /\ i # c
      BY <1>1, <1>4 DEF c, Calls
    <3> QED
      BY <1>2, <3>1, <3>2
  <2>3. tail'[h] \in Taken(h)' \cup {0} /\ \A i \in Taken(h)' : i <= tail'[h]
    BY <1>1, <1>4, <1>7, <2>0, <2>1 DEF Calls
  <2>4. ASSUME NEW i \in Taken(h)'
        PROVE  /\ predecessor'[h][i] \in Taken(h)' \cup {0} /\ predecessor'[h][i] < i
               /\ \A j \in Taken(h)' : j < i => j <= predecessor'[h][i]
    <3>1. CASE i = c
      <4>1. tail[h] < c
        BY <1>1, <2>0, <2>1 DEF Calls
      <4>2. \A j \in Taken(h) : j <= tail[h]
        BY <1>0 DEF HostInv, Chained
      <4>3. \A j \in Taken(h)' : j < i => j \in Taken(h)
        BY <1>1, <1>7, <3>1 DEF Calls
      <4> QED
        BY <1>5, <1>7, <2>0, <3>1, <4>1, <4>2, <4>3
    <3>2. CASE i # c
      <4>1. i \in Taken(h) /\ i \in Calls /\ i < c
        BY <1>7, <2>0, <2>1, <3>2
      <4>2. predecessor[h][i] \in Taken(h) \cup {0} /\ predecessor[h][i] < i
            /\ \A j \in Taken(h) : j < i => j <= predecessor[h][i]
        BY <1>0, <4>1 DEF HostInv, Chained
      <4>3. \A j \in Taken(h)' : j < i => j \in Taken(h)
        BY <1>1, <1>7, <4>1 DEF Calls
      <4> QED
        BY <1>5, <1>7, <3>2, <4>1, <4>2, <4>3
    <3> QED
      BY <3>1, <3>2
  <2>5. resolved'[h] = Settled(h)' \cup {0}
    BY <1>0, <1>7 DEF HostInv, Chained, Accept
  <2> QED
    BY <2>2, <2>3, <2>4, <2>5 DEF Chained
<1>9. InOrder(h)'
  <2> SUFFICES ASSUME NEW i \in Taken(h)', call'[h][i] # "waiting",
                      NEW j \in Taken(h)', j < i
               PROVE  j \in Settled(h)'
    BY DEF InOrder
  <2>1. i # c /\ i \in Taken(h) /\ i \in Calls
    BY <1>2, <1>7 DEF Taken
  <2>2. ~(i >= c)
    BY <1>3, <2>1 DEF Taken
  <2>3. j \in Taken(h)
    BY <1>1, <1>7, <2>1, <2>2 DEF Calls
  <2>4. call[h][i] # "waiting"
    BY <1>2, <2>1
  <2> QED
    BY <1>0, <1>7, <2>1, <2>3, <2>4 DEF HostInv, InOrder
<1>10. Counted(h)'
  <2>1. c \notin Unsettled(h)
    BY <1>1, <1>3 DEF Unsettled, Calls
  <2> QED
    BY <1>0, <1>4, <1>7, <2>1, UnsettledFinite, FS_AddElement DEF HostInv, Counted
<1>11. ASSUME NEW g \in Hosts PROVE HostInv(g)' /\ Locked(g)' /\ (mode'[g] = "closed" => Unsettled(g)' = {})
  <2>1. CASE g = h
    <3>1. Locked(h)'
      BY <1>0, <1>2 DEF Locked, Accept
    <3> QED
      BY <1>8, <1>9, <1>10, <2>1, <3>1 DEF Accept, HostInv
  <2>2. CASE g # h
    <3>1. SameHost(g)
      BY <1>2, <1>4, <1>5, <2>2 DEF SameHost, Accept
    <3>2. HostInv(g)'
      BY <3>1, InvAt, OtherHost
    <3> QED
      BY <3>1, <3>2, InvAt DEF SameHost, Locked, Unsettled, Accept
  <2> QED
    BY <2>1, <2>2
<1> QED
  BY <1>6, <1>11, InvNext

-----------------------------------------------------------------------------
\* A call whose turn it is becomes the one that runs.
LEMMA BeginInv == ASSUME Inv, NEW h \in Hosts, NEW c \in Calls, Begin(h, c) PROVE Inv'
<1>0. TypeOK /\ HostInv(h) /\ Locked(h)
  BY InvAt
<1>1. call' \in [Hosts -> [Calls -> CallStates]] /\ call'[h][c] = "running"
      /\ (\A i \in Calls : i # c => call'[h][i] = call[h][i])
      /\ (\A g \in Hosts : g # h => call'[g] = call[g])
  BY <1>0, BecomesRows DEF Begin, CallStates
<1>2. call[h][c] = "waiting"
  BY DEF Begin, Turn
<1>3. TypeOK'
  BY <1>0, <1>1 DEF TypeOK, Begin
<1>4. Unsettled(h)' = Unsettled(h) /\ Taken(h)' = Taken(h) /\ Settled(h)' = Settled(h)
  BY <1>1, <1>2 DEF Unsettled, Taken, Settled
<1>5. Chained(h)'
  <2>1. \A i \in Calls : call'[h][i] = "new" <=> call[h][i] = "new"
    BY <1>1, <1>2
  <2> QED
    BY <1>0, <1>4, <2>1 DEF HostInv, Chained, Begin
<1>6. InOrder(h)'
  <2>1. \A j \in Taken(h) : j < c => j \in Settled(h)
    BY <1>0, TurnInOrder DEF Begin
  <2> QED
    BY <1>0, <1>1, <1>4, <2>1 DEF HostInv, InOrder, Taken
<1>7. Counted(h)'
  BY <1>0, <1>4 DEF HostInv, Counted, Begin
<1>8. ASSUME NEW g \in Hosts PROVE HostInv(g)' /\ Locked(g)' /\ (mode'[g] = "closed" => Unsettled(g)' = {})
  <2>1. CASE g = h
    <3>1. Locked(h)'
      BY DEF Locked, Begin
    <3> QED
      BY <1>4, <1>5, <1>6, <1>7, <2>1, <3>1, InvAt DEF Begin, HostInv
  <2>2. CASE g # h
    <3>1. SameHost(g)
      BY <1>1, <2>2 DEF SameHost, Begin
    <3>2. HostInv(g)' /\ Unsettled(g)' = Unsettled(g)
      BY <3>1, InvAt, OtherHost DEF SameHost, Unsettled
    <3>3. Locked(g)'
      <4>1. \A i \in Calls : ~(call[g][i] = "running" /\ mode[g] # "dead")
        BY InvAt, QueueAssumption DEF Locked, Begin
      <4> QED
        BY <3>1, <4>1 DEF SameHost, Locked, Begin
    <3> QED
      BY <3>2, <3>3, InvAt DEF Begin
  <2> QED
    BY <2>1, <2>2
<1> QED
  BY <1>3, <1>8, InvNext

\* The end of a call, whatever its outcome: it leaves the front of the queue.
LEMMA ReleaseHost ==
  ASSUME TypeOK, NEW h \in Hosts, NEW c \in Calls, NEW outcome \in {"committed", "failed"},
         HostInv(h), c \in Unsettled(h), \A j \in Taken(h) : j < c => j \in Settled(h),
         Release(h, c, outcome), UNCHANGED <<called, predecessor, tail>>
  PROVE  /\ call' \in [Hosts -> [Calls -> CallStates]]
         /\ resolved' \in [Hosts -> SUBSET Promises]
         /\ pending' \in [Hosts -> 0..MaxPending]
         /\ HostInv(h)' /\ Unsettled(h)' = Unsettled(h) \ {c}
         /\ \A i \in Calls : call'[h][i] = "running" => call[h][i] = "running" /\ i # c
         /\ \A g \in Hosts : g # h => SameHost(g)
<1>1. call' \in [Hosts -> [Calls -> CallStates]] /\ call'[h][c] = outcome
      /\ (\A i \in Calls : i # c => call'[h][i] = call[h][i])
      /\ (\A g \in Hosts : g # h => call'[g] = call[g])
  BY BecomesRows DEF Release, CallStates
<1>2. call[h][c] \in {"waiting", "running"}
  BY DEF Unsettled
<1>3. Unsettled(h)' = Unsettled(h) \ {c} /\ Taken(h)' = Taken(h)
      /\ Settled(h)' = Settled(h) \cup {c}
  BY <1>1, <1>2 DEF Unsettled, Taken, Settled
<1>4. /\ resolved' \in [Hosts -> SUBSET Promises] /\ resolved'[h] = resolved[h] \cup {c}
      /\ \A g \in Hosts : g # h => resolved'[g] = resolved[g]
  <2>1. c \in Promises
    BY QueueAssumption DEF Calls, Promises
  <2> QED
    BY <2>1 DEF TypeOK, Release, Resolved
<1>5. pending[h] = Cardinality(Unsettled(h)) /\ Cardinality(Unsettled(h)) \in Nat
      /\ Cardinality(Unsettled(h) \ {c}) = Cardinality(Unsettled(h)) - 1
      /\ Cardinality(Unsettled(h) \ {c}) \in Nat
  BY UnsettledFinite, FS_RemoveElement, FS_CardinalityType DEF HostInv, Counted
<1>6. pending' \in [Hosts -> 0..MaxPending] /\ pending'[h] = pending[h] - 1
      /\ \A g \in Hosts : g # h => pending'[g] = pending[g]
  <2>1. pending[h] - 1 \in 0..MaxPending
    BY <1>5, QueueAssumption DEF TypeOK
  <2> QED
    BY <2>1 DEF TypeOK, Release
<1>7. Chained(h)'
  <2>1. \A i \in Calls : call'[h][i] = "new" <=> call[h][i] = "new"
    BY <1>1, <1>2
  <2>2. resolved'[h] = Settled(h)' \cup {0}
    BY <1>3, <1>4 DEF HostInv, Chained
  <2> QED
    BY <1>3, <2>1, <2>2 DEF HostInv, Chained
<1>8. InOrder(h)'
  BY <1>1, <1>3 DEF HostInv, InOrder, Taken
<1>9. Counted(h)'
  BY <1>3, <1>5, <1>6 DEF Counted
<1>10. \A g \in Hosts : g # h => SameHost(g)
  BY <1>1, <1>4, <1>6 DEF SameHost
<1>11. \A i \in Calls : call'[h][i] = "running" => call[h][i] = "running" /\ i # c
  BY <1>1
<1> QED
  BY <1>1, <1>3, <1>4, <1>6, <1>7, <1>8, <1>9, <1>10, <1>11 DEF HostInv

-----------------------------------------------------------------------------
\* A call that cannot begin its transaction fails and resolves its promise.
LEMMA BusyInv == ASSUME Inv, NEW h \in Hosts, NEW c \in Calls, Busy(h, c) PROVE Inv'
<1>0. TypeOK /\ HostInv(h) /\ c \in Unsettled(h)
      /\ \A j \in Taken(h) : j < c => j \in Settled(h)
  BY InvAt, TurnInOrder DEF Busy, Turn, Unsettled
<1>1. /\ call' \in [Hosts -> [Calls -> CallStates]]
      /\ resolved' \in [Hosts -> SUBSET Promises]
      /\ pending' \in [Hosts -> 0..MaxPending]
      /\ HostInv(h)' /\ Unsettled(h)' = Unsettled(h) \ {c}
      /\ \A i \in Calls : call'[h][i] = "running" => call[h][i] = "running" /\ i # c
      /\ \A g \in Hosts : g # h => SameHost(g)
  BY <1>0, ReleaseHost DEF Busy
<1>2. TypeOK'
  BY <1>0, <1>1 DEF TypeOK, Busy
<1>3. ASSUME NEW g \in Hosts PROVE HostInv(g)' /\ Locked(g)' /\ (mode'[g] = "closed" => Unsettled(g)' = {})
  <2>1. CASE g = h
    BY <1>1, <2>1, InvAt DEF Locked, Busy
  <2>2. CASE g # h
    BY <1>1, <2>2, InvAt, OtherHost DEF SameHost, Locked, Unsettled, Busy
  <2> QED
    BY <2>1, <2>2
<1> QED
  BY <1>2, <1>3, InvNext

\* A transaction that ends gives the lock back and resolves its promise.
LEMMA EndInv ==
  ASSUME Inv, NEW h \in Hosts, NEW c \in Calls, NEW outcome \in {"committed", "failed"},
         End(h, c, outcome)
  PROVE  Inv'
<1>0. TypeOK /\ HostInv(h) /\ Locked(h) /\ c \in Unsettled(h) /\ c \in Taken(h)
  BY InvAt DEF End, Unsettled, Taken
<1>1. \A j \in Taken(h) : j < c => j \in Settled(h)
  BY <1>0 DEF HostInv, InOrder, End
<1>2. /\ call' \in [Hosts -> [Calls -> CallStates]]
      /\ resolved' \in [Hosts -> SUBSET Promises]
      /\ pending' \in [Hosts -> 0..MaxPending]
      /\ HostInv(h)' /\ Unsettled(h)' = Unsettled(h) \ {c}
      /\ \A i \in Calls : call'[h][i] = "running" => call[h][i] = "running" /\ i # c
      /\ \A g \in Hosts : g # h => SameHost(g)
  BY <1>0, <1>1, ReleaseHost DEF End
<1>3. TypeOK'
  <2>1. store' \in Seq(Hosts \X Calls)
    <3>1. <<h, c>> \in Hosts \X Calls /\ store \in Seq(Hosts \X Calls)
      BY <1>0 DEF TypeOK
    <3>2. Append(store, <<h, c>>) \in Seq(Hosts \X Calls)
      BY <3>1
    <3> QED
      BY <3>1, <3>2 DEF End
  <2> QED
    BY <1>0, <1>2, <2>1 DEF TypeOK, End
<1>4. ASSUME NEW i \in Calls, call[h][i] = "running" PROVE i = c
  <2>1. i \in Taken(h) /\ i \notin Settled(h) /\ c \notin Settled(h) /\ call[h][i] # "waiting"
    BY <1>4, <1>0 DEF Taken, Settled, Unsettled
  <2>2. ~(i < c) /\ ~(c < i)
    BY <1>0, <1>1, <2>1 DEF HostInv, InOrder
  <2> QED
    BY <2>2 DEF Calls
<1>5. ASSUME NEW g \in Hosts PROVE HostInv(g)' /\ Locked(g)' /\ (mode'[g] = "closed" => Unsettled(g)' = {})
  <2>1. CASE g = h
    BY <1>2, <1>4, <2>1, InvAt DEF Locked, End
  <2>2. CASE g # h
    <3>1. lock = h
      BY <1>0 DEF Locked, End
    <3>2. HostInv(g)' /\ Unsettled(g)' = Unsettled(g)
      BY <1>2, <2>2, InvAt, OtherHost DEF SameHost, Unsettled
    <3>3. Locked(g)'
      BY <1>2, <2>2, <3>1, InvAt DEF SameHost, Locked, End
    <3> QED
      BY <3>2, <3>3, InvAt DEF End
  <2> QED
    BY <2>1, <2>2
<1> QED
  BY <1>3, <1>5, InvNext

-----------------------------------------------------------------------------
\* A closed queue is empty: its tail is settled, and so is what came before it.
LEMMA DrainedIsEmpty ==
  ASSUME TypeOK, NEW h \in Hosts, HostInv(h), Drained(h)
  PROVE  Unsettled(h) = {}
<1> SUFFICES ASSUME NEW i \in Unsettled(h) PROVE FALSE
  OBVIOUS
<1>1. i \in Calls /\ i \in Taken(h) /\ i \notin Settled(h) /\ i \in Nat /\ i # 0
  BY DEF Unsettled, Taken, Settled, Calls
<1>2. i <= tail[h] /\ tail[h] \in Promises
  BY <1>1 DEF HostInv, Chained, TypeOK
<1>3. tail[h] # 0
  BY <1>1, <1>2 DEF Promises
<1>4. tail[h] \in Settled(h)
  BY <1>3 DEF Drained, HostInv, Chained
<1>5. i # tail[h] /\ i < tail[h]
  BY <1>1, <1>2, <1>4 DEF Promises
<1>6. tail[h] \in Taken(h) /\ call[h][tail[h]] # "waiting"
  BY <1>4 DEF Settled, Taken
<1> QED
  BY <1>1, <1>5, <1>6 DEF HostInv, InOrder

\* Closing, and dying, change the mode of one process only.
LEMMA ModeInv ==
  ASSUME Inv, NEW h \in Hosts, Shut(h) \/ Close(h) \/ Die(h)
  PROVE  Inv'
<1>0. TypeOK /\ HostInv(h)
  BY InvAt
<1>1. UNCHANGED <<called, call, predecessor, tail, resolved, pending, store>>
  BY DEF Shut, Close, Die
<1>2. TypeOK'
  BY <1>0, <1>1 DEF TypeOK, Shut, Close, Die
<1>3. \A g \in Hosts : g # h => mode'[g] = mode[g]
  BY <1>0 DEF TypeOK, Shut, Close, Die
<1>4. Close(h) => Unsettled(h) = {}
  BY <1>0, DrainedIsEmpty DEF Close
<1>5. ASSUME NEW g \in Hosts PROVE HostInv(g)' /\ Locked(g)' /\ (mode'[g] = "closed" => Unsettled(g)' = {})
  <2>1. HostInv(g)' /\ Unsettled(g)' = Unsettled(g)
    BY <1>1, InvAt, OtherHost DEF SameHost, Unsettled
  <2>2. Locked(g)'
    BY <1>0, <1>1, InvAt DEF TypeOK, Locked, Shut, Close, Die
  <2>3. mode'[g] = "closed" => Unsettled(g) = {}
    <3>1. CASE g = h
      BY <1>0, <1>4, <3>1, InvAt DEF TypeOK, Shut, Close, Die
    <3>2. CASE g # h
      BY <1>3, <3>2, InvAt
    <3> QED
      BY <3>1, <3>2
  <2> QED
    BY <2>1, <2>2, <2>3
<1> QED
  BY <1>2, <1>5, InvNext

\* Every step keeps the invariant.
LEMMA NextInv == Inv /\ [Next]_vars => Inv'
<1> SUFFICES ASSUME Inv, [Next]_vars PROVE Inv'
  OBVIOUS
<1>1. CASE UNCHANGED vars
  <2>1. \A g \in Hosts : Unsettled(g)' = Unsettled(g)
    BY <1>1 DEF vars, Unsettled
  <2>2. \A g \in Hosts : HostInv(g)'
    BY <1>1, InvAt, OtherHost DEF vars, SameHost
  <2>3. TypeOK' /\ \A g \in Hosts : Locked(g)'
    BY <1>1, InvAt DEF vars, TypeOK, Locked, Inv
  <2> QED
    BY <1>1, <2>1, <2>2, <2>3, InvAt, InvNext DEF vars
<1>2. ASSUME NEW h \in Hosts, Refuse(h) \/ Accept(h) \/ Shut(h) \/ Work(h) \/ Die(h)
      PROVE  Inv'
  BY <1>2, RefuseInv, AcceptInv, BeginInv, BusyInv, EndInv, ModeInv DEF Work
<1> QED
  BY <1>1, <1>2 DEF Next

\* The queue of every process is first in, first out, counts its calls and is
\* empty when its connection is closed, in every reachable state.
THEOREM QueueCorrect == Spec => [](TypeOK /\ QueueInvariant /\ DrainedBeforeClose)
<1>1. Inv => TypeOK /\ QueueInvariant /\ DrainedBeforeClose
  BY DEF Inv
<1> QED
  BY InitInv, NextInv, <1>1, PTL DEF Spec

-----------------------------------------------------------------------------
\* The accepted calls of SerialWrites, as WriteQueue has them.
Accepted == [h \in Hosts |-> Unsettled(h)]

\* What SerialWrites sees of a step in which one process's calls change.
LEMMA AcceptedNext ==
  ASSUME NEW h \in Hosts, NEW S, Unsettled(h)' = S,
         \A g \in Hosts : g # h => Unsettled(g)' = Unsettled(g)
  PROVE  Accepted' = [Accepted EXCEPT ![h] = S]
BY DEF Accepted

LEMMA AcceptedSame ==
  ASSUME \A g \in Hosts : Unsettled(g)' = Unsettled(g)
  PROVE  Accepted' = Accepted
BY DEF Accepted

\* A step that changes one call of one process leaves the others' alone.
LEMMA OthersUnsettled ==
  ASSUME TypeOK, NEW h \in Hosts, NEW c \in Calls, NEW s \in CallStates, Becomes(h, c, s)
  PROVE  \A g \in Hosts : g # h => Unsettled(g)' = Unsettled(g)
BY BecomesRows DEF Unsettled

\* The cardinality SerialWrites speaks of is the cardinality.
LEMMA SerialCardinality == \A S : Serial!Cardinality(S) = Cardinality(S)
BY DEF Serial!Cardinality, Cardinality

\* A refused call is refused by SerialWrites, too.
LEMMA RefuseMaps == ASSUME Inv, NEW h \in Hosts, Refuse(h) PROVE Serial!Refuse(h)
<1> DEFINE c == called[h] + 1
<1>0. TypeOK /\ HostInv(h)
  BY InvAt
<1>1. c \in Calls /\ called[h] \in Nat /\ Becomes(h, c, "refused") /\ "refused" \in CallStates
  <2>1. c \in Calls /\ called[h] \in Nat
    BY <1>0, NextCall DEF Refuse
  <2>2. Becomes(h, c, "refused")
    BY DEF Refuse
  <2> QED
    BY <2>1, <2>2 DEF CallStates
<1>2. call[h][c] = "new"
  BY <1>0, <1>1 DEF HostInv, Chained
<1>3. Unsettled(h)' = Unsettled(h)
  <2>1. call'[h][c] = "refused" /\ \A i \in Calls : i # c => call'[h][i] = call[h][i]
    BY <1>0, <1>1, BecomesRows
  <2> HIDE DEF c
  <2> QED
    BY <1>2, <2>1 DEF Unsettled
<1>4. \A g \in Hosts : Unsettled(g)' = Unsettled(g)
  BY <1>0, <1>1, <1>3, OthersUnsettled
<1>5. Accepted' = Accepted
  BY <1>4, AcceptedSame
<1>6. Full(h) => Cardinality(Accepted[h]) >= MaxPending
  BY <1>0 DEF HostInv, Counted, Full, Accepted
<1> QED
  BY <1>0, <1>5, <1>6, SerialCardinality DEF Serial!Refuse, Refuse, Free, Accepted

\* An accepted call is added to the accepted ones.
LEMMA AcceptMaps == ASSUME Inv, NEW h \in Hosts, Accept(h) PROVE Serial!Accept(h)
<1> DEFINE c == called[h] + 1
<1>0. TypeOK /\ HostInv(h)
  BY InvAt
<1>1. c \in Calls /\ called[h] \in Nat /\ Becomes(h, c, "waiting") /\ "waiting" \in CallStates
  <2>1. c \in Calls /\ called[h] \in Nat
    BY <1>0, NextCall DEF Accept
  <2>2. Becomes(h, c, "waiting")
    BY DEF Accept
  <2> QED
    BY <2>1, <2>2 DEF CallStates
<1>2. Unsettled(h)' = Unsettled(h) \cup {c}
  <2>1. call'[h][c] = "waiting" /\ \A i \in Calls : i # c => call'[h][i] = call[h][i]
    BY <1>0, <1>1, BecomesRows
  <2> HIDE DEF c
  <2> QED
    BY <1>1, <2>1 DEF Unsettled
<1>3. Accepted' = [Accepted EXCEPT ![h] = Unsettled(h) \cup {c}]
  BY <1>0, <1>1, <1>2, OthersUnsettled, AcceptedNext
<1>4. Accepted[h] = Unsettled(h)
  BY DEF Accepted
<1>5. Cardinality(Accepted[h]) < MaxPending
  BY <1>0, <1>4, UnsettledFinite, QueueAssumption DEF HostInv, Counted, Accept, Full
<1> QED
  BY <1>3, <1>4, <1>5, SerialCardinality DEF Serial!Accept, Accept, Accepted

\* The end of a call is the run of the earliest accepted one.
LEMMA ReleaseMaps ==
  ASSUME Inv, NEW h \in Hosts, NEW c \in Calls, NEW outcome \in {"committed", "failed"},
         (Busy(h, c) /\ outcome = "failed") \/ End(h, c, outcome)
  PROVE  Serial!Run(h, c)
<1>0. TypeOK /\ HostInv(h) /\ c \in Unsettled(h) /\ c \in Taken(h) /\ mode[h] # "closed"
  BY InvAt DEF End, Busy, Turn, Unsettled, Taken
<1>1. \A j \in Taken(h) : j < c => j \in Settled(h)
  BY <1>0, TurnInOrder DEF HostInv, InOrder, End, Busy
<1>2. Release(h, c, outcome) /\ UNCHANGED <<called, predecessor, tail, mode>>
  BY DEF Busy, End
<1>3. Unsettled(h)' = Unsettled(h) \ {c} /\ \A g \in Hosts : g # h => SameHost(g)
  BY <1>0, <1>1, <1>2, ReleaseHost
<1>4. Accepted' = [Accepted EXCEPT ![h] = Unsettled(h) \ {c}]
  BY <1>3, AcceptedNext DEF SameHost, Unsettled
<1>5. \A j \in Unsettled(h) : c <= j
  <2> SUFFICES ASSUME NEW j \in Unsettled(h), ~(c <= j) PROVE FALSE
    OBVIOUS
  <2>1. j \in Taken(h) /\ j \notin Settled(h) /\ j < c
    BY DEF Unsettled, Taken, Settled, Calls
  <2> QED
    BY <1>1, <2>1
<1>6. mode[h] \in {"open", "closing"}
  BY <1>0 DEF TypeOK, Busy, End, Turn, Free
<1>7. store' \in {store, Append(store, <<h, c>>)}
  BY DEF Busy, End
<1>8. Accepted[h] = Unsettled(h)
  BY DEF Accepted
<1> QED
  BY <1>0, <1>2, <1>4, <1>5, <1>6, <1>7, <1>8 DEF Serial!Run, Accepted

\* The other steps: a call that begins is invisible to SerialWrites.
LEMMA BeginMaps ==
  ASSUME Inv, NEW h \in Hosts, NEW c \in Calls, Begin(h, c)
  PROVE  UNCHANGED <<called, Accepted, store, mode>>
<1>0. TypeOK /\ "running" \in CallStates
  BY InvAt DEF CallStates
<1>1. call'[h][c] = "running" /\ (\A i \in Calls : i # c => call'[h][i] = call[h][i])
  BY <1>0, BecomesRows DEF Begin
<1>2. Unsettled(h)' = Unsettled(h)
  BY <1>1 DEF Unsettled, Begin, Turn
<1>3. Accepted' = Accepted
  BY <1>0, <1>2, OthersUnsettled, AcceptedSame DEF Begin
<1> QED
  BY <1>3 DEF Begin

LEMMA ModeMaps ==
  ASSUME Inv, NEW h \in Hosts
  PROVE  /\ Shut(h) => Serial!Shut(h)
         /\ Close(h) => Serial!Close(h)
         /\ Die(h) => Serial!Die(h)
<1>1. UNCHANGED call => Accepted' = Accepted
  BY DEF Accepted, Unsettled
<1>2. Close(h) => Unsettled(h) = {} /\ Accepted[h] = {}
  BY InvAt, DrainedIsEmpty DEF Close, Accepted
<1>3. Shut(h) => Serial!Shut(h)
  BY <1>1 DEF Shut, Serial!Shut, Accepted
<1>4. Close(h) => Serial!Close(h)
  BY <1>1, <1>2 DEF Close, Serial!Close, Accepted
<1>5. Die(h) => Serial!Die(h)
  BY <1>1 DEF Die, Serial!Die, Accepted
<1> QED
  BY <1>3, <1>4, <1>5

\* The queue keeps the database's promise: every accepted call is run once, in
\* the order of the calls of its process, as one transaction; nothing runs
\* after the connection was closed.
THEOREM QueueIsSerial == Spec => SerialSpec
<1>1. Init => Serial!SerialInit
  <2> SUFFICES ASSUME Init PROVE Serial!SerialInit
    OBVIOUS
  <2>1. \A h \in Hosts : Unsettled(h) = {}
    BY DEF Init, Unsettled
  <2> QED
    BY <2>1 DEF Init, Serial!SerialInit
<1>2. Inv /\ [Next]_vars => [Serial!SerialNext]_(Serial!serialVars)
  <2> SUFFICES ASSUME Inv, [Next]_vars PROVE [Serial!SerialNext]_(Serial!serialVars)
    OBVIOUS
  <2>1. CASE UNCHANGED vars
    <3>1. \A g \in Hosts : Unsettled(g)' = Unsettled(g)
      BY <2>1 DEF vars, Unsettled
    <3> QED
      BY <2>1, <3>1 DEF vars, Serial!serialVars
  <2>2. ASSUME NEW h \in Hosts, Refuse(h) \/ Accept(h) \/ Shut(h) \/ Work(h) \/ Die(h)
        PROVE  Serial!SerialNext \/ UNCHANGED Serial!serialVars
    <3>1. CASE Refuse(h) \/ Accept(h) \/ Shut(h) \/ Close(h) \/ Die(h)
      BY <3>1, RefuseMaps, AcceptMaps, ModeMaps DEF Serial!SerialNext
    <3>2. ASSUME NEW c \in Calls, Begin(h, c) PROVE UNCHANGED Serial!serialVars
      BY <3>2, BeginMaps DEF Serial!serialVars, Accepted
    <3>3. ASSUME NEW c \in Calls, NEW outcome \in {"committed", "failed"},
                 (Busy(h, c) /\ outcome = "failed") \/ End(h, c, outcome)
          PROVE  Serial!SerialNext
      <4>1. Serial!Run(h, c)
        BY <3>3, ReleaseMaps
      <4> QED
        BY <4>1 DEF Serial!SerialNext, Serial!Calls, Calls
    <3> QED
      BY <2>2, <3>1, <3>2, <3>3 DEF Work
  <2> QED
    BY <2>1, <2>2 DEF Next
<1> QED
  BY InitInv, NextInv, <1>1, <1>2, PTL DEF Spec, SerialSpec, Serial!SerialSpec

-----------------------------------------------------------------------------
(* The starts of processes.  A process that has a file open keeps it, a    *)
(* file is empty until it is Experience's and then stays so, and the       *)
(* worker's job ends before the store is closed (Holds).  While no two     *)
(* openings have overlapped, an opening finds at each step what it read    *)
(* before (Alone): the processes that serve change no schema, and a dead   *)
(* one left a file in one of the shapes an upgrade passes through.         *)

Files == [app : {0, 1}, version : Nat, progress : BOOLEAN, ends : BOOLEAN, legacy : BOOLEAN,
          generation : Nat, condition : {"sound", "garbled", "damaged"},
          decisions : SUBSET {"kept", "new"}, pending : SUBSET {"observed", "history"}]
Steps == OpenSteps \cup {"down", "dbIdentity", "dbTables", "dbBootstrap", "principal", "worker", "learning",
                         "serving", "refused", "closing", "stop", "closeStore", "closeDatabase"}
Rows == [at : Steps, handle : Nat, saw : Nat, recovered : BOOLEAN, principal : {0, 1}, job : BOOLEAN]

LifeTypes ==
  /\ db \in [ready : BOOLEAN, owners : {{}, {1}}]
  /\ files \in Seq(Files) /\ current \in 0..Len(files)
  /\ proc \in [Processes -> Rows]
  /\ overlapped \in BOOLEAN

FileSteps == (OpenSteps \ {"ensure", "identity"}) \cup {"worker", "learning", "serving"}
OursSteps == FileSteps \ {"schema", "bootstrap", "invalid"}

Holds(h) ==
  /\ proc[h].handle # 0 => proc[h].handle \in DOMAIN files
  /\ proc[h].at \in FileSteps => proc[h].handle # 0
  /\ proc[h].at \in OursSteps \/ (proc[h].at = "schema" /\ proc[h].saw = 1) => Store(h).app = 1
  /\ proc[h].job => proc[h].at \in {"learning", "serving", "closing", "stop"} /\ proc[h].handle # 0
  /\ proc[h].principal # 0 => db.owners = {1}
  /\ proc[h].at \in {"down", "dbIdentity", "dbTables", "dbBootstrap", "principal"} => ~proc[h].recovered

EmptyOrOurs == \A i \in DOMAIN files : files[i].app = 0 => files[i] = EmptyFile

Good(f) == Readable(f) /\ f.version = 7 /\ ~f.legacy
Shaped(f) == f.version \in Recognised => /\ f.progress <=> f.version >= 6
                                         /\ f.ends <=> f.version >= 7

\* What an opening that no other has overlapped finds at its next step.
Alone(h) ==
  /\ proc[h].at # "refused"
  /\ proc[h].at = "ensure" /\ proc[h].recovered => current = 0
  /\ proc[h].at = "identity" => current # 0 /\ (proc[h].recovered => files[current] = EmptyFile)
  /\ proc[h].at \in FileSteps \cap OpenSteps => proc[h].handle = current
  /\ proc[h].at = "schema" => /\ proc[h].saw = Store(h).app /\ Store(h).condition # "garbled"
                              /\ proc[h].recovered => Store(h) = EmptyFile
  /\ proc[h].at = "bootstrap" => Store(h) = EmptyFile
  /\ proc[h].at = "dispositions" => Store(h).version = 4
  /\ proc[h].at = "progress" => Store(h).version = 5
  /\ proc[h].at = "requests" => Store(h).version = 6
  /\ proc[h].at \in {"legacy", "retire", "assert"} => Store(h).version = 7
  /\ proc[h].at = "retire" => Store(h).legacy /\ proc[h].saw = Store(h).generation + 1
  /\ proc[h].at = "assert" => ~Store(h).legacy /\ (proc[h].recovered => Store(h).condition = "sound")
  /\ proc[h].at = "invalid" => ~Readable(Store(h))
  /\ proc[h].at \in {"dispositions", "progress", "requests", "legacy", "retire", "invalid"} => ~proc[h].recovered
  /\ proc[h].at \in {"worker", "learning", "serving"} => Good(Store(h))

FilesAlone == \A i \in DOMAIN files : Shaped(files[i]) /\ (Readable(files[i]) => i = current)

OneOpens == \A h, k \in Processes : Opening(h) /\ Opening(k) => h = k

AloneInv == overlapped \/ (OneOpens /\ FilesAlone /\ \A h \in Processes : Alone(h))

LifeInv == LifeTypes /\ (\A h \in Processes : Holds(h)) /\ EmptyOrOurs /\ AloneInv

-----------------------------------------------------------------------------
LEMMA EmptyFileTyped == EmptyFile \in Files /\ EmptyFile.app = 0 /\ EmptyFile.version = 0 /\ EmptyFile.condition = "sound"
                        /\ EmptyFile.decisions = {} /\ EmptyFile.pending = {}
BY DEF EmptyFile, Files

LEMMA EarlierStoresTyped ==
  ASSUME NEW f \in EarlierStores
  PROVE  f \in Files /\ f.app = 1 /\ Shaped(f)
<1>1. ASSUME NEW v \in {4, 6, 7, 8}
      PROVE  StoreOf(v) \in Files /\ StoreOf(v).app = 1 /\ Shaped(StoreOf(v))
  <2> DEFINE p == CASE v = 6 -> {"observed", "history"} [] v >= 7 -> {"observed"} [] OTHER -> {}
  <2>1. p \in SUBSET {"observed", "history"}
    BY <1>1
  <2> DEFINE six == v >= 6
             seven == v >= 7
             four == v = 4
  <2>2. StoreOf(v) = [EmptyFile EXCEPT !.app = 1, !.version = v, !.progress = six, !.ends = seven,
                        !.legacy = four, !.decisions = {"kept"}, !.pending = p]
    BY DEF StoreOf
  <2>3. six \in BOOLEAN /\ seven \in BOOLEAN /\ four \in BOOLEAN /\ v \in Nat
    OBVIOUS
  <2> HIDE DEF p, six, seven, four
  <2>4. StoreOf(v) = [app |-> 1, version |-> v, progress |-> six, ends |-> seven, legacy |-> four,
                      generation |-> 0, condition |-> "sound", decisions |-> {"kept"}, pending |-> p]
    BY <2>2 DEF EmptyFile
  <2>5. /\ StoreOf(v) \in Files /\ StoreOf(v).app = 1 /\ StoreOf(v).version = v
        /\ StoreOf(v).progress = six /\ StoreOf(v).ends = seven
    BY <2>1, <2>3, <2>4 DEF Files
  <2> QED BY <2>5, <1>1 DEF Shaped, six, seven
<1>2. ASSUME NEW v \in {4, 6, 7, 8}, NEW c \in {"garbled", "damaged"}
      PROVE  LET g == [StoreOf(v) EXCEPT !.condition = c] IN g \in Files /\ g.app = 1 /\ Shaped(g)
  <2> HIDE DEF StoreOf
  <2> QED BY <1>1 DEF Files, Shaped
<1>3. CASE f \in {StoreOf(v) : v \in {4, 6, 7, 8}}
  BY <1>1, <1>3
<1>4. CASE f = [StoreOf(7) EXCEPT !.condition = "garbled"]
  BY <1>2, <1>4
<1>5. CASE f = [StoreOf(4) EXCEPT !.condition = "damaged"]
  BY <1>2, <1>5
<1> QED BY <1>3, <1>4, <1>5 DEF EarlierStores

LEMMA LifeInitInv == LifeInit => LifeInv
<1> SUFFICES ASSUME LifeInit PROVE LifeInv
  OBVIOUS
<1>1. \A h \in Processes : proc[h] = Down
  BY DEF LifeInit
<1>2. proc \in [Processes -> Rows] /\ overlapped = FALSE
  BY DEF LifeInit, Down, Rows, Steps
<1>3. /\ db \in [ready : BOOLEAN, owners : {{}, {1}}]
      /\ files \in Seq(Files) /\ current \in 0..Len(files)
      /\ \A i \in DOMAIN files : files[i].app = 1 /\ Shaped(files[i]) /\ i = current
  <2>1. CASE db = [ready |-> FALSE, owners |-> {}] /\ files = <<>> /\ current = 0
    BY <2>1
  <2>2. ASSUME NEW f \in EarlierStores, db = [ready |-> TRUE, owners |-> {1}], files = <<f>>, current = 1
        PROVE  /\ db \in [ready : BOOLEAN, owners : {{}, {1}}]
               /\ files \in Seq(Files) /\ current \in 0..Len(files)
               /\ \A i \in DOMAIN files : files[i].app = 1 /\ Shaped(files[i]) /\ i = current
    BY <2>2, EarlierStoresTyped
  <2> QED BY <2>1, <2>2 DEF LifeInit
<1>4. \A h \in Processes : Holds(h) /\ Alone(h) /\ ~Opening(h)
  BY <1>1 DEF Holds, Alone, Opening, OpenSteps, FileSteps, OursSteps, Down
<1>5. LifeTypes
  BY <1>2, <1>3 DEF LifeTypes
<1>6. EmptyOrOurs /\ FilesAlone
  BY <1>3 DEF EmptyOrOurs, FilesAlone
<1>7. OneOpens
  BY <1>4 DEF OneOpens
<1> QED BY <1>4, <1>5, <1>6, <1>7 DEF LifeInv, AloneInv

-----------------------------------------------------------------------------
\* What becomes of a process that goes on, and of a file that is written.
LEMMA GoesOn ==
  ASSUME LifeTypes, NEW h \in Processes, NEW to \in Steps, NEW read \in Nat, Goes(h, to, read)
  PROVE  /\ proc' \in [Processes -> Rows]
         /\ \A k \in Processes \ {h} : proc'[k] = proc[k]
         /\ proc'[h].at = to /\ proc'[h].saw = read /\ proc'[h].handle = proc[h].handle
         /\ proc'[h].recovered = proc[h].recovered /\ proc'[h].principal = proc[h].principal
         /\ proc'[h].job = proc[h].job
<1> DEFINE row == [proc[h] EXCEPT !.at = to, !.saw = read]
<1>1. proc[h] \in Rows /\ proc \in [Processes -> Rows]
  BY DEF LifeTypes
<1>2. /\ row \in Rows /\ row.at = to /\ row.saw = read /\ row.handle = proc[h].handle
      /\ row.recovered = proc[h].recovered /\ row.principal = proc[h].principal /\ row.job = proc[h].job
  BY <1>1 DEF Rows
<1>3. proc' = [proc EXCEPT ![h] = row]
  BY DEF Goes
<1> HIDE DEF row
<1>4. proc'[h] = row
  BY <1>1, <1>3
<1>5. proc' \in [Processes -> Rows] /\ \A k \in Processes \ {h} : proc'[k] = proc[k]
  BY <1>1, <1>2, <1>3
<1> QED BY <1>2, <1>4, <1>5

LEMMA WritesOne ==
  ASSUME LifeTypes, NEW h \in Processes, proc[h].handle \in DOMAIN files, NEW file \in Files, Writes(h, file)
  PROVE  /\ files' \in Seq(Files) /\ Len(files') = Len(files) /\ DOMAIN files' = DOMAIN files
         /\ files'[proc[h].handle] = file
         /\ \A i \in DOMAIN files \ {proc[h].handle} : files'[i] = files[i]
BY DEF LifeTypes, Writes

\* Files come and change, but one that is Experience's stays so.
FilesGrow == /\ DOMAIN files \subseteq DOMAIN files'
             /\ \A i \in DOMAIN files : files[i].app = 1 => files'[i].app = 1

\* One process takes a step: what it holds, and what the others hold.
LEMMA OneSteps ==
  ASSUME LifeInv, LifeTypes', NEW h \in Processes, \A k \in Processes \ {h} : proc'[k] = proc[k],
         Holds(h)', FilesGrow, EmptyOrOurs', AloneInv', db.owners = {1} => db'.owners = {1}
  PROVE  LifeInv'
<1>1. ASSUME NEW k \in Processes \ {h} PROVE Holds(k)'
  <2>1. Holds(k) /\ proc'[k] = proc[k]
    BY DEF LifeInv
  <2>2. /\ proc[k].handle # 0 => proc[k].handle \in DOMAIN files'
        /\ proc[k].handle \in DOMAIN files /\ Store(k).app = 1 => files'[proc[k].handle].app = 1
    BY <2>1 DEF FilesGrow, Holds, Store
  <2>3. OursSteps \subseteq FileSteps /\ "schema" \in FileSteps
    BY DEF OursSteps, FileSteps, OpenSteps
  <2> QED BY <2>1, <2>2, <2>3 DEF Holds, Store
<1> QED BY <1>1 DEF LifeInv

\* A file whose schema did not change.
Same(f, g) ==
  /\ g.app = f.app /\ g.version = f.version /\ g.progress = f.progress /\ g.ends = f.ends
  /\ g.legacy = f.legacy /\ g.generation = f.generation /\ g.condition = f.condition
  /\ f = EmptyFile => g = EmptyFile

\* Only an opening changes the schema of a file, and none of a good one, or
\* the path: the others find what they found.
LEMMA OthersAlone ==
  ASSUME LifeInv, ~overlapped, NEW h \in Processes, \A k \in Processes \ {h} : proc'[k] = proc[k],
         Opening(h)' => \A k \in Processes \ {h} : ~Opening(k),
         DOMAIN files \subseteq DOMAIN files',
         \A i \in DOMAIN files : Same(files[i], files'[i]) \/ (Opening(h) /\ ~Good(files[i])),
         current' = current \/ Opening(h),
         Alone(h)', FilesAlone'
  PROVE  AloneInv'
<1>1. OneOpens /\ \A k \in Processes : Alone(k)
  BY DEF LifeInv, AloneInv
<1>2. OneOpens'
  BY <1>1 DEF OneOpens, Opening
<1>3. ASSUME NEW k \in Processes \ {h} PROVE Alone(k)'
  <2>1. Alone(k) /\ proc'[k] = proc[k] /\ Holds(k)
    BY <1>1 DEF LifeInv
  <2>2. CASE Opening(k)
    <3>1. ~Opening(h)
      BY <2>2, <1>1 DEF OneOpens
    <3>2. current' = current /\ \A i \in DOMAIN files : Same(files[i], files'[i])
      BY <3>1
    <3>3. current # 0 => current \in DOMAIN files
      BY DEF LifeInv, LifeTypes
    <3>4. proc[k].at \notin {"worker", "learning", "serving", "refused"}
      BY <2>2 DEF Opening, OpenSteps
    <3>5. proc[k].at \in FileSteps => Same(Store(k), files'[proc[k].handle])
      BY <3>2, <2>1 DEF Holds, Store
    <3>6. proc[k].at = "identity" => Same(files[current], files'[current])
      BY <3>2, <3>3, <2>1 DEF Alone
    <3>7. "schema" \in FileSteps /\ "bootstrap" \in FileSteps /\ "dispositions" \in FileSteps
          /\ "progress" \in FileSteps /\ "requests" \in FileSteps /\ "legacy" \in FileSteps
          /\ "retire" \in FileSteps /\ "assert" \in FileSteps /\ "invalid" \in FileSteps
      BY DEF FileSteps, OpenSteps
    <3> QED BY <2>1, <3>2, <3>4, <3>5, <3>6, <3>7 DEF Alone, Same, Store, Readable
  <2>3. CASE proc[k].at \in {"worker", "learning", "serving"}
    <3>1. Good(Store(k)) /\ proc[k].handle \in DOMAIN files
      BY <2>1, <2>3 DEF Alone, Holds, FileSteps
    <3>2. Same(Store(k), files'[proc[k].handle])
      BY <3>1 DEF Store
    <3>3. Good(files'[proc[k].handle])
      BY <3>1, <3>2 DEF Good, Same, Readable
    <3> QED BY <2>1, <2>3, <3>3 DEF Alone, Store, FileSteps, OpenSteps
  <2>4. CASE ~Opening(k) /\ proc[k].at \notin {"worker", "learning", "serving"}
    BY <2>1, <2>4 DEF Alone, Opening, OpenSteps, FileSteps
  <2> QED BY <2>2, <2>3, <2>4
<1> QED BY <1>2, <1>3 DEF AloneInv

-----------------------------------------------------------------------------
\* Steps that leave the files and the path alone.
LEMMA StepWithoutFiles ==
  ASSUME LifeInv, NEW h \in Processes, proc' \in [Processes -> Rows],
         \A k \in Processes \ {h} : proc'[k] = proc[k],
         db' \in [ready : BOOLEAN, owners : {{}, {1}}], db.owners = {1} => db'.owners = {1},
         overlapped' \in BOOLEAN, overlapped => overlapped',
         ~overlapped' => (Opening(h)' => \A k \in Processes \ {h} : ~Opening(k)),
         UNCHANGED <<files, current>>, Holds(h)', ~overlapped => Alone(h)'
  PROVE  LifeInv'
<1>1. LifeTypes' /\ FilesGrow /\ EmptyOrOurs'
  BY DEF LifeInv, LifeTypes, FilesGrow, EmptyOrOurs
<1>2. ~overlapped => FilesAlone'
  BY DEF LifeInv, AloneInv, FilesAlone
<1>3. \A i \in DOMAIN files : Same(files[i], files'[i])
  BY DEF Same
<1>4. AloneInv'
  <2>1. CASE overlapped'
    BY <2>1 DEF AloneInv
  <2>2. CASE ~overlapped'
    BY <2>2, <1>2, <1>3, OthersAlone
  <2> QED BY <2>1, <2>2
<1> QED BY <1>1, <1>4, OneSteps

LEMMA DatabaseStepsInv ==
  ASSUME LifeInv, NEW h \in Processes,
         Start(h) \/ SeeDatabase(h) \/ SeeTables(h) \/ BootstrapDatabase(h)
  PROVE  LifeInv'
<1>0. LifeTypes /\ Holds(h)
  BY DEF LifeInv
<1>1. PICK to \in {"dbIdentity", "dbTables", "dbBootstrap", "principal", "down"} : Goes(h, to, 0)
  BY DEF Start, SeeDatabase, SeeTables, BootstrapDatabase
<1>2. to \in Steps /\ proc[h].at \in {"down", "dbIdentity", "dbTables", "dbBootstrap"}
  BY DEF Steps, Start, SeeDatabase, SeeTables, BootstrapDatabase
<1>3. /\ proc' \in [Processes -> Rows]
      /\ \A k \in Processes \ {h} : proc'[k] = proc[k]
      /\ proc'[h].at = to /\ proc'[h].handle = proc[h].handle /\ proc'[h].recovered = proc[h].recovered
      /\ proc'[h].principal = proc[h].principal /\ proc'[h].job = proc[h].job
  BY <1>0, <1>1, <1>2, GoesOn
<1>4. UNCHANGED <<files, current, overlapped>> /\ db'.owners = db.owners
      /\ db' \in [ready : BOOLEAN, owners : {{}, {1}}]
  BY <1>0 DEF Start, SeeDatabase, SeeTables, BootstrapDatabase, LifeTypes
<1>5. ~Opening(h)' /\ Alone(h)'
  BY <1>3 DEF Opening, OpenSteps, FileSteps, Alone
<1>6. Holds(h)'
  BY <1>0, <1>2, <1>3, <1>4 DEF Holds, FileSteps, OursSteps, OpenSteps
<1> QED BY <1>0, <1>3, <1>4, <1>5, <1>6, StepWithoutFiles DEF LifeTypes

LEMMA InitializePrincipalInv ==
  ASSUME LifeInv, NEW h \in Processes, InitializePrincipal(h)
  PROVE  LifeInv'
<1> DEFINE p == CHOOSE q \in Owner(db.owners) : TRUE
           row == [proc[h] EXCEPT !.at = "ensure", !.principal = 1]
<1>0. LifeTypes /\ Holds(h) /\ proc[h] \in Rows /\ proc[h].at = "principal"
  BY DEF LifeInv, LifeTypes, InitializePrincipal
<1>1. p = 1 /\ db.owners \cup Owner(db.owners) = {1}
  BY <1>0 DEF LifeTypes, Owner
<1>2. proc' = [proc EXCEPT ![h] = row]
  <2>1. proc' = [proc EXCEPT ![h].at = "ensure", ![h].principal = p]
    BY DEF InitializePrincipal
  <2> HIDE DEF p
  <2> QED BY <1>1, <2>1
<1>3. /\ row \in Rows /\ row.at = "ensure" /\ row.principal = 1 /\ row.handle = proc[h].handle
      /\ row.recovered = proc[h].recovered /\ row.job = proc[h].job
  BY <1>0, <1>1 DEF Rows, Steps, OpenSteps
<1> HIDE DEF row
<1>4. /\ proc' \in [Processes -> Rows] /\ proc'[h] = row
      /\ \A k \in Processes \ {h} : proc'[k] = proc[k]
  BY <1>0, <1>2, <1>3 DEF LifeTypes
<1>5. /\ db'.owners = {1} /\ db' \in [ready : BOOLEAN, owners : {{}, {1}}]
      /\ UNCHANGED <<files, current>>
      /\ overlapped' = (overlapped \/ \E k \in Processes \ {h} : Opening(k))
  BY <1>0, <1>1 DEF InitializePrincipal, LifeTypes
<1>6. Holds(h)'
  BY <1>0, <1>3, <1>4, <1>5 DEF Holds, FileSteps, OursSteps, OpenSteps
<1>7. Alone(h)'
  BY <1>0, <1>3, <1>4 DEF Alone, FileSteps, OpenSteps, Holds
<1> QED BY <1>0, <1>4, <1>5, <1>6, <1>7, StepWithoutFiles DEF LifeTypes

-----------------------------------------------------------------------------
\* Steps that write the file that is open.
LEMMA StepWrites ==
  ASSUME LifeInv, NEW h \in Processes, proc[h].handle \in DOMAIN files,
         proc' \in [Processes -> Rows], \A k \in Processes \ {h} : proc'[k] = proc[k],
         NEW file \in Files, Writes(h, file), UNCHANGED <<db, current, overlapped>>,
         file.app = 0 => file = EmptyFile, Store(h).app = 1 => file.app = 1,
         Opening(h)' => Opening(h), Holds(h)',
         ~overlapped => /\ Alone(h)' /\ Shaped(file) /\ (Readable(file) => proc[h].handle = current)
                        /\ Same(Store(h), file) \/ (Opening(h) /\ ~Good(Store(h)))
  PROVE  LifeInv'
<1>1. /\ files' \in Seq(Files) /\ Len(files') = Len(files) /\ DOMAIN files' = DOMAIN files
      /\ files'[proc[h].handle] = file
      /\ \A i \in DOMAIN files \ {proc[h].handle} : files'[i] = files[i]
  BY WritesOne DEF LifeInv
<1>2. LifeTypes'
  BY <1>1 DEF LifeInv, LifeTypes
<1>3. FilesGrow /\ EmptyOrOurs'
  BY <1>1 DEF FilesGrow, EmptyOrOurs, LifeInv, Store
<1>4. AloneInv'
  <2>1. CASE overlapped
    BY <2>1 DEF AloneInv
  <2>2. CASE ~overlapped
    <3>1. FilesAlone'
      BY <1>1, <2>2 DEF FilesAlone, LifeInv, AloneInv
    <3>2. \A i \in DOMAIN files : Same(files[i], files'[i]) \/ (Opening(h) /\ ~Good(files[i]))
      BY <1>1, <2>2 DEF Same, Store
    <3>3. Opening(h)' => \A k \in Processes \ {h} : ~Opening(k)
      BY <2>2 DEF LifeInv, AloneInv, OneOpens
    <3> QED BY <3>1, <3>2, <3>3, <2>2, <1>1, OthersAlone
  <2> QED BY <2>1, <2>2
<1> QED BY <1>2, <1>3, <1>4, OneSteps

\* What is known of the file a process has open.
LEMMA OpenFile ==
  ASSUME LifeInv, NEW h \in Processes, proc[h].at \in FileSteps
  PROVE  /\ proc[h].handle \in DOMAIN files /\ Store(h) \in Files
         /\ proc[h].at \in OursSteps => Store(h).app = 1
         /\ Store(h).app = 0 => Store(h) = EmptyFile
         /\ proc[h] \in Rows /\ LifeTypes /\ Holds(h)
         /\ ~overlapped => Alone(h) /\ Shaped(Store(h)) /\ (Readable(Store(h)) => proc[h].handle = current)
                           /\ (Opening(h) => \A k \in Processes \ {h} : ~Opening(k))
<1>1. proc[h].handle \in DOMAIN files
  BY DEF LifeInv, Holds
<1>2. Store(h) \in Files
  BY <1>1 DEF LifeInv, LifeTypes, Store
<1> QED BY <1>1, <1>2 DEF LifeInv, Holds, EmptyOrOurs, LifeTypes, AloneInv, FilesAlone, OneOpens, Store

LEMMA SeeSchemaInv ==
  ASSUME LifeInv, NEW h \in Processes, SeeSchema(h)
  PROVE  LifeInv'
<1> DEFINE to == OpenPath(proc[h].saw, Store(h).version)
<1>1. proc[h].at = "schema" /\ proc[h].at \in FileSteps /\ Opening(h) /\ UNCHANGED <<db, files, current, overlapped>>
  BY DEF SeeSchema, FileSteps, OpenSteps, Opening
<1>2. /\ proc[h].handle \in DOMAIN files /\ Store(h) \in Files /\ LifeTypes /\ Holds(h) /\ proc[h] \in Rows
      /\ Store(h).app = 0 => Store(h) = EmptyFile
      /\ ~overlapped => Alone(h) /\ (\A k \in Processes \ {h} : ~Opening(k))
  BY <1>1, OpenFile
<1>3. \/ to = "bootstrap" /\ proc[h].saw = 0 /\ Store(h).version = 0
      \/ to = "invalid" /\ (proc[h].saw # 0 \/ Store(h).version # 0) /\ (proc[h].saw # 1 \/ Store(h).version \notin Recognised)
      \/ to = "dispositions" /\ Store(h).version = 4 /\ proc[h].saw = 1
      \/ to = "progress" /\ Store(h).version = 5 /\ proc[h].saw = 1
      \/ to = "requests" /\ Store(h).version = 6 /\ proc[h].saw = 1
      \/ to = "legacy" /\ Store(h).version = 7 /\ proc[h].saw = 1
  BY <1>2 DEF OpenPath, Recognised, Files
<1>4. Goes(h, to, 0)
  BY DEF SeeSchema
<1> HIDE DEF to
<1>5. to \in {"bootstrap", "invalid", "dispositions", "progress", "requests", "legacy"} /\ to \in Steps
  BY <1>3 DEF Steps, OpenSteps
<1>6. /\ proc' \in [Processes -> Rows]
      /\ \A k \in Processes \ {h} : proc'[k] = proc[k]
      /\ proc'[h].at = to /\ proc'[h].handle = proc[h].handle /\ proc'[h].recovered = proc[h].recovered
      /\ proc'[h].principal = proc[h].principal /\ proc'[h].job = proc[h].job
  BY <1>2, <1>4, <1>5, GoesOn
<1>7. Holds(h)'
  BY <1>1, <1>2, <1>3, <1>5, <1>6 DEF Holds, Store, FileSteps, OursSteps, OpenSteps
<1>8. ASSUME ~overlapped PROVE Alone(h)'
  <2>1. /\ Alone(h) /\ proc[h].saw = Store(h).app /\ proc[h].handle = current
        /\ proc[h].recovered => Store(h) = EmptyFile
    BY <1>1, <1>2, <1>8 DEF Alone, FileSteps, OpenSteps
  <2>2. proc[h].recovered => to = "bootstrap"
    BY <2>1, <1>3, EmptyFileTyped
  <2>3. Store(h)' = Store(h)
    BY <1>1, <1>6 DEF Store
  <2>4. to = "bootstrap" => Store(h) = EmptyFile
    BY <2>1, <1>2, <1>3
  <2>5. to = "invalid" => ~Readable(Store(h))
    BY <2>1, <1>3 DEF Readable
  <2> QED BY <2>1, <2>2, <2>3, <2>4, <2>5, <1>1, <1>3, <1>5, <1>6 DEF Alone, FileSteps, OpenSteps
<1> QED BY <1>1, <1>2, <1>6, <1>7, <1>8, StepWithoutFiles DEF LifeTypes

\* The reads of an opening that is on its way, and of one that has come up.
LEMMA ReadsInv ==
  ASSUME LifeInv, NEW h \in Processes, SeeLegacy(h) \/ AssertStore(h) \/ Publish(h)
  PROVE  LifeInv'
<1>1. /\ proc[h].at \in {"legacy", "assert", "learning"} /\ UNCHANGED <<db, files, current, overlapped>>
      /\ proc[h].at # "learning" => Opening(h)
  BY DEF SeeLegacy, AssertStore, Publish, OpenSteps, Opening
<1>2. proc[h].at \in FileSteps /\ proc[h].at \in OursSteps
  BY <1>1 DEF FileSteps, OpenSteps, OursSteps
<1>3. /\ proc[h].handle \in DOMAIN files /\ Store(h) \in Files /\ LifeTypes /\ Holds(h) /\ proc[h] \in Rows
      /\ Store(h).app = 1
      /\ ~overlapped => Alone(h) /\ Shaped(Store(h)) /\ (Opening(h) => \A k \in Processes \ {h} : ~Opening(k))
  BY <1>2, OpenFile
<1>4. PICK to \in Steps, read \in Nat :
        /\ Goes(h, to, read)
        /\ \/ proc[h].at = "legacy" /\ Store(h).legacy /\ to = "retire" /\ read = Store(h).generation + 1
           \/ proc[h].at = "legacy" /\ ~Store(h).legacy /\ to = "assert"
           \/ proc[h].at = "assert" /\ Store(h).condition = "sound" /\ Store(h).progress /\ to = "worker"
           \/ proc[h].at = "assert" /\ ~(Store(h).condition = "sound" /\ Store(h).progress) /\ to = "invalid"
           \/ proc[h].at = "learning" /\ to = "serving"
  <2>1. Store(h).generation + 1 \in Nat
    BY <1>3 DEF Files
  <2>2. {"retire", "assert", "worker", "invalid", "serving"} \subseteq Steps
    BY DEF Steps, OpenSteps
  <2>3. CASE SeeLegacy(h)
    BY <2>1, <2>2, <2>3 DEF SeeLegacy
  <2>4. CASE AssertStore(h)
    BY <2>2, <2>4 DEF AssertStore
  <2>5. CASE Publish(h)
    BY <2>2, <2>5 DEF Publish
  <2> QED BY <2>3, <2>4, <2>5
<1>5. /\ proc' \in [Processes -> Rows]
      /\ \A k \in Processes \ {h} : proc'[k] = proc[k]
      /\ proc'[h].at = to /\ proc'[h].handle = proc[h].handle /\ proc'[h].recovered = proc[h].recovered
      /\ proc'[h].principal = proc[h].principal /\ proc'[h].job = proc[h].job /\ proc'[h].saw = read
  BY <1>3, <1>4, GoesOn
<1>6. Holds(h)'
  BY <1>1, <1>3, <1>4, <1>5 DEF Holds, Store, FileSteps, OursSteps, OpenSteps
<1>7. Opening(h)' => Opening(h)
  BY <1>1, <1>4, <1>5 DEF Opening, OpenSteps
<1>8. ASSUME ~overlapped PROVE Alone(h)'
  <2>1. Alone(h) /\ Store(h)' = Store(h)
    BY <1>3, <1>1, <1>5, <1>8 DEF Store
  <2>2. proc[h].at # "learning" => proc[h].handle = current /\ Store(h).version = 7
    BY <2>1, <1>1 DEF Alone, FileSteps, OpenSteps
  <2>3. proc[h].at # "learning" => Store(h).progress
    BY <2>2, <1>3, <1>8 DEF Shaped, Recognised
  <2>4. CASE proc[h].at = "legacy"
    BY <2>1, <2>2, <2>4, <1>1, <1>4, <1>5 DEF Alone, FileSteps, OpenSteps
  <2>5. CASE proc[h].at = "assert"
    <3>1. ~Store(h).legacy /\ (proc[h].recovered => Store(h).condition = "sound")
      BY <2>1, <2>5 DEF Alone
    <3>2. to = "worker" => Good(Store(h))
      BY <3>1, <2>2, <2>5, <1>3, <1>4 DEF Good, Readable, Recognised
    <3>3. to = "invalid" => ~Readable(Store(h)) /\ ~proc[h].recovered
      BY <3>1, <2>3, <2>5, <1>4 DEF Readable
    <3>4. to \in {"worker", "invalid"}
      BY <1>4, <2>5
    <3> QED BY <2>1, <2>2, <2>5, <3>2, <3>3, <3>4, <1>1, <1>5 DEF Alone, FileSteps, OpenSteps
  <2>6. CASE proc[h].at = "learning"
    BY <2>1, <2>6, <1>4, <1>5 DEF Alone, FileSteps, OpenSteps
  <2> QED BY <2>4, <2>5, <2>6, <1>1
<1> QED BY <1>1, <1>3, <1>5, <1>6, <1>7, <1>8, StepWithoutFiles DEF LifeTypes

-----------------------------------------------------------------------------
\* The file at the path, found or made.
LEMMA CreatesFile ==
  ASSUME LifeInv, Creates
  PROVE  /\ files' \in Seq(Files) /\ current' \in 1..Len(files') /\ current' \in DOMAIN files' /\ current' # 0
         /\ DOMAIN files \subseteq DOMAIN files' /\ \A i \in DOMAIN files : files'[i] = files[i]
         /\ \A i \in DOMAIN files' \ DOMAIN files : files'[i] = EmptyFile
         /\ current # 0 => current' = current
         /\ current = 0 => files'[current'] = EmptyFile
<1>0. files \in Seq(Files) /\ current \in 0..Len(files)
  BY DEF LifeInv, LifeTypes
<1>1. CASE current = 0
  <2>1. files' = Append(files, EmptyFile) /\ current' = Len(files) + 1
    BY <1>1 DEF Creates
  <2>2. EmptyFile \in Files
    BY EmptyFileTyped
  <2> HIDE DEF EmptyFile
  <2> QED BY <1>0, <1>1, <2>1, <2>2
<1>2. CASE current # 0
  BY <1>0, <1>2 DEF Creates
<1> QED BY <1>1, <1>2

LEMMA StepCreates ==
  ASSUME LifeInv, NEW h \in Processes, Opening(h), Creates,
         proc' \in [Processes -> Rows], \A k \in Processes \ {h} : proc'[k] = proc[k],
         UNCHANGED <<db, overlapped>>, Holds(h)', ~overlapped => Alone(h)'
  PROVE  LifeInv'
<1>1. /\ files' \in Seq(Files) /\ current' \in 1..Len(files') /\ current' \in DOMAIN files' /\ current' # 0
      /\ DOMAIN files \subseteq DOMAIN files' /\ \A i \in DOMAIN files : files'[i] = files[i]
      /\ \A i \in DOMAIN files' \ DOMAIN files : files'[i] = EmptyFile
      /\ current # 0 => current' = current
      /\ current = 0 => files'[current'] = EmptyFile
  BY CreatesFile
<1>2. LifeTypes'
  BY <1>1 DEF LifeInv, LifeTypes
<1>3. FilesGrow
  BY <1>1 DEF FilesGrow
<1>4. EmptyOrOurs'
  <2> HIDE DEF EmptyFile
  <2> QED BY <1>1 DEF EmptyOrOurs, LifeInv
<1>5. ASSUME ~overlapped PROVE FilesAlone'
  <2>1. FilesAlone
    BY <1>5 DEF LifeInv, AloneInv
  <2>2. Shaped(EmptyFile) /\ ~Readable(EmptyFile)
    BY EmptyFileTyped DEF Shaped, Readable, Recognised
  <2>3. ASSUME NEW i \in DOMAIN files' PROVE Shaped(files'[i]) /\ (Readable(files'[i]) => i = current')
    <3>1. CASE i \in DOMAIN files
      <4>1. i # 0
        BY <3>1 DEF LifeInv, LifeTypes
      <4> QED BY <3>1, <4>1, <1>1, <2>1 DEF FilesAlone
    <3>2. CASE i \notin DOMAIN files
      BY <3>2, <1>1, <2>2
    <3> QED BY <3>1, <3>2
  <2> QED BY <2>3 DEF FilesAlone
<1>6. ~overlapped => \A k \in Processes \ {h} : ~Opening(k)
  BY DEF LifeInv, AloneInv, OneOpens
<1>7. \A i \in DOMAIN files : Same(files[i], files'[i])
  BY <1>1 DEF Same
<1>8. AloneInv'
  <2>1. CASE overlapped
    BY <2>1 DEF AloneInv
  <2>2. CASE ~overlapped
    BY <2>2, <1>1, <1>5, <1>6, <1>7, OthersAlone
  <2> QED BY <2>1, <2>2
<1> QED BY <1>2, <1>3, <1>4, <1>8, OneSteps

LEMMA EnsureFileInv ==
  ASSUME LifeInv, NEW h \in Processes, EnsureFile(h)
  PROVE  LifeInv'
<1>1. /\ proc[h].at = "ensure" /\ Opening(h) /\ Creates /\ Goes(h, "identity", 0)
      /\ UNCHANGED <<db, overlapped>> /\ "identity" \in Steps /\ LifeTypes
  BY DEF EnsureFile, OpenSteps, Opening, Steps, LifeInv
<1>2. /\ proc' \in [Processes -> Rows]
      /\ \A k \in Processes \ {h} : proc'[k] = proc[k]
      /\ proc'[h].at = "identity" /\ proc'[h].saw = 0 /\ proc'[h].handle = proc[h].handle
      /\ proc'[h].recovered = proc[h].recovered /\ proc'[h].principal = proc[h].principal
      /\ proc'[h].job = proc[h].job
  BY <1>1, GoesOn
<1>3. /\ current' # 0 /\ DOMAIN files \subseteq DOMAIN files'
      /\ current = 0 => files'[current'] = EmptyFile
  BY <1>1, CreatesFile
<1>4. Holds(h)'
  BY <1>1, <1>2, <1>3 DEF LifeInv, Holds, FileSteps, OursSteps, OpenSteps
<1>5. ~overlapped => Alone(h)'
  <2> SUFFICES ASSUME ~overlapped PROVE Alone(h)'
    OBVIOUS
  <2>1. proc[h].recovered => current = 0
    BY <1>1 DEF LifeInv, AloneInv, Alone
  <2> QED BY <2>1, <1>2, <1>3 DEF Alone, FileSteps, OpenSteps
<1> QED BY <1>1, <1>2, <1>4, <1>5, StepCreates

LEMMA SeeIdentityInv ==
  ASSUME LifeInv, NEW h \in Processes, SeeIdentity(h)
  PROVE  LifeInv'
<1> DEFINE f == files'[current']
           to == IF f.condition = "garbled" THEN "invalid" ELSE "schema"
           row == [proc[h] EXCEPT !.handle = current', !.saw = f.app, !.at = to]
<1>1. /\ proc[h].at = "identity" /\ Opening(h) /\ Creates /\ proc' = [proc EXCEPT ![h] = row]
      /\ UNCHANGED <<db, overlapped>>
  BY DEF SeeIdentity, OpenSteps, Opening
<1>2. /\ files' \in Seq(Files) /\ current' \in 1..Len(files') /\ current' \in DOMAIN files' /\ current' # 0
      /\ DOMAIN files \subseteq DOMAIN files' /\ \A i \in DOMAIN files : files'[i] = files[i]
      /\ current # 0 => current' = current
      /\ current = 0 => files'[current'] = EmptyFile
  BY <1>1, CreatesFile
<1>3. f \in Files /\ to \in Steps /\ proc[h] \in Rows /\ proc \in [Processes -> Rows]
  BY <1>2 DEF Steps, OpenSteps, LifeInv, LifeTypes
<1>4. f.app \in Nat /\ f.app \in {0, 1} /\ current' \in Nat
  BY <1>2, <1>3 DEF Files
<1> HIDE DEF f
<1>5. /\ row \in Rows /\ row.at = to /\ row.saw = f.app /\ row.handle = current'
      /\ row.recovered = proc[h].recovered /\ row.principal = proc[h].principal /\ row.job = proc[h].job
  <2> HIDE DEF to
  <2> QED BY <1>3, <1>4 DEF Rows
<1> HIDE DEF row
<1>6. /\ proc' \in [Processes -> Rows] /\ proc'[h] = row
      /\ \A k \in Processes \ {h} : proc'[k] = proc[k]
  BY <1>1, <1>3, <1>5
<1>7. Store(h)' = f
  BY <1>5, <1>6 DEF Store, f
<1>8. to \in {"invalid", "schema"}
  OBVIOUS
<1>9. Holds(h)'
  BY <1>1, <1>2, <1>4, <1>5, <1>6, <1>7, <1>8 DEF LifeInv, Holds, FileSteps, OursSteps, OpenSteps
<1>10. ~overlapped => Alone(h)'
  <2> SUFFICES ASSUME ~overlapped PROVE Alone(h)'
    OBVIOUS
  <2>1. current # 0 /\ (proc[h].recovered => files[current] = EmptyFile)
    BY <1>1 DEF LifeInv, AloneInv, Alone
  <2>2. f = files[current]
    BY <2>1, <1>2 DEF f, LifeInv, LifeTypes
  <2>3. to = "invalid" => ~Readable(f) /\ ~proc[h].recovered
    BY <2>1, <2>2, EmptyFileTyped DEF Readable
  <2>4. to = "schema" => f.condition # "garbled"
    OBVIOUS
  <2> QED BY <2>1, <2>2, <2>3, <2>4, <1>5, <1>6, <1>7, <1>8 DEF Alone, FileSteps, OpenSteps
<1> QED BY <1>1, <1>6, <1>9, <1>10, StepCreates

-----------------------------------------------------------------------------
\* A transaction of an opening on the file it has open, and what comes next.
LEMMA OpeningWrites ==
  ASSUME LifeInv, NEW h \in Processes, proc[h].at \in FileSteps \cap OpenSteps,
         NEW file \in Files, Writes(h, file), file.app = 1,
         NEW to \in {"progress", "legacy", "assert"}, Goes(h, to, 0), UNCHANGED <<db, current, overlapped>>,
         ~overlapped => /\ ~Good(Store(h)) /\ Shaped(file)
                        /\ to = "progress" => file.version = 5 /\ ~proc[h].recovered
                        /\ to = "legacy" => file.version = 7 /\ ~proc[h].recovered
                        /\ to = "assert" => file.version = 7 /\ ~file.legacy /\ (proc[h].recovered => file.condition = "sound")
  PROVE  LifeInv'
<1>1. /\ proc[h].handle \in DOMAIN files /\ Store(h) \in Files /\ LifeTypes /\ Holds(h) /\ proc[h] \in Rows
      /\ ~overlapped => Alone(h) /\ Shaped(Store(h)) /\ (Readable(Store(h)) => proc[h].handle = current)
  BY OpenFile
<1>2. to \in Steps
  BY DEF Steps, OpenSteps
<1>3. /\ proc' \in [Processes -> Rows]
      /\ \A k \in Processes \ {h} : proc'[k] = proc[k]
      /\ proc'[h].at = to /\ proc'[h].saw = 0 /\ proc'[h].handle = proc[h].handle
      /\ proc'[h].recovered = proc[h].recovered /\ proc'[h].principal = proc[h].principal
      /\ proc'[h].job = proc[h].job
  BY <1>1, <1>2, GoesOn
<1>4. Store(h)' = file /\ DOMAIN files' = DOMAIN files
  BY <1>1, <1>3, WritesOne DEF Store
<1>5. Opening(h) /\ Opening(h)'
  BY <1>3 DEF Opening, OpenSteps
<1>6. Holds(h)'
  BY <1>1, <1>3, <1>4 DEF Holds, FileSteps, OursSteps, OpenSteps
<1>7. ~overlapped => proc[h].handle = current
  BY <1>1 DEF Alone
<1>8. ~overlapped => Alone(h)'
  BY <1>3, <1>4, <1>7 DEF Alone, FileSteps, OpenSteps
<1> QED BY <1>1, <1>3, <1>5, <1>6, <1>7, <1>8, StepWrites

\* An opening gives up; only one that another overlaps does.
LEMMA OpeningLeaves ==
  ASSUME LifeInv, NEW h \in Processes, proc[h].at \in FileSteps \cap OpenSteps,
         NEW to \in {"refused", "invalid", "assert"}, Goes(h, to, 0), UNCHANGED <<db, files, current, overlapped>>,
         to = "assert" => Store(h).app = 1, overlapped
  PROVE  LifeInv'
<1>1. /\ proc[h].handle \in DOMAIN files /\ LifeTypes /\ Holds(h) /\ proc[h] \in Rows
  BY OpenFile
<1>2. to \in Steps
  BY DEF Steps, OpenSteps
<1>3. /\ proc' \in [Processes -> Rows]
      /\ \A k \in Processes \ {h} : proc'[k] = proc[k]
      /\ proc'[h].at = to /\ proc'[h].saw = 0 /\ proc'[h].handle = proc[h].handle
      /\ proc'[h].recovered = proc[h].recovered /\ proc'[h].principal = proc[h].principal
      /\ proc'[h].job = proc[h].job
  BY <1>1, <1>2, GoesOn
<1>4. Holds(h)'
  BY <1>1, <1>3 DEF Holds, Store, FileSteps, OursSteps, OpenSteps
<1> QED BY <1>1, <1>3, <1>4, StepWithoutFiles DEF LifeTypes

LEMMA BootstrapInv ==
  ASSUME LifeInv, NEW h \in Processes, Bootstrap(h)
  PROVE  LifeInv'
<1>1. proc[h].at = "bootstrap" /\ proc[h].at \in FileSteps \cap OpenSteps /\ UNCHANGED <<db, current, overlapped>>
  BY DEF Bootstrap, FileSteps, OpenSteps
<1>2. /\ Store(h) \in Files /\ (Store(h).app = 0 => Store(h) = EmptyFile)
      /\ ~overlapped => Store(h) = EmptyFile
  BY <1>1, OpenFile DEF Alone
<1>3. CASE Store(h).app = 0
  <2> DEFINE file == [EmptyFile EXCEPT !.app = 1, !.version = 7, !.progress = TRUE, !.ends = TRUE]
  <2>1. Writes(h, file) /\ Goes(h, "assert", 0)
    BY <1>3 DEF Bootstrap
  <2>2. /\ file \in Files /\ file.app = 1 /\ file.version = 7 /\ file.progress /\ file.ends
        /\ ~file.legacy /\ file.condition = "sound"
    BY DEF EmptyFile, Files
  <2>3. Shaped(file)
    BY <2>2 DEF Shaped
  <2>4. ~Good(Store(h))
    BY <1>3 DEF Good, Readable
  <2> HIDE DEF file
  <2> QED BY <1>1, <2>1, <2>2, <2>3, <2>4, OpeningWrites
<1>4. CASE Store(h).app # 0
  <2>1. overlapped /\ Store(h).app = 1
    BY <1>2, <1>4, EmptyFileTyped DEF Files
  <2>2. UNCHANGED files /\ \E to \in {"invalid", "assert"} : Goes(h, to, 0)
    BY <1>4 DEF Bootstrap
  <2> QED BY <1>1, <2>1, <2>2, OpeningLeaves
<1> QED BY <1>3, <1>4

LEMMA UpgradesInv ==
  ASSUME LifeInv, NEW h \in Processes,
         UpgradeDispositions(h) \/ UpgradeProgress(h) \/ UpgradeRequests(h) \/ RetireLegacy(h)
  PROVE  LifeInv'
<1>1. proc[h].at \in {"dispositions", "progress", "requests", "retire"} /\ UNCHANGED <<db, current, overlapped>>
  BY DEF UpgradeDispositions, UpgradeProgress, UpgradeRequests, RetireLegacy
<1>2. proc[h].at \in FileSteps \cap OpenSteps /\ proc[h].at \in OursSteps
  BY <1>1 DEF FileSteps, OpenSteps, OursSteps
<1>3. /\ Store(h) \in Files /\ Store(h).app = 1 /\ proc[h] \in Rows
      /\ ~overlapped => Alone(h) /\ Shaped(Store(h)) /\ ~proc[h].recovered
  BY <1>1, <1>2, OpenFile DEF Alone
<1>4. CASE UpgradeDispositions(h)
  <2> DEFINE file == NewDispositions(Store(h))
  <2>1. Writes(h, file) /\ Goes(h, "progress", 0) /\ proc[h].at = "dispositions"
    BY <1>4 DEF UpgradeDispositions
  <2>2. file \in Files /\ file.app = 1 /\ file.version = 5 /\ file.progress = Store(h).progress /\ file.ends = Store(h).ends
    BY <1>3 DEF NewDispositions, Files
  <2>3. ~overlapped => Store(h).version = 4
    BY <1>3, <2>1 DEF Alone
  <2>4. ~overlapped => Shaped(file) /\ ~Good(Store(h))
    BY <1>3, <2>2, <2>3 DEF Shaped, Good, Recognised
  <2> HIDE DEF file
  <2> QED BY <1>1, <1>2, <1>3, <2>1, <2>2, <2>4, OpeningWrites
<1>5. CASE UpgradeProgress(h)
  <2> DEFINE file == [Store(h) EXCEPT !.version = 7, !.progress = TRUE, !.ends = TRUE]
  <2>1. ~overlapped => Store(h).version = 5 /\ ~Store(h).progress /\ ~Good(Store(h))
    BY <1>3, <1>5 DEF Alone, UpgradeProgress, Shaped, Recognised, Good
  <2>2. CASE Store(h).progress
    <3>1. overlapped /\ UNCHANGED files /\ Goes(h, "refused", 0)
      BY <1>5, <2>1, <2>2 DEF UpgradeProgress
    <3> QED BY <1>1, <1>2, <3>1, OpeningLeaves
  <2>3. CASE ~Store(h).progress
    <3>1. Writes(h, file) /\ Goes(h, "legacy", 0)
      BY <1>5, <2>3 DEF UpgradeProgress
    <3>2. file \in Files /\ file.app = 1 /\ file.version = 7 /\ file.progress /\ file.ends
      BY <1>3 DEF Files
    <3>3. Shaped(file)
      BY <3>2 DEF Shaped
    <3> HIDE DEF file
    <3> QED BY <1>1, <1>2, <1>3, <2>1, <3>1, <3>2, <3>3, OpeningWrites
  <2> QED BY <2>2, <2>3
<1>6. CASE UpgradeRequests(h)
  <2> DEFINE file == [Store(h) EXCEPT !.version = 7, !.ends = TRUE, !.pending = Observed(@)]
  <2>1. ~overlapped => Store(h).version = 6 /\ ~Store(h).ends /\ Store(h).progress /\ ~Good(Store(h))
    BY <1>3, <1>6 DEF Alone, UpgradeRequests, Shaped, Recognised, Good
  <2>2. CASE Store(h).ends
    <3>1. overlapped /\ UNCHANGED files /\ Goes(h, "refused", 0)
      BY <1>6, <2>1, <2>2 DEF UpgradeRequests
    <3> QED BY <1>1, <1>2, <3>1, OpeningLeaves
  <2>3. CASE ~Store(h).ends
    <3>1. Writes(h, file) /\ Goes(h, "legacy", 0)
      BY <1>6, <2>3 DEF UpgradeRequests
    <3>2. file \in Files /\ file.app = 1 /\ file.version = 7 /\ file.progress = Store(h).progress /\ file.ends
      BY <1>3 DEF Files, Observed
    <3>3. ~overlapped => Shaped(file)
      BY <3>2, <2>1 DEF Shaped
    <3> HIDE DEF file
    <3> QED BY <1>1, <1>2, <1>3, <2>1, <3>1, <3>2, <3>3, OpeningWrites
  <2> QED BY <2>2, <2>3
<1>7. CASE RetireLegacy(h)
  <2> DEFINE file == [Store(h) EXCEPT !.legacy = FALSE, !.generation = proc[h].saw]
  <2>0. proc[h].saw \in Nat /\ Store(h).generation \in Nat
    BY <1>3 DEF Rows, Files
  <2>1. ~overlapped => /\ Store(h).version = 7 /\ Store(h).legacy /\ ~Good(Store(h))
                       /\ ~(Store(h).generation >= proc[h].saw)
    BY <1>3, <1>7, <2>0 DEF Alone, RetireLegacy, Good
  <2>2. CASE Store(h).generation >= proc[h].saw
    <3>1. overlapped /\ UNCHANGED files /\ Goes(h, "refused", 0)
      BY <1>7, <2>1, <2>2 DEF RetireLegacy
    <3> QED BY <1>1, <1>2, <3>1, OpeningLeaves
  <2>3. CASE ~(Store(h).generation >= proc[h].saw)
    <3>1. Writes(h, file) /\ Goes(h, "assert", 0)
      BY <1>7, <2>3 DEF RetireLegacy
    <3>2. /\ file \in Files /\ file.app = 1 /\ file.version = Store(h).version /\ file.progress = Store(h).progress
          /\ file.ends = Store(h).ends /\ ~file.legacy
      BY <1>3, <2>0 DEF Files
    <3>3. ~overlapped => Shaped(file)
      BY <3>2, <1>3 DEF Shaped
    <3> HIDE DEF file
    <3> QED BY <1>1, <1>2, <1>3, <2>1, <3>1, <3>2, <3>3, OpeningWrites
  <2> QED BY <2>2, <2>3
<1> QED BY <1>4, <1>5, <1>6, <1>7

-----------------------------------------------------------------------------
\* A store that is put aside: alone, it and all before it cannot be read.
LEMMA QuarantineInv ==
  ASSUME LifeInv, NEW h \in Processes, Quarantine(h)
  PROVE  LifeInv'
<1>1. /\ proc[h].at = "invalid" /\ proc[h].at \in FileSteps \cap OpenSteps /\ Opening(h)
      /\ UNCHANGED <<db, files, overlapped>>
  BY DEF Quarantine, FileSteps, OpenSteps, Opening
<1>2. /\ LifeTypes /\ Holds(h) /\ proc[h] \in Rows
      /\ ~overlapped => Alone(h) /\ (\A k \in Processes \ {h} : ~Opening(k))
  BY <1>1, OpenFile
<1>3. CASE proc[h].recovered
  <2>1. overlapped
    BY <1>1, <1>2, <1>3 DEF Alone
  <2>2. Goes(h, "refused", 0) /\ UNCHANGED current
    BY <1>3 DEF Quarantine
  <2> QED BY <1>1, <2>1, <2>2, OpeningLeaves
<1>4. CASE ~proc[h].recovered
  <2> DEFINE row == [proc[h] EXCEPT !.at = "ensure", !.handle = 0, !.saw = 0, !.recovered = TRUE]
  <2>1. proc' = [proc EXCEPT ![h] = row] /\ current' = 0
    BY <1>4 DEF Quarantine
  <2>2. /\ row \in Rows /\ row.at = "ensure" /\ row.handle = 0 /\ row.principal = proc[h].principal /\ row.job = proc[h].job
        /\ row.saw = 0
    BY <1>2 DEF Rows, Steps, OpenSteps
  <2> HIDE DEF row
  <2>3. /\ proc' \in [Processes -> Rows] /\ proc'[h] = row
        /\ \A k \in Processes \ {h} : proc'[k] = proc[k]
    BY <1>2, <2>1, <2>2 DEF LifeTypes
  <2>4. LifeTypes' /\ FilesGrow /\ EmptyOrOurs'
    BY <1>1, <2>1, <2>3 DEF LifeInv, LifeTypes, FilesGrow, EmptyOrOurs
  <2>5. Holds(h)'
    BY <1>1, <1>2, <2>2, <2>3 DEF Holds, FileSteps, OursSteps, OpenSteps
  <2>6. Alone(h)'
    BY <2>1, <2>2, <2>3 DEF Alone, FileSteps, OpenSteps
  <2>7. ASSUME ~overlapped PROVE FilesAlone'
    <3>1. FilesAlone /\ ~Readable(Store(h)) /\ proc[h].handle = current
      BY <1>1, <1>2, <2>7 DEF LifeInv, AloneInv, Alone
    <3>2. \A i \in DOMAIN files : ~Readable(files[i])
      BY <3>1 DEF FilesAlone, Store
    <3> QED BY <3>1, <3>2, <1>1 DEF FilesAlone
  <2>8. \A i \in DOMAIN files : Same(files[i], files'[i])
    BY <1>1 DEF Same
  <2>9. AloneInv'
    <3>1. CASE overlapped
      BY <3>1, <1>1 DEF AloneInv
    <3>2. CASE ~overlapped
      BY <3>2, <1>1, <1>2, <2>3, <2>6, <2>7, <2>8, OthersAlone
    <3> QED BY <3>1, <3>2
  <2> QED BY <1>1, <2>3, <2>4, <2>5, <2>9, OneSteps
<1> QED BY <1>3, <1>4

-----------------------------------------------------------------------------
\* A service that has come up changes what its file holds, not its schema.
LEMMA ServiceWrites ==
  ASSUME LifeInv, NEW h \in Processes, proc[h].at \in {"worker", "learning", "serving"},
         proc' \in [Processes -> Rows], \A k \in Processes \ {h} : proc'[k] = proc[k],
         proc'[h].at \in {"learning", "serving"}, proc'[h].handle = proc[h].handle,
         proc'[h].principal = proc[h].principal,
         NEW kept \in SUBSET {"kept", "new"}, NEW turns \in SUBSET {"observed", "history"},
         Writes(h, [Store(h) EXCEPT !.decisions = kept, !.pending = turns]),
         UNCHANGED <<db, current, overlapped>>
  PROVE  LifeInv'
<1> DEFINE file == [Store(h) EXCEPT !.decisions = kept, !.pending = turns]
<1>1. proc[h].at \in FileSteps /\ proc[h].at \in OursSteps
  BY DEF FileSteps, OursSteps, OpenSteps
<1>2. /\ proc[h].handle \in DOMAIN files /\ Store(h) \in Files /\ LifeTypes /\ Holds(h)
      /\ Store(h).app = 1
      /\ ~overlapped => Alone(h) /\ Shaped(Store(h)) /\ (Readable(Store(h)) => proc[h].handle = current)
  BY <1>1, OpenFile
<1>3. /\ file \in Files /\ file.app = 1 /\ file.version = Store(h).version /\ file.progress = Store(h).progress
      /\ file.ends = Store(h).ends /\ file.legacy = Store(h).legacy /\ file.generation = Store(h).generation
      /\ file.condition = Store(h).condition
  BY <1>2 DEF Files
<1>4. Writes(h, file)
  OBVIOUS
<1> HIDE DEF file
<1>5. Store(h)' = file /\ DOMAIN files' = DOMAIN files
  BY <1>2, <1>3, <1>4, WritesOne DEF Store
<1>6. Same(Store(h), file)
  BY <1>2, <1>3, EmptyFileTyped DEF Same
<1>7. ~Opening(h)'
  BY DEF Opening, OpenSteps
<1>8. Holds(h)'
  BY <1>2, <1>3, <1>5 DEF Holds, FileSteps, OursSteps, OpenSteps
<1>9. ~overlapped => Alone(h)' /\ Shaped(file) /\ (Readable(file) => proc[h].handle = current)
  <2> SUFFICES ASSUME ~overlapped PROVE Alone(h)' /\ Shaped(file) /\ (Readable(file) => proc[h].handle = current)
    OBVIOUS
  <2>1. Good(Store(h))
    BY <1>2 DEF Alone
  <2>2. Good(file) /\ Shaped(file) /\ (Readable(file) => Readable(Store(h)))
    BY <1>2, <1>3, <2>1 DEF Good, Readable, Shaped
  <2> QED BY <1>2, <1>5, <2>2 DEF Alone, FileSteps, OpenSteps
<1> QED BY <1>2, <1>3, <1>4, <1>6, <1>7, <1>8, <1>9, StepWrites

LEMMA InstallWorkerInv ==
  ASSUME LifeInv, NEW h \in Processes, InstallWorker(h)
  PROVE  LifeInv'
<1>1. /\ proc[h].at = "worker" /\ Goes(h, "learning", 0) /\ UNCHANGED <<db, current, overlapped>>
      /\ Writes(h, [Store(h) EXCEPT !.pending = Observed(@)])
  BY DEF InstallWorker
<1>2. proc[h].at \in FileSteps /\ "learning" \in Steps
  BY <1>1 DEF FileSteps, Steps
<1>3. LifeTypes /\ Store(h) \in Files
  BY <1>2, OpenFile
<1>4. /\ proc' \in [Processes -> Rows]
      /\ \A k \in Processes \ {h} : proc'[k] = proc[k]
      /\ proc'[h].at = "learning" /\ proc'[h].handle = proc[h].handle /\ proc'[h].principal = proc[h].principal
  BY <1>1, <1>2, <1>3, GoesOn
<1>5. /\ Store(h).decisions \in SUBSET {"kept", "new"} /\ Observed(Store(h).pending) \in SUBSET {"observed", "history"}
      /\ [Store(h) EXCEPT !.pending = Observed(@)]
           = [Store(h) EXCEPT !.decisions = Store(h).decisions, !.pending = Observed(Store(h).pending)]
  BY <1>3 DEF Files, Observed
<1> QED BY <1>1, <1>4, <1>5, ServiceWrites

LEMMA DismissInv ==
  ASSUME LifeInv, NEW h \in Processes, Dismiss(h)
  PROVE  LifeInv'
<1>1. /\ proc[h].at = "serving" /\ UNCHANGED <<db, current, proc, overlapped>>
      /\ Writes(h, [Store(h) EXCEPT !.decisions = @ \cup {"new"}])
  BY DEF Dismiss
<1>2. proc[h].at \in FileSteps
  BY <1>1 DEF FileSteps
<1>3. LifeTypes /\ Store(h) \in Files
  BY <1>2, OpenFile
<1>5. /\ Store(h).decisions \cup {"new"} \in SUBSET {"kept", "new"} /\ Store(h).pending \in SUBSET {"observed", "history"}
      /\ [Store(h) EXCEPT !.decisions = @ \cup {"new"}]
           = [Store(h) EXCEPT !.decisions = Store(h).decisions \cup {"new"}, !.pending = Store(h).pending]
  BY <1>3 DEF Files
<1>6. proc' \in [Processes -> Rows]
  BY <1>1, <1>3 DEF LifeTypes
<1> QED BY <1>1, <1>5, <1>6, ServiceWrites

\* The job of the worker begins or ends.
LEMMA JobChanges ==
  ASSUME LifeTypes, NEW h \in Processes, NEW b \in BOOLEAN, proc' = [proc EXCEPT ![h].job = b]
  PROVE  /\ proc' \in [Processes -> Rows] /\ \A k \in Processes \ {h} : proc'[k] = proc[k]
         /\ proc'[h].at = proc[h].at /\ proc'[h].saw = proc[h].saw /\ proc'[h].handle = proc[h].handle
         /\ proc'[h].recovered = proc[h].recovered /\ proc'[h].principal = proc[h].principal /\ proc'[h].job = b
<1> DEFINE row == [proc[h] EXCEPT !.job = b]
<1>1. proc[h] \in Rows /\ proc \in [Processes -> Rows] /\ proc' = [proc EXCEPT ![h] = row]
  BY DEF LifeTypes
<1>2. /\ row \in Rows /\ row.at = proc[h].at /\ row.saw = proc[h].saw /\ row.handle = proc[h].handle
      /\ row.recovered = proc[h].recovered /\ row.principal = proc[h].principal /\ row.job = b
  BY <1>1 DEF Rows
<1> HIDE DEF row
<1> QED BY <1>1, <1>2

LEMMA JobsInv ==
  ASSUME LifeInv, NEW h \in Processes, RunJob(h) \/ JobEnds(h)
  PROVE  LifeInv'
<1>1. LifeTypes /\ Holds(h) /\ (~overlapped => Alone(h)) /\ UNCHANGED <<db, current, overlapped>>
  BY DEF LifeInv, AloneInv, RunJob, JobEnds
<1>2. PICK b \in BOOLEAN : proc' = [proc EXCEPT ![h].job = b] /\ (b => Working(h))
  BY DEF RunJob, JobEnds
<1>3. /\ proc' \in [Processes -> Rows] /\ \A k \in Processes \ {h} : proc'[k] = proc[k]
      /\ proc'[h].at = proc[h].at /\ proc'[h].saw = proc[h].saw /\ proc'[h].handle = proc[h].handle
      /\ proc'[h].recovered = proc[h].recovered /\ proc'[h].principal = proc[h].principal /\ proc'[h].job = b
  BY <1>1, <1>2, JobChanges
<1>4. CASE UNCHANGED files
  <2>1. Holds(h)'
    BY <1>1, <1>2, <1>3, <1>4 DEF Holds, Store, Working, FileSteps, OursSteps, OpenSteps
  <2>2. ~overlapped => Alone(h)'
    BY <1>1, <1>3, <1>4 DEF Alone, Store
  <2>3. ~overlapped => (Opening(h)' => \A k \in Processes \ {h} : ~Opening(k))
    BY <1>3 DEF Opening, LifeInv, AloneInv, OneOpens
  <2> QED BY <1>1, <1>3, <1>4, <2>1, <2>2, <2>3, StepWithoutFiles DEF LifeTypes
<1>5. CASE Working(h) /\ Writes(h, [Store(h) EXCEPT !.pending = {}])
  <2>1. proc[h].at \in FileSteps /\ proc[h].at \in {"learning", "serving"}
    BY <1>5 DEF FileSteps, Working
  <2>2. Store(h) \in Files
    BY <2>1, OpenFile
  <2>3. /\ Store(h).decisions \in SUBSET {"kept", "new"} /\ {} \in SUBSET {"observed", "history"}
        /\ [Store(h) EXCEPT !.pending = {}] = [Store(h) EXCEPT !.decisions = Store(h).decisions, !.pending = {}]
    BY <2>2 DEF Files
  <2> QED BY <1>1, <1>3, <1>5, <2>1, <2>3, ServiceWrites
<1> QED BY <1>4, <1>5 DEF RunJob, JobEnds

-----------------------------------------------------------------------------
\* The ways down.
LEMMA StopsInv ==
  ASSUME LifeInv, NEW h \in Processes, Stops(h)
  PROVE  LifeInv'
<1>1. LifeTypes /\ Holds(h) /\ UNCHANGED <<db, files, current, overlapped>> /\ Goes(h, "closing", 0) /\ "closing" \in Steps
  BY DEF LifeInv, Stops, Steps
<1>2. /\ proc' \in [Processes -> Rows]
      /\ \A k \in Processes \ {h} : proc'[k] = proc[k]
      /\ proc'[h].at = "closing" /\ proc'[h].handle = proc[h].handle
      /\ proc'[h].principal = proc[h].principal /\ proc'[h].job = proc[h].job
  BY <1>1, GoesOn
<1>3. Holds(h)' /\ Alone(h)' /\ ~Opening(h)'
  BY <1>1, <1>2 DEF Holds, Alone, Opening, Store, FileSteps, OursSteps, OpenSteps
<1> QED BY <1>1, <1>2, <1>3, StepWithoutFiles DEF LifeTypes

LEMMA ClosesInv ==
  ASSUME LifeInv, NEW h \in Processes, CloseNextPart(h) \/ ProcessDies(h)
  PROVE  LifeInv'
<1>1. LifeTypes /\ Holds(h) /\ proc[h] \in Rows /\ UNCHANGED <<db, files, current, overlapped>>
  BY DEF LifeInv, LifeTypes, CloseNextPart, ProcessDies
<1>2. PICK row : /\ proc' = [proc EXCEPT ![h] = row]
                 /\ \/ row = Down
                    \/ /\ row.at \in {"stop", "closeStore", "closeDatabase"}
                       /\ row \in Rows /\ row.job = proc[h].job /\ row.principal = proc[h].principal
                       /\ row.handle \in {0, proc[h].handle}
                       /\ proc[h].at \in {"refused", "closing", "stop", "closeStore"}
                       /\ row.at = "stop" => row.handle = proc[h].handle
                       /\ proc[h].at \in {"refused", "closing"} => row.at = "stop"
                       /\ proc[h].at = "stop" => ~proc[h].job
  <2>1. CASE ProcessDies(h)
    BY <2>1 DEF ProcessDies
  <2>2. CASE CloseNextPart(h)
    <3> DEFINE next == ClosesNext(proc[h].at)
               handle == IF proc[h].at = "closeStore" THEN 0 ELSE proc[h].handle
               row == IF next = "down" THEN Down ELSE [proc[h] EXCEPT !.at = next, !.handle = handle]
    <3>1. /\ next = "down" => proc' = [proc EXCEPT ![h] = Down]
          /\ next # "down" => proc' = [proc EXCEPT ![h] = [proc[h] EXCEPT !.at = next, !.handle = handle]]
          /\ proc[h].at = "stop" => ~proc[h].job
      <4>1. proc[h].at = "stop" => ~proc[h].job
        BY <2>2 DEF CloseNextPart
      <4>2. proc' = [proc EXCEPT ![h] = row]
        BY <2>2 DEF CloseNextPart
      <4> HIDE DEF next, Down, handle
      <4>3. CASE next = "down"
        BY <4>1, <4>2, <4>3
      <4>4. CASE next # "down"
        BY <4>1, <4>2, <4>4
      <4> QED BY <4>3, <4>4
    <3>2. /\ next \in {"stop", "closeStore", "closeDatabase", "down"}
          /\ next = "stop" <=> proc[h].at \in {"refused", "closing"}
          /\ next # "down" => proc[h].at \in {"refused", "closing", "stop", "closeStore"}
      BY <2>2 DEF CloseNextPart, ClosesNext
    <3> HIDE DEF next
    <3>3. CASE next = "down"
      BY <3>1, <3>3
    <3>4. CASE next # "down"
      <4>1. row = [proc[h] EXCEPT !.at = next, !.handle = handle]
        BY <3>4
      <4>2. handle \in Nat /\ handle \in {0, proc[h].handle} /\ next \in Steps
        BY <1>1, <3>2, <3>4 DEF Rows, Steps
      <4>3. next = "stop" => handle = proc[h].handle
        BY <3>2
      <4>5. proc' = [proc EXCEPT ![h] = row] /\ row # Down
        <5>1. row.at = next
          BY <1>1, <4>1, <4>2 DEF Rows
        <5> QED BY <3>1, <3>4, <4>1, <5>1 DEF Down
      <4> HIDE DEF handle, row
      <4>4. /\ row \in Rows /\ row.at = next /\ row.handle = handle /\ row.job = proc[h].job
            /\ row.principal = proc[h].principal
        BY <1>1, <4>1, <4>2 DEF Rows
      <4>6. /\ row.at \in {"stop", "closeStore", "closeDatabase"}
            /\ proc[h].at \in {"refused", "closing", "stop", "closeStore"}
            /\ row.at = "stop" => row.handle = proc[h].handle
            /\ proc[h].at \in {"refused", "closing"} => row.at = "stop"
            /\ row.handle \in {0, proc[h].handle}
        BY <3>2, <3>4, <4>2, <4>3, <4>4
      <4> QED BY <3>1, <4>4, <4>5, <4>6
    <3> QED BY <3>3, <3>4
  <2> QED BY <2>1, <2>2
<1>3. Down \in Rows
  BY DEF Down, Rows, Steps
<1>4. /\ row \in Rows /\ proc' \in [Processes -> Rows] /\ proc'[h] = row
      /\ \A k \in Processes \ {h} : proc'[k] = proc[k]
  BY <1>1, <1>2, <1>3 DEF LifeTypes
<1>5. row = Down => row.at = "down" /\ row.handle = 0 /\ ~row.job /\ row.principal = 0 /\ ~row.recovered
  BY DEF Down
<1>6. row.at \in {"down", "stop", "closeStore", "closeDatabase"}
  BY <1>2, <1>5
<1>7. row.job => row.at = "stop" /\ row.handle = proc[h].handle /\ proc[h].job
  BY <1>1, <1>2, <1>5 DEF Holds
<1>8. row.at = "down" => row = Down
  BY <1>2
<1>9. Holds(h)' /\ Alone(h)' /\ ~Opening(h)'
  BY <1>1, <1>2, <1>4, <1>5, <1>6, <1>7, <1>8 DEF Holds, Alone, Opening, Store, FileSteps, OursSteps, OpenSteps
<1> QED BY <1>1, <1>4, <1>9, StepWithoutFiles DEF LifeTypes

LEMMA LifeStepInv ==
  ASSUME LifeInv, [LifeNext]_life
  PROVE  LifeInv'
<1>1. CASE UNCHANGED life
  <2> USE <1>1 DEF life
  <2>1. LifeTypes' /\ EmptyOrOurs' /\ FilesAlone' = FilesAlone /\ OneOpens' = OneOpens
    BY DEF LifeInv, LifeTypes, EmptyOrOurs, FilesAlone, OneOpens, Opening
  <2>2. \A h \in Processes : Holds(h)' = Holds(h) /\ Alone(h)' = Alone(h)
    BY DEF Holds, Alone, Store
  <2> QED BY <2>1, <2>2 DEF LifeInv, AloneInv
<1>2. CASE LifeNext
  BY <1>2, DatabaseStepsInv, InitializePrincipalInv, EnsureFileInv, SeeIdentityInv, SeeSchemaInv, ReadsInv,
     BootstrapInv, UpgradesInv, QuarantineInv, InstallWorkerInv, DismissInv, JobsInv, StopsInv, ClosesInv
     DEF LifeNext
<1> QED BY <1>1, <1>2

LEMMA LifeInvImplies ==
  ASSUME LifeInv
  PROVE  StartsSound
<1>1. OneOwner
  <2>1. Cardinality({}) = 0 /\ Cardinality({1}) = 1
    BY FS_EmptySet, FS_Singleton
  <2>2. db.owners \in {{}, {1}}
    BY DEF LifeInv, LifeTypes
  <2>3. Cardinality(db.owners) <= 1
    BY <2>1, <2>2
  <2>4. \A h \in Processes : proc[h].principal \in {0, 1} /\ (proc[h].principal # 0 => db.owners = {1})
    BY DEF LifeInv, LifeTypes, Rows, Holds
  <2> QED BY <2>3, <2>4 DEF OneOwner
<1>2. WorkerHasStore
  BY DEF LifeInv, Holds, WorkerHasStore
<1>3. OpensAlone
  <2> SUFFICES ASSUME ~overlapped PROVE OpensAlone
    BY DEF OpensAlone
  <2>1. \A h \in Processes : Alone(h)
    BY DEF LifeInv, AloneInv
  <2>2. FilesAlone
    BY DEF LifeInv, AloneInv
  <2>3. \A i \in DOMAIN files : Readable(files[i]) => ~Stuck(files[i])
    BY <2>2 DEF FilesAlone, Shaped, Stuck, Readable
  <2> QED BY <2>1, <2>2, <2>3 DEF OpensAlone, Alone, Good, FilesAlone
<1> QED BY <1>1, <1>2, <1>3 DEF StartsSound

\* However starts race, die or find what an earlier build or start left, there
\* is one local owner, a worker never runs on a closed store, and an opening
\* that no other overlapped comes up with the store at the path.
THEOREM StartsStaySound == LifeSpec => []StartsSound
<1>1. LifeInv => StartsSound
  BY LifeInvImplies
<1>2. LifeInv /\ [LifeNext]_life => LifeInv'
  BY LifeStepInv
<1> QED BY <1>1, <1>2, LifeInitInv, PTL DEF LifeSpec

-----------------------------------------------------------------------------
\* What RowsKept asks of one file in one step.
RowKept(i) ==
  /\ files[i].decisions \subseteq files'[i].decisions
  /\ "observed" \in files[i].pending \ files'[i].pending =>
       \E h \in Processes : proc[h].handle = i /\ proc[h].job /\ ~proc'[h].job /\ Working(h)

\* A transaction keeps the rows if what it writes does.
LEMMA WriteKeepsRows ==
  ASSUME LifeInv, NEW h \in Processes, proc[h].handle \in DOMAIN files, NEW file \in Files, Writes(h, file),
         Store(h).decisions \subseteq file.decisions,
         \/ "observed" \in Store(h).pending => "observed" \in file.pending
         \/ proc[h].job /\ ~proc'[h].job /\ Working(h)
  PROVE  \A i \in DOMAIN files : RowKept(i)
<1>1. /\ files'[proc[h].handle] = file
      /\ \A i \in DOMAIN files \ {proc[h].handle} : files'[i] = files[i]
  BY WritesOne DEF LifeInv
<1> QED BY <1>1 DEF RowKept, Store

LEMMA UpgradesKeepRows ==
  ASSUME LifeInv, NEW h \in Processes,
         UpgradeDispositions(h) \/ UpgradeProgress(h) \/ UpgradeRequests(h) \/ RetireLegacy(h)
  PROVE  \A i \in DOMAIN files : RowKept(i)
<1>1. proc[h].at \in FileSteps
  BY DEF UpgradeDispositions, UpgradeProgress, UpgradeRequests, RetireLegacy, FileSteps, OpenSteps
<1>2. /\ proc[h].handle \in DOMAIN files /\ Store(h) \in Files /\ proc[h] \in Rows
  BY <1>1, OpenFile
<1>3. CASE UNCHANGED files
  BY <1>3 DEF RowKept
<1>4. ASSUME NEW file \in Files, Writes(h, file), file.decisions = Store(h).decisions,
             file.pending \in {Store(h).pending, Observed(Store(h).pending)}
      PROVE  \A i \in DOMAIN files : RowKept(i)
  <2>1. "observed" \in Store(h).pending => "observed" \in file.pending
    BY <1>4 DEF Observed
  <2> QED BY <1>2, <1>4, <2>1, WriteKeepsRows
<1>5. CASE UpgradeDispositions(h)
  <2> DEFINE file == [Store(h) EXCEPT !.version = 5]
  <2>1. file \in Files /\ file.decisions = Store(h).decisions /\ file.pending = Store(h).pending
    BY <1>2 DEF Files
  <2>2. Writes(h, file)
    BY <1>5 DEF UpgradeDispositions, NewDispositions
  <2> HIDE DEF file
  <2> QED BY <1>4, <2>1, <2>2
<1>6. CASE UpgradeProgress(h)
  <2> DEFINE file == [Store(h) EXCEPT !.version = 7, !.progress = TRUE, !.ends = TRUE]
  <2>1. file \in Files /\ file.decisions = Store(h).decisions /\ file.pending = Store(h).pending
    BY <1>2 DEF Files
  <2>2. Writes(h, file) \/ UNCHANGED files
    BY <1>6 DEF UpgradeProgress
  <2> HIDE DEF file
  <2> QED BY <1>3, <1>4, <2>1, <2>2
<1>7. CASE UpgradeRequests(h)
  <2> DEFINE file == [Store(h) EXCEPT !.version = 7, !.ends = TRUE, !.pending = Observed(@)]
  <2>1. file \in Files /\ file.decisions = Store(h).decisions /\ file.pending = Observed(Store(h).pending)
    BY <1>2 DEF Files, Observed
  <2>2. Writes(h, file) \/ UNCHANGED files
    BY <1>7 DEF UpgradeRequests
  <2> HIDE DEF file
  <2> QED BY <1>3, <1>4, <2>1, <2>2
<1>8. CASE RetireLegacy(h)
  <2> DEFINE file == [Store(h) EXCEPT !.legacy = FALSE, !.generation = proc[h].saw]
  <2>1. file \in Files /\ file.decisions = Store(h).decisions /\ file.pending = Store(h).pending
    BY <1>2 DEF Files, Rows
  <2>2. Writes(h, file) \/ UNCHANGED files
    BY <1>8 DEF RetireLegacy
  <2> HIDE DEF file
  <2> QED BY <1>3, <1>4, <2>1, <2>2
<1> QED BY <1>5, <1>6, <1>7, <1>8

\* Only a file that holds nothing is written over.
LEMMA BootstrapKeepsRows ==
  ASSUME LifeInv, NEW h \in Processes, Bootstrap(h)
  PROVE  \A i \in DOMAIN files : RowKept(i)
<1>1. proc[h].at \in FileSteps
  BY DEF Bootstrap, FileSteps, OpenSteps
<1>2. /\ proc[h].handle \in DOMAIN files /\ Store(h) \in Files /\ (Store(h).app = 0 => Store(h) = EmptyFile)
  BY <1>1, OpenFile
<1>3. CASE UNCHANGED files
  BY <1>3 DEF RowKept
<1>4. CASE Store(h).app = 0
  <2> DEFINE file == [EmptyFile EXCEPT !.app = 1, !.version = 7, !.progress = TRUE, !.ends = TRUE]
  <2>1. Writes(h, file)
    BY <1>4 DEF Bootstrap
  <2>2. Store(h).decisions = {} /\ Store(h).pending = {}
    BY <1>2, <1>4, EmptyFileTyped
  <2>3. file \in Files
    BY DEF EmptyFile, Files
  <2> HIDE DEF file
  <2> QED BY <1>2, <2>1, <2>2, <2>3, WriteKeepsRows
<1>5. Store(h).app # 0 => UNCHANGED files
  BY DEF Bootstrap
<1> QED BY <1>3, <1>4, <1>5

LEMMA ServiceKeepsRows ==
  ASSUME LifeInv, NEW h \in Processes, InstallWorker(h) \/ Dismiss(h) \/ JobEnds(h)
  PROVE  \A i \in DOMAIN files : RowKept(i)
<1>1. CASE UNCHANGED files
  BY <1>1 DEF RowKept
<1>2. CASE ~UNCHANGED files
  <2>1. proc[h].at \in FileSteps
    BY <1>2 DEF InstallWorker, Dismiss, JobEnds, Working, FileSteps
  <2>2. /\ proc[h].handle \in DOMAIN files /\ Store(h) \in Files
    BY <2>1, OpenFile
  <2>3. CASE InstallWorker(h)
    <3> DEFINE file == [Store(h) EXCEPT !.pending = Observed(@)]
    <3>1. Writes(h, file)
      BY <2>3 DEF InstallWorker
    <3>2. file \in Files /\ file.decisions = Store(h).decisions /\ file.pending = Observed(Store(h).pending)
      BY <2>2 DEF Files, Observed
    <3>3. "observed" \in Store(h).pending => "observed" \in file.pending
      BY <3>2 DEF Observed
    <3> HIDE DEF file
    <3> QED BY <2>2, <3>1, <3>2, <3>3, WriteKeepsRows
  <2>4. CASE Dismiss(h)
    <3> DEFINE file == [Store(h) EXCEPT !.decisions = @ \cup {"new"}]
    <3>1. Writes(h, file)
      BY <2>4 DEF Dismiss
    <3>2. file \in Files /\ file.decisions = Store(h).decisions \cup {"new"} /\ file.pending = Store(h).pending
      BY <2>2 DEF Files
    <3> HIDE DEF file
    <3> QED BY <2>2, <3>1, <3>2, WriteKeepsRows
  <2>5. CASE JobEnds(h)
    <3> DEFINE file == [Store(h) EXCEPT !.pending = {}]
    <3>1. Writes(h, file) /\ Working(h) /\ proc[h].job
      BY <1>2, <2>5 DEF JobEnds
    <3>2. file \in Files /\ file.decisions = Store(h).decisions
      BY <2>2 DEF Files
    <3>3. ~proc'[h].job
      <4>1. LifeTypes /\ proc' = [proc EXCEPT ![h].job = FALSE]
        BY <2>5 DEF JobEnds, LifeInv
      <4> QED BY <4>1, JobChanges
    <3> HIDE DEF file
    <3> QED BY <2>2, <3>1, <3>2, <3>3, WriteKeepsRows
  <2> QED BY <2>3, <2>4, <2>5
<1> QED BY <1>1, <1>2

LEMMA StepKeepsRows ==
  ASSUME LifeInv, [LifeNext]_life
  PROVE  \A i \in DOMAIN files : RowKept(i)
<1>1. CASE \A i \in DOMAIN files : files'[i] = files[i]
  BY <1>1 DEF RowKept
<1>2. CASE UNCHANGED life
  BY <1>1, <1>2 DEF life
<1>3. ASSUME NEW h \in Processes, EnsureFile(h) \/ SeeIdentity(h)
      PROVE  \A i \in DOMAIN files : files'[i] = files[i]
  BY <1>3, CreatesFile DEF EnsureFile, SeeIdentity
<1>4. ASSUME NEW h \in Processes,
             \/ Start(h) \/ SeeDatabase(h) \/ SeeTables(h) \/ BootstrapDatabase(h) \/ InitializePrincipal(h)
             \/ SeeSchema(h) \/ SeeLegacy(h) \/ AssertStore(h) \/ Quarantine(h)
             \/ Publish(h) \/ RunJob(h) \/ Stops(h) \/ CloseNextPart(h) \/ ProcessDies(h)
      PROVE  files' = files
  BY <1>4 DEF Start, SeeDatabase, SeeTables, BootstrapDatabase, InitializePrincipal, SeeSchema, SeeLegacy,
     AssertStore, Quarantine, Publish, RunJob, Stops, CloseNextPart, ProcessDies
<1>5. CASE LifeNext
  BY <1>1, <1>3, <1>4, <1>5, UpgradesKeepRows, BootstrapKeepsRows, ServiceKeepsRows DEF LifeNext
<1> QED BY <1>2, <1>5

\* Through upgrades, races and deaths, every decision of the owner stays in
\* its file, and the request of a finished task goes only with its job.
THEOREM RowsAreKept == LifeSpec => RowsKept
<1>1. LifeInv /\ [LifeNext]_life => LifeInv'
  BY LifeStepInv
<1>2. LifeInv /\ [LifeNext]_life =>
        [\A i \in DOMAIN files :
          /\ files[i].decisions \subseteq files'[i].decisions
          /\ "observed" \in files[i].pending \ files'[i].pending =>
               \E h \in Processes : proc[h].handle = i /\ proc[h].job /\ ~proc'[h].job /\ Working(h)]_life
  BY StepKeepsRows DEF RowKept
<1> QED BY <1>1, <1>2, LifeInitInv, PTL DEF LifeSpec, RowsKept
=============================================================================
