----------------------------- MODULE WriteQueue -----------------------------
(***************************************************************************)
(* ExperienceDatabase: one SQLite connection per process and its bounded   *)
(* write queue.  The queue is a chain of promises: a call of write awaits  *)
(* the promise that was the tail when it was made, puts its own in its     *)
(* place and resolves it when its transaction is over.                     *)
(*                                                                         *)
(* A process is single-threaded and a transaction is run synchronously, so *)
(* nothing else happens in a process between BEGIN and release; another    *)
(* process of the same database (the management CLI) may do anything.  A   *)
(* promise is named by the call that makes it; 0 is the resolved first.    *)
(***************************************************************************)
EXTENDS Integers, Sequences, FiniteSets

CONSTANTS Hosts, MaxPending, MaxCalls, Nobody

ASSUME QueueAssumption ==
  /\ MaxPending \in Nat \ {0}
  /\ MaxCalls \in Nat
  /\ Nobody \notin Hosts

Calls == 1..MaxCalls
Promises == 0..MaxCalls
CallStates == {"new", "refused", "waiting", "running", "committed", "failed"}

VARIABLES
  called,        \* calls of write made by a process
  call,          \* what became of a call
  predecessor,   \* the promise a call awaits
  tail,          \* the promise of the last accepted call of a process
  resolved,      \* promises that are resolved
  pending,       \* the counter that bounds the queue
  mode,          \* the connection: open, closing, closed, or its process dead
  lock,          \* the process that holds the write lock of the SQLite file
  store          \* committed transactions, in their order

vars == <<called, call, predecessor, tail, resolved, pending, mode, lock, store>>

TypeOK ==
  /\ called \in [Hosts -> Promises]
  /\ call \in [Hosts -> [Calls -> CallStates]]
  /\ predecessor \in [Hosts -> [Calls -> Promises]]
  /\ tail \in [Hosts -> Promises]
  /\ resolved \in [Hosts -> SUBSET Promises]
  /\ pending \in [Hosts -> 0..MaxPending]
  /\ mode \in [Hosts -> {"open", "closing", "closed", "dead"}]
  /\ lock \in Hosts \cup {Nobody}
  /\ store \in Seq(Hosts \X Calls)

Init ==
  /\ called = [h \in Hosts |-> 0]
  /\ call = [h \in Hosts |-> [i \in Calls |-> "new"]]
  /\ predecessor = [h \in Hosts |-> [i \in Calls |-> 0]]
  /\ tail = [h \in Hosts |-> 0]
  /\ resolved = [h \in Hosts |-> {0}]
  /\ pending = [h \in Hosts |-> 0]
  /\ mode = [h \in Hosts |-> "open"]
  /\ lock = Nobody
  /\ store = <<>>

\* The thread of a process is free: no transaction of it is running.
Free(h) == mode[h] # "dead" /\ \A i \in Calls : call[h][i] # "running"

Becomes(h, i, state) == call' = [call EXCEPT ![h][i] = state]

-----------------------------------------------------------------------------
\* write

Full(h) == pending[h] >= MaxPending

\* (mutant) A call takes its place in the chain before it is refused.
PlaceTaken(h) == called[h] + 1

\* A refused call leaves the chain alone.
RefusedTail(h) == tail[h]

Refuse(h) ==
  /\ Free(h) /\ called[h] < MaxCalls
  /\ mode[h] # "open" \/ Full(h)
  /\ called' = [called EXCEPT ![h] = @ + 1]
  /\ Becomes(h, called[h] + 1, "refused")
  /\ tail' = [tail EXCEPT ![h] = RefusedTail(h)]
  /\ UNCHANGED <<predecessor, resolved, pending, mode, lock, store>>

\* (mutant) The tail is only replaced when the queue was empty.
TailKept(h) == IF pending[h] = 0 THEN called[h] + 1 ELSE tail[h]

NewTail(h) == called[h] + 1

Accept(h) ==
  /\ Free(h) /\ called[h] < MaxCalls
  /\ mode[h] = "open" /\ ~Full(h)
  /\ called' = [called EXCEPT ![h] = @ + 1]
  /\ Becomes(h, called[h] + 1, "waiting")
  /\ predecessor' = [predecessor EXCEPT ![h][called[h] + 1] = tail[h]]
  /\ tail' = [tail EXCEPT ![h] = NewTail(h)]
  /\ pending' = [pending EXCEPT ![h] = @ + 1]
  /\ UNCHANGED <<resolved, mode, lock, store>>

\* Its predecessor is resolved: the call goes on.
Turn(h, i) == Free(h) /\ call[h][i] = "waiting" /\ predecessor[h][i] \in resolved[h]

\* BEGIN IMMEDIATE
Begin(h, i) ==
  /\ Turn(h, i) /\ lock = Nobody
  /\ Becomes(h, i, "running")
  /\ lock' = h
  /\ UNCHANGED <<called, predecessor, tail, resolved, pending, mode, store>>

\* (mutant) The promise is resolved only when the transaction was committed.
ResolvedIfCommitted(h, i, outcome) ==
  IF outcome = "committed" THEN resolved[h] \cup {i} ELSE resolved[h]

Resolved(h, i, outcome) == resolved[h] \cup {i}

\* The finally block: the counter, and the promise the next call awaits.
Release(h, i, outcome) ==
  /\ Becomes(h, i, outcome)
  /\ pending' = [pending EXCEPT ![h] = @ - 1]
  /\ resolved' = [resolved EXCEPT ![h] = Resolved(h, i, outcome)]

\* BEGIN IMMEDIATE gives up after the busy timeout.
Busy(h, i) ==
  /\ Turn(h, i) /\ lock # Nobody
  /\ Release(h, i, "failed")
  /\ UNCHANGED <<called, predecessor, tail, mode, lock, store>>

\* The work and COMMIT, or its exception and ROLLBACK.
End(h, i, outcome) ==
  /\ mode[h] # "dead" /\ call[h][i] = "running"
  /\ Release(h, i, outcome)
  /\ store' = IF outcome = "committed" THEN Append(store, <<h, i>>) ELSE store
  /\ lock' = Nobody
  /\ UNCHANGED <<called, predecessor, tail, mode>>

-----------------------------------------------------------------------------
\* close, and the death of a process.

Shut(h) ==
  /\ Free(h) /\ mode[h] = "open"
  /\ mode' = [mode EXCEPT ![h] = "closing"]
  /\ UNCHANGED <<called, call, predecessor, tail, resolved, pending, lock, store>>

Drained(h) == tail[h] \in resolved[h]

Close(h) ==
  /\ Free(h) /\ mode[h] = "closing"
  /\ Drained(h)
  /\ mode' = [mode EXCEPT ![h] = "closed"]
  /\ UNCHANGED <<called, call, predecessor, tail, resolved, pending, lock, store>>

\* SQLite rolls a transaction back whose process is gone.
Die(h) ==
  /\ mode[h] # "dead"
  /\ mode' = [mode EXCEPT ![h] = "dead"]
  /\ lock' = IF lock = h THEN Nobody ELSE lock
  /\ UNCHANGED <<called, call, predecessor, tail, resolved, pending, store>>

\* What a process does by itself once a call was accepted or close was called.
Work(h) ==
  \/ \E i \in Calls :
       \/ Begin(h, i)
       \/ Busy(h, i)
       \/ \E outcome \in {"committed", "failed"} : End(h, i, outcome)
  \/ Close(h)

Next == \E h \in Hosts : Refuse(h) \/ Accept(h) \/ Shut(h) \/ Work(h) \/ Die(h)

Spec == Init /\ [][Next]_vars

FairSpec == Spec /\ \A h \in Hosts : WF_vars(Work(h))
-----------------------------------------------------------------------------
\* Properties.

Unsettled(h) == {i \in Calls : call[h][i] \in {"waiting", "running"}}
Taken(h) == {i \in Calls : call[h][i] \notin {"new", "refused"}}
Settled(h) == {i \in Calls : call[h][i] \in {"committed", "failed"}}

\* The promises form one chain over the accepted calls: each call awaits the
\* accepted call before it, the tail is the last one, and exactly the settled
\* calls have resolved theirs, whether they committed or failed.
Chained(h) ==
  /\ \A i \in Calls : i > called[h] <=> call[h][i] = "new"
  /\ tail[h] \in Taken(h) \cup {0}
  /\ \A i \in Taken(h) : i <= tail[h]
  /\ \A i \in Taken(h) :
       /\ predecessor[h][i] \in Taken(h) \cup {0} /\ predecessor[h][i] < i
       /\ \A j \in Taken(h) : j < i => j <= predecessor[h][i]
  /\ resolved[h] = Settled(h) \cup {0}

\* A call runs, or has run, only when every call accepted before it is settled.
InOrder(h) ==
  \A i \in Taken(h) : call[h][i] # "waiting" =>
    \A j \in Taken(h) : j < i => j \in Settled(h)

\* The counter that bounds the queue counts the calls that wait or run.
Counted(h) == pending[h] = Cardinality(Unsettled(h))

\* The process whose transaction is running has the lock.
Locked(h) == \A i \in Calls : call[h][i] = "running" /\ mode[h] # "dead" => lock = h

\* What makes the chain of promises a first-in first-out queue, whatever is
\* refused, fails or dies in between: the chain, the order and the count.
QueueInvariant ==
  \A h \in Hosts : Chained(h) /\ InOrder(h) /\ Counted(h) /\ Locked(h)

\* The connection is closed only when every accepted call is settled, so no
\* transaction meets a closed connection.
DrainedBeforeClose == \A h \in Hosts : mode[h] = "closed" => Unsettled(h) = {}

\* The queue keeps the promise of SerialWrites to the callers of write: each
\* accepted call is run once, in the order of the calls, as one transaction.
Serial == INSTANCE SerialWrites WITH accepted <- [h \in Hosts |-> Unsettled(h)]
SerialSpec == Serial!SerialSpec

\* Every accepted call is settled and close returns, unless the process dies:
\* each process is idle again and again; the other one's transactions can make
\* a call fail, but not wait for ever.
EveryCallSettles ==
  \A h \in Hosts : []<>(mode[h] = "dead" \/ (mode[h] # "closing" /\ Unsettled(h) = {}))
=============================================================================
