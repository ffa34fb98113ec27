---------------------------- MODULE SerialWrites ----------------------------
(***************************************************************************)
(* What the database promises its callers: a call of write is refused, or  *)
(* accepted and then run exactly once, as a transaction of its own, in the *)
(* order of the calls of its process; at most MaxPending calls wait; and   *)
(* the connection is closed when every accepted call has been run.         *)
(***************************************************************************)
EXTENDS Integers, Sequences, FiniteSets

CONSTANTS
  Hosts,        \* processes that have the database open
  MaxPending,   \* configured bound of the queue
  MaxCalls      \* bound: calls of write in a process

Calls == 1..MaxCalls

VARIABLES
  called,     \* calls made by a process, numbered in their order
  accepted,   \* calls of a process that have to be run
  store,      \* committed transactions, in their order
  mode        \* whether a process takes calls: open, closing, closed, dead

serialVars == <<called, accepted, store, mode>>

SerialInit ==
  /\ called = [h \in Hosts |-> 0]
  /\ accepted = [h \in Hosts |-> {}]
  /\ store = <<>>
  /\ mode = [h \in Hosts |-> "open"]

Refuse(h) ==
  /\ mode[h] # "dead" /\ called[h] < MaxCalls
  /\ mode[h] # "open" \/ Cardinality(accepted[h]) >= MaxPending
  /\ called' = [called EXCEPT ![h] = @ + 1]
  /\ UNCHANGED <<accepted, store, mode>>

Accept(h) ==
  /\ mode[h] = "open" /\ called[h] < MaxCalls
  /\ Cardinality(accepted[h]) < MaxPending
  /\ called' = [called EXCEPT ![h] = @ + 1]
  /\ accepted' = [accepted EXCEPT ![h] = @ \cup {called[h] + 1}]
  /\ UNCHANGED <<store, mode>>

\* The earliest accepted call is run: committed as a whole, or not at all.
Run(h, i) ==
  /\ mode[h] \in {"open", "closing"}
  /\ i \in accepted[h] /\ \A j \in accepted[h] : i <= j
  /\ accepted' = [accepted EXCEPT ![h] = @ \ {i}]
  /\ store' \in {store, Append(store, <<h, i>>)}
  /\ UNCHANGED <<called, mode>>

Shut(h) ==
  /\ mode[h] = "open"
  /\ mode' = [mode EXCEPT ![h] = "closing"]
  /\ UNCHANGED <<called, accepted, store>>

Close(h) ==
  /\ mode[h] = "closing" /\ accepted[h] = {}
  /\ mode' = [mode EXCEPT ![h] = "closed"]
  /\ UNCHANGED <<called, accepted, store>>

Die(h) ==
  /\ mode[h] # "dead"
  /\ mode' = [mode EXCEPT ![h] = "dead"]
  /\ UNCHANGED <<called, accepted, store>>

SerialNext ==
  \E h \in Hosts :
    \/ Refuse(h) \/ Accept(h) \/ Shut(h) \/ Close(h) \/ Die(h)
    \/ \E i \in Calls : Run(h, i)

SerialSpec == SerialInit /\ [][SerialNext]_serialVars
=============================================================================
