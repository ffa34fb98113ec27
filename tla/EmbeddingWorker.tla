-------------------------- MODULE EmbeddingWorker --------------------------
(***************************************************************************)
(* The local embedding provider: background indexing, consolidation and     *)
(* recall share one child process (adapters/local-embedding.ts,             *)
(* local-embedding-worker.ts).  Calls queue for their turn, each with its   *)
(* own abort and timeout; an abort kills the child, and the next call       *)
(* starts another.  The answers of a child, the exit of a killed one and    *)
(* the failure of a message sent to a dying one arrive when they arrive.    *)
(* An answer carries the requestId of its call, which other calls may       *)
(* share: the batches of a rebuild are named by the library and their       *)
(* place (application/retrieval-projection.ts:99), so that two rebuilds of  *)
(* one library use the same names, whatever the model.                      *)
(* The files of a model and the numbers of a vector are left out: a vector  *)
(* is the call and the model that it was computed for.                      *)
(***************************************************************************)
EXTENDS Naturals, FiniteSets, Sequences, SequencesExt

CONSTANTS
  Requests,     \* calls
  Configurations,
  RequestId,    \* the requestId of each call
  Nobody,
  MaxChildren  \* bound: children ever started

ASSUME EmbeddingAssumption == Nobody \notin Requests /\ MaxChildren \in Nat

VARIABLES
  order,     \* the requests in the order of their calls: operationTail
  stage,     \* how far each is
  asked,     \* the configuration each was called with
  result,    \* what each returned
  pending,   \* ChildProcessEmbeddingWorker.pending
  child,     \* ChildProcessEmbeddingWorker.child, 0 if none
  children,  \* every child: the calls it was sent and has not answered, whether it runs
  answers,   \* messages of the children that are not yet received
  disposing  \* none, waiting for the calls before it, or done

embedding == <<order, stage, asked, result, pending, child, children, answers, disposing>>

Failed == [request |-> Nobody, model |-> Nobody]

EmbeddingTypeOK ==
  /\ Range(order) \subseteq Requests /\ pending \in Requests \cup {Nobody}
  /\ stage \in [Requests -> {"idle", "waiting", "verifying", "working", "settled"}]
  /\ child \in 0..Len(children)

EmbeddingInit ==
  /\ order = <<>> /\ answers = {} /\ disposing = [state |-> "none", after |-> 0]
  /\ stage = [r \in Requests |-> "idle"]
  /\ asked \in [Requests -> Configurations]
  /\ result = [r \in Requests |-> Failed]
  /\ pending = Nobody /\ child = 0 /\ children = <<>>

-----------------------------------------------------------------------------
\* The queue.

Position(r) == CHOOSE i \in DOMAIN order : order[i] = r

\* embedBatch: the gate of the call is put behind those of all earlier calls.
Embed(r) ==
  /\ stage[r] = "idle"
  /\ stage' = [stage EXCEPT ![r] = "waiting"] /\ order' = Append(order, r)
  /\ UNCHANGED <<asked, result, pending, child, children, answers, disposing>>

\* Every earlier call has released its gate.
Released(r) == \A i \in 1..(Position(r) - 1) : stage[order[i]] = "settled"

Turn(r) ==
  /\ stage[r] = "waiting" /\ Released(r)
  /\ stage' = [stage EXCEPT ![r] = "verifying"]
  /\ UNCHANGED <<order, asked, result, pending, child, children, answers, disposing>>

\* The call returns or throws; finally releases its gate.
Settles(r, vectors) == /\ stage' = [stage EXCEPT ![r] = "settled"]
                       /\ result' = [result EXCEPT ![r] = vectors]

\* The artifact or the tokenizer are not the configured ones.
Drifted(r) ==
  /\ stage[r] = "verifying" /\ Settles(r, Failed)
  /\ UNCHANGED <<order, asked, pending, child, children, answers, disposing>>

-----------------------------------------------------------------------------
\* The worker.

NewChild(r) == [work |-> {r}, state |-> "up"]

\* worker.embed, with the child there is, or a new one; it would refuse a second
\* request at once.  The child may still be at an earlier call, one that failed
\* with the exit of another child.
WorkerEmbed(r) ==
  /\ stage[r] = "verifying" /\ pending = Nobody
  /\ IF child = 0
       THEN /\ Len(children) < MaxChildren
            /\ children' = Append(children, NewChild(r)) /\ child' = Len(children')
       ELSE children' = [children EXCEPT ![child].work = @ \cup {r}] /\ UNCHANGED child
  /\ pending' = r
  /\ stage' = [stage EXCEPT ![r] = "working"]
  /\ UNCHANGED <<order, asked, result, answers, disposing>>

\* The timeout or the caller ends a call: at the worker, the child is stopped
\* and forgotten.
Abort(r) ==
  /\ stage[r] \in {"waiting", "verifying", "working"} /\ Settles(r, Failed)
  /\ IF stage[r] = "working"
       THEN /\ pending' = Nobody /\ child' = 0
            /\ children' = IF child = 0 THEN children ELSE [children EXCEPT ![child].state = "killed"]
       ELSE UNCHANGED <<pending, child, children>>
  /\ UNCHANGED <<order, asked, answers, disposing>>

\* load: another configuration is loaded anew.
Loaded(r) == asked[r]

\* A child computes, and sends its answer: also a killed one, until it exits.
ChildAnswers(k) ==
  /\ children[k].state \in {"up", "killed"}
  /\ \E r \in children[k].work :
       /\ children' = [children EXCEPT ![k].work = @ \ {r}]
       /\ \E vectors \in {[request |-> r, model |-> Loaded(r)], Failed} :
            answers' = answers \cup {[for |-> r, vectors |-> vectors]}
  /\ UNCHANGED <<order, stage, asked, result, pending, child, disposing>>

\* (mutant) Whatever arrives answers the pending request.
AnyAnswer(answer) == pending # Nobody
\* An answer is matched by its requestId alone, whichever child it comes from.
AnswersPending(answer) == pending # Nobody /\ RequestId[pending] = RequestId[answer.for]

Receive(answer) ==
  /\ answers' = answers \ {answer}
  /\ IF AnswersPending(answer)
       THEN pending' = Nobody /\ Settles(pending, answer.vectors)
       ELSE UNCHANGED <<pending, stage, result>>
  /\ UNCHANGED <<order, asked, child, children, disposing>>

\* Whatever is pending by then fails, at this child or at the next.
FailPending ==
  IF pending = Nobody THEN UNCHANGED <<pending, stage, result>>
  ELSE pending' = Nobody /\ Settles(pending, Failed)

\* A child exits, killed, disposed of, or by itself.
ChildExits(k) ==
  /\ children[k].state # "gone"
  /\ children' = [children EXCEPT ![k].state = "gone", ![k].work = {}]
  /\ child' = IF child = k THEN 0 ELSE child
  /\ FailPending
  /\ UNCHANGED <<order, asked, answers, disposing>>

\* A message did not reach a child that is dying.
SendFails(k) ==
  /\ children[k].state # "gone"
  /\ \E r \in children[k].work : children' = [children EXCEPT ![k].work = @ \ {r}]
  /\ FailPending
  /\ UNCHANGED <<order, asked, child, answers, disposing>>

-----------------------------------------------------------------------------
\* dispose, once the calls made before it have ended.

Dispose ==
  /\ disposing.state = "none"
  /\ disposing' = [state |-> "waiting", after |-> Len(order)]
  /\ UNCHANGED <<order, stage, asked, result, pending, child, children, answers>>

Disposed ==
  /\ disposing.state = "waiting"
  /\ \A i \in 1..disposing.after : stage[order[i]] = "settled"
  /\ disposing' = [disposing EXCEPT !.state = "done"]
  /\ children' = IF child = 0 THEN children ELSE [children EXCEPT ![child].state = "killed"]
  /\ child' = 0
  /\ UNCHANGED <<order, stage, asked, result, pending, answers>>

EmbeddingNext ==
  \/ \E r \in Requests :
       Embed(r) \/ Turn(r) \/ Drifted(r) \/ WorkerEmbed(r) \/ Abort(r)
  \/ \E k \in DOMAIN children : ChildAnswers(k) \/ ChildExits(k) \/ SendFails(k)
  \/ \E answer \in answers : Receive(answer)
  \/ Dispose \/ Disposed

EmbeddingSpec == EmbeddingInit /\ [][EmbeddingNext]_embedding

-----------------------------------------------------------------------------
\* Properties.

\* The vectors a call returns were computed for a call of its requestId, by the
\* model that call was configured with, and no vectors are returned to two calls:
\* not those of another request that timed out before, of a child that was killed
\* and answers late, or of a call the child was sent meanwhile.  A call whose
\* requestId is its own, as every recall's is, so gets its own vectors or none;
\* rebuilds of one library under two models may get each other's.  And the calls
\* take turns, one at the worker whatever is aborted in the queue, so none is
\* refused as concurrent.
VectorsAreOwn ==
  /\ \A r \in Requests : result[r] # Failed =>
       \E q \in Requests : /\ RequestId[q] = RequestId[r]
                          /\ result[r] = [request |-> q, model |-> asked[q]]
  /\ \A q, r \in Requests : result[q] = result[r] /\ result[q] # Failed => q = r
  /\ Cardinality({r \in Requests : stage[r] \in {"verifying", "working"}}) <= 1
=============================================================================
