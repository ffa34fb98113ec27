---------------------------- MODULE MCProcesses ----------------------------
(***************************************************************************)
(* What the processes must bring to an end, one part at a time.  "queue":  *)
(* the writes of the Host and of the management CLI to one database.       *)
(* "retire": one context retired by its session and by a Forget of either  *)
(* process, with failing appends and retries.  "start": the processes come *)
(* up on one database and one sidecar store, new or left by an earlier     *)
(* build, and go down by failing, disposal or death.                       *)
(***************************************************************************)
EXTENDS WriteQueue, HostLifecycle

CONSTANTS main, cli, s1, d1, Forgetter, NoDelivery, NoJob

VARIABLES part, delivery, drawsOn, started, settlement, retirements, forget, target, surface,
          after, sent, phase, todo, batch, fresh, job, forgetting

context == <<delivery, drawsOn, started, settlement, retirements, forget, target, surface,
             after, sent, phase, todo, batch, fresh, job, forgetting>>
all == <<vars, context, life, part>>

Context == INSTANCE ContextDelivery WITH
  Sessions <- {s1}, Deliveries <- {d1}, SessionOf <- [d \in {d1} |-> s1],
  ForgetPlaces <- {"host", "cli"},
  MaxRetirements <- 2

InQueue == part = "queue" /\ UNCHANGED <<context, life, part>>
InRetire == part = "retire" /\ UNCHANGED <<vars, life, part>>
InStart == part = "start" /\ UNCHANGED <<vars, context, part>>

MCInit ==
  /\ part \in {"queue", "retire", "start"}
  /\ Init /\ Context!Init /\ LifeInit
  /\ part # "start" => files = <<>>

MCNext ==
  \/ InQueue /\ \E h \in Hosts : Refuse(h)
  \/ InQueue /\ \E h \in Hosts : Accept(h)
  \/ InQueue /\ \E h \in Hosts : Shut(h)
  \/ InQueue /\ \E h \in Hosts : Work(h)
  \/ InQueue /\ \E h \in Hosts : Die(h)
  \/ InRetire /\ Context!Next
  \/ InStart /\ \E h \in Processes : Start(h)
  \/ InStart /\ \E h \in Processes : SeeDatabase(h)
  \/ InStart /\ \E h \in Processes : SeeTables(h)
  \/ InStart /\ \E h \in Processes : BootstrapDatabase(h)
  \/ InStart /\ \E h \in Processes : InitializePrincipal(h)
  \/ InStart /\ \E h \in Processes : EnsureFile(h)
  \/ InStart /\ \E h \in Processes : SeeIdentity(h)
  \/ InStart /\ \E h \in Processes : SeeSchema(h)
  \/ InStart /\ \E h \in Processes : Bootstrap(h)
  \/ InStart /\ \E h \in Processes : UpgradeDispositions(h)
  \/ InStart /\ \E h \in Processes : UpgradeProgress(h)
  \/ InStart /\ \E h \in Processes : UpgradeRequests(h)
  \/ InStart /\ \E h \in Processes : SeeLegacy(h)
  \/ InStart /\ \E h \in Processes : RetireLegacy(h)
  \/ InStart /\ \E h \in Processes : AssertStore(h)
  \/ InStart /\ \E h \in Processes : Quarantine(h)
  \/ InStart /\ \E h \in Processes : InstallWorker(h)
  \/ InStart /\ \E h \in Processes : Publish(h)
  \/ InStart /\ \E h \in Processes : Dismiss(h)
  \/ InStart /\ \E h \in Processes : RunJob(h)
  \/ InStart /\ \E h \in Processes : JobEnds(h)
  \/ InStart /\ \E h \in Processes : Stops(h)
  \/ InStart /\ \E h \in Processes : CloseNextPart(h)
  \/ InStart /\ \E h \in Processes : ProcessDies(h)

\* The event loop of a process that is up runs; a pre-step and a Forget go on.
MCFairness ==
  /\ \A h \in Hosts : WF_all(InQueue /\ Work(h))
  /\ WF_all(InRetire /\ Context!PreStep(s1))
  /\ WF_all(InRetire /\ Context!ForgetStep)
MCSpec == MCInit /\ [][MCNext]_all /\ MCFairness

-----------------------------------------------------------------------------
\* What processes share is kept.  While a retirement is pending no second one
\* is requested, so a session and a Forget that close one context agree on its
\* row, and what one of them has proven is not taken back by the other; the
\* owner's decisions and the requests of finished tasks outlive every upgrade
\* of the sidecar (ContextDelivery OnePendingRetirement, ProofsAreFinal;
\* HostLifecycle RowsKept).
SharedRowsKept ==
  /\ [][/\ Context!OnePendingRetirement
        /\ \A d \in {d1} : \A r \in DOMAIN retirements[d] :
             retirements[d][r] = "replaced_on_surface" => retirements'[d][r] = "replaced_on_surface"
        /\ \A d \in {d1} : target[d].state = "retired" => target'[d].state = "retired"]_all
  /\ RowsKept

\* Every accepted write is settled, and a pre-step and a Forget end (WriteQueue
\* EveryCallSettles, ContextDelivery WorkersFinish).
EverythingEnds == EveryCallSettles /\ Context!WorkersFinish

\* A session is never wedged by what earlier usages left (ContextDelivery
\* SessionsAdmitAgain).
SessionsAdmitAgain == Context!SessionsAdmitAgain
=============================================================================
