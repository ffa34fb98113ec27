------------------------- MODULE CandidateProposal -------------------------
(***************************************************************************)
(* One Candidate proposed by a model: inspected, disclosed and confirmed    *)
(* (candidate-service.ts, proposal-llm.ts), generated in a Session of its   *)
(* own (structured-generation.ts) and stored (repository.ts).  Between any  *)
(* two awaits the sources grow, the settings are saved anew, the provider   *)
(* resolves another route, the Host restarts, and the command is retried.   *)
(*                                                                         *)
(* A packet is the versions it was built from; a digest is the record it    *)
(* digests.  Unreadable or oversized sources, ineligible Episodes, missing  *)
(* services and aborted signals are failures that may happen at their step. *)
(***************************************************************************)
EXTENDS Naturals, Sequences, FiniteSets

CONSTANTS
  ProposalCommands,
  Nil,
  MaxChanges,  \* bound: changes of the world
  MaxRuns,     \* bound: proposal runs ever started
  MaxRestarts  \* bound: restarts of the Host

VARIABLES
  world,      \* sources, settings and what the provider resolves
  changes, restarts,
  confirmed,  \* the input of every command, Nil until its owner confirmed
  inFlight,   \* CandidateProposalService.inFlight: the run of a command, or 0
  runs,       \* every run, also those that ended
  durable,    \* the Sessions that were persisted: the log, by run
  stored      \* the stored Candidate of every command, or Nil

proposal == <<world, changes, restarts, confirmed, inFlight, runs, durable, stored>>

Efforts == {"asked", "other", "absent"}
Packet == [episode: Nat, history: Nat]

\* disclosureFor: everything the owner is shown.
Disclosure(packet, settings, effort, max) ==
  [packet |-> packet, settings |-> settings, effort |-> effort, max |-> max]
\* A route that resolves no effort is disclosed with the configured one.
Resolved(route) == IF route.effort = "absent" THEN "asked" ELSE route.effort

ProposalTypeOK ==
  /\ world \in [packet: Packet, settings: Nat, route: [effort: Efforts, max: {0, 1}]]
  /\ \A c \in ProposalCommands : inFlight[c] \in 0..Len(runs)
  /\ \A r \in DOMAIN runs : runs[r].command \in ProposalCommands

ProposalInit ==
  /\ world = [packet |-> [episode |-> 0, history |-> 0], settings |-> 0,
              route |-> [effort |-> "asked", max |-> 0]]
  /\ changes = 0 /\ restarts = 0
  /\ confirmed = [c \in ProposalCommands |-> Nil]
  /\ inFlight = [c \in ProposalCommands |-> 0]
  /\ runs = <<>> /\ durable = <<>>
  /\ stored = [c \in ProposalCommands |-> Nil]

-----------------------------------------------------------------------------
\* The world.

WorldChanges ==
  /\ changes < MaxChanges /\ changes' = changes + 1
  /\ \/ world' = [world EXCEPT !.packet.episode = @ + 1]
     \/ world' = [world EXCEPT !.packet.history = @ + 1]
     \/ world' = [world EXCEPT !.settings = @ + 1]
     \/ \E effort \in Efforts : world' = [world EXCEPT !.route.effort = effort]
     \/ world' = [world EXCEPT !.route.max = 1 - @]
  /\ UNCHANGED <<restarts, confirmed, inFlight, runs, durable, stored>>

\* The Sessions and records as they are read now, in one moment.
Inspected == world.packet

\* inspectProposalSource, and the owner's confirmation of what it disclosed.
Confirm(c) ==
  /\ confirmed[c] = Nil
  /\ confirmed' = [confirmed EXCEPT ![c] = Disclosure(Inspected, world.settings,
                                             Resolved(world.route), world.route.max)]
  /\ UNCHANGED <<world, changes, restarts, inFlight, runs, durable, stored>>

-----------------------------------------------------------------------------
\* The call, and its retries.

\* A stored command answers with its receipt; a running one is joined.
NotStarted(c) == stored[c] = Nil /\ inFlight[c] = 0

StartRun(c) ==
  /\ confirmed[c] # Nil /\ NotStarted(c)
  /\ Len(runs) < MaxRuns
  /\ runs' = Append(runs, [command |-> c, pc |-> "reading", settings |-> world.settings,
                           packet |-> world.packet, log |-> <<>>, ok |-> FALSE, sent |-> Nil])
  /\ durable' = Append(durable, <<>>)
  /\ inFlight' = [inFlight EXCEPT ![c] = Len(runs')]
  /\ UNCHANGED <<world, changes, restarts, confirmed, stored>>

\* Whatever a run throws, the command may be tried again.
Frees(r) == inFlight' = [c \in ProposalCommands |-> IF inFlight[c] = r THEN 0 ELSE inFlight[c]]
Goes(r, pc) == /\ runs' = [runs EXCEPT ![r].pc = pc]
               /\ UNCHANGED inFlight
Ends(r) == /\ runs' = [runs EXCEPT ![r].pc = "ended"]
           /\ Frees(r)

\* evaluateExtractionEligibility: its digest covers the Episode, how it ended and what
\* the owner's manifest says of it, and none of the other sources.
EligibilityDigest(packet) == packet.episode

\* The eligibility digest, and the preflight with the configured effort.
PreflightHolds(r, packet) ==
  LET shown == confirmed[runs[r].command]
  IN  /\ EligibilityDigest(shown.packet) = EligibilityDigest(packet)
      /\ shown = Disclosure(packet, runs[r].settings, "asked", shown.max)

\* readSources, and all that follows up to resolveCallConfig.
ReadSources(r) ==
  /\ runs[r].pc = "reading"
  /\ \/ /\ PreflightHolds(r, Inspected)
        /\ runs' = [runs EXCEPT ![r].pc = "resolving", ![r].packet = Inspected]
        /\ UNCHANGED inFlight
     \/ Ends(r)
  /\ UNCHANGED <<world, changes, restarts, confirmed, durable, stored>>

\* The second disclosure, of the resolved route; then the Session is opened.
Compare(r) ==
  /\ runs[r].pc = "resolving"
  /\ \/ /\ confirmed[runs[r].command] =
             Disclosure(runs[r].packet, runs[r].settings, Resolved(world.route), world.route.max)
        /\ runs' = [runs EXCEPT ![r].pc = "preparing", ![r].log = <<"turn/start", "step/start">>]
        /\ UNCHANGED inFlight
     \/ Ends(r)
  /\ UNCHANGED <<world, changes, restarts, confirmed, durable, stored>>

\* A step and a turn that were started are ended, also by an error.
Closed(log) == log \o <<"step/end", "turn/end">>
\* The generation is over, with a result or an error: the Session is flushed.
Concludes(r, log, ok) ==
  runs' = [runs EXCEPT ![r].pc = "flushing", ![r].log = Closed(log), ![r].ok = ok]

\* (mutant) The settings of the prepared call are taken as disclosed.
AnyRoute(r) == TRUE
\* prepareCall resolved what was disclosed.
RouteHeld(r) == LET shown == confirmed[runs[r].command]
                IN  world.route.max = shown.max /\ world.route.effort = shown.effort

Prepare(r) ==
  /\ runs[r].pc = "preparing"
  /\ \/ /\ RouteHeld(r)
        /\ runs' = [runs EXCEPT
             ![r].pc = "streaming",
             ![r].log = @ \o <<"system/message", "user/message", "request/header", "request/context">>,
             ![r].sent = Disclosure(runs[r].packet, runs[r].settings, world.route.effort, world.route.max)]
     \/ Concludes(r, runs[r].log, FALSE)
  /\ UNCHANGED <<world, changes, restarts, confirmed, inFlight, durable, stored>>

\* One result tool call, and nothing else that is visible.
Expected(answer) == answer.finish = "tool-calls" /\ answer.calls = 1 /\ ~answer.other
\* Every tool call that is logged is answered: accepted, or rejected.
Results(answer) ==
  IF Expected(answer)
  THEN <<"call", IF answer.valid THEN "accepted" ELSE "rejected">>
  ELSE [i \in 1..2 * answer.calls |-> IF i % 2 = 1 THEN "call" ELSE "rejected"]

\* collectStructuredResult: the stream may break, or end in any way.
Stream(r) ==
  /\ runs[r].pc = "streaming"
  /\ \/ Concludes(r, runs[r].log, FALSE)
     \/ \E answer \in [finish: {"tool-calls", "other"}, calls: 0..2, other: BOOLEAN, valid: BOOLEAN] :
          Concludes(r, Append(runs[r].log, "assistant/message")
                         \o (IF answer.finish = "other" THEN <<>> ELSE Results(answer)),
                    Expected(answer) /\ answer.valid)
  /\ UNCHANGED <<world, changes, restarts, confirmed, inFlight, durable, stored>>

\* requireDurableSession: a listener took part, and persisted it.
Persisted == {"durable"}

Flush(r) ==
  /\ runs[r].pc = "flushing"
  /\ \E outcome \in {"durable", "absent", "failed"} :
       /\ durable' = IF outcome = "durable" THEN [durable EXCEPT ![r] = runs[r].log] ELSE durable
       /\ IF runs[r].ok /\ outcome \in Persisted THEN Goes(r, "storing") ELSE Ends(r)
  /\ UNCHANGED <<world, changes, restarts, confirmed, stored>>

\* The draft is validated against the packet, and written once per command.
StoreCandidate(r) ==
  /\ runs[r].pc = "storing"
  /\ \/ UNCHANGED stored
     \/ /\ stored[runs[r].command] = Nil
        /\ stored' = [stored EXCEPT
             ![runs[r].command] = [run |-> r, packet |-> runs[r].packet]]
  /\ Ends(r)
  /\ UNCHANGED <<world, changes, restarts, confirmed, durable>>

Restart ==
  /\ restarts < MaxRestarts /\ restarts' = restarts + 1
  /\ runs' = [r \in DOMAIN runs |-> [runs[r] EXCEPT !.pc = "ended"]]
  /\ inFlight' = [c \in ProposalCommands |-> 0]
  /\ UNCHANGED <<world, changes, confirmed, durable, stored>>

ProposalNext ==
  \/ WorldChanges
  \/ \E c \in ProposalCommands : Confirm(c) \/ StartRun(c)
  \/ \E r \in DOMAIN runs :
       ReadSources(r) \/ Compare(r) \/ Prepare(r) \/ Stream(r) \/ Flush(r) \/ StoreCandidate(r)
  \/ Restart

ProposalSpec == ProposalInit /\ [][ProposalNext]_proposal

-----------------------------------------------------------------------------
\* Properties.

\* Nothing reaches a model but what its owner was shown and confirmed: the
\* packet, the settings and the route, however they changed between the
\* inspection, the confirmation, the call and its retries.
SentAsDisclosed ==
  \A r \in DOMAIN runs : runs[r].sent # Nil => runs[r].sent = confirmed[runs[r].command]

\* A command has one run at a time, so that a repeated click never has a
\* source processed twice at once.
OneRunPerCommand ==
  \A r, q \in DOMAIN runs :
    r # q /\ runs[r].command = runs[q].command => runs[r].pc = "ended" \/ runs[q].pc = "ended"

Count(log, event) == Cardinality({i \in DOMAIN log : log[i] = event})
\* A persisted Session is complete: its turn and step ended and every tool
\* call in it has its result, also when the generation failed.
SessionComplete(log) ==
  /\ Count(log, "turn/start") = Count(log, "turn/end")
  /\ Count(log, "step/start") = Count(log, "step/end")
  /\ Count(log, "call") = Count(log, "accepted") + Count(log, "rejected")

\* A stored Candidate can be audited: the Session it names was persisted,
\* holds exactly one call, accepted, and was sent the packet it cites.
CandidateAuditable(candidate) ==
  LET log == durable[candidate.run]
  IN  /\ Count(log, "call") = 1 /\ Count(log, "accepted") = 1
      /\ runs[candidate.run].sent.packet = candidate.packet

ProposalsLogged ==
  /\ \A r \in DOMAIN durable : SessionComplete(durable[r])
  /\ \A c \in ProposalCommands : stored[c] # Nil => CandidateAuditable(stored[c])

\* A model is sent what its owner confirmed, once at a time, and what is stored of
\* its answer can be audited (candidate-service.ts, structured-generation.ts).
ProposalsSound == SentAsDisclosed /\ OneRunPerCommand /\ ProposalsLogged
=============================================================================
