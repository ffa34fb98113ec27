-------------------------- MODULE MCPlanAdmission --------------------------
(***************************************************************************)
(* Two small instances of PlanAdmission.  "race": one usage, two sessions  *)
(* that race for its binding, adaptations and reclaims.  "keys": two       *)
(* usages of one task, with and without a recall key, planned for the      *)
(* session's scope or another one, whose Version stays current.            *)
(***************************************************************************)
EXTENDS PlanAdmission, TLC

CONSTANTS sc1, sc2, k1

VARIABLE part

\* Every session computes the same scope; the other scope has another root.
MCScopeOf == [s \in Sessions |-> sc1]
MCRootsApart == (sc1 :> "root1") @@ (sc2 :> "root2")

MCSymmetry == Permutations(Sessions) \cup Permutations(Usages)

Planned == {u \in Usages : plan[u] # NoPlan}

\* The sessions that a row or a running pre-step names.
Seen == {s \in Sessions : \/ admission[s] # NoClaim
                          \/ \E u \in Planned : plan[u].session = s
                          \/ \E u \in Usages : \E d \in deliveries[u] : d[1] = s}

RaceBound == Cardinality(Planned) <= 1 /\ \A u \in Planned : plan[u].key = NoKey

KeysBound ==
  /\ current = Versions
  /\ now <= Ttl
  /\ Cardinality(Seen) <= 1
  /\ \A u \in Usages : usage[u].rev <= 1 /\ requests[u][1].expires <= Ttl + 1

MCBound == IF part = "race" THEN RaceBound ELSE KeysBound

MCInit == part \in {"race", "keys"} /\ Init
MCNext == Next /\ UNCHANGED part /\ MCBound'
MCSpec == MCInit /\ [][MCNext]_<<vars, part>>
=============================================================================
