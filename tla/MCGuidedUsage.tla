--------------------------- MODULE MCGuidedUsage ---------------------------
(***************************************************************************)
(* Two small instances of GuidedUsage.  "verify": a usage the pre-step     *)
(* activated, from its last step on, with owner commands of both processes *)
(* and a target that is seen to serve.  "steps": every move of the Host's  *)
(* owner between two steps, or none at all, and a target whose owner never *)
(* authenticates.                                                          *)
(***************************************************************************)
EXTENDS GuidedUsage

VARIABLE part

\* Nothing but the move to the last step happens before it.
VerifyBound ==
  IF cursor.rev = 1
    THEN entry = "guarded" /\ tail = <<>> /\ ~closing /\ verify = [v \in Verifiers |-> Idle]
         /\ settlement = NoSettlement /\ \A c \in Launches : jobs[c] = "none"
    ELSE cursor.step = StepCount

StepsBound == \A v \in Verifiers : verify[v].results["auth"].is = "unknown"

MCBound == IF part = "verify" THEN VerifyBound ELSE StepsBound

MCInit == part \in {"verify", "steps"} /\ Init /\ (part = "verify" => entry = "guarded")

MCStep ==
  \/ \E here \in BOOLEAN : OwnerStep(here) /\ (part = "steps" => here)
  \/ \E v \in Verifiers : VerifyStep(v)
  \/ \E c \in Launches : ToolStep(c)
  \/ SessionStep

MCNext == MCStep /\ UNCHANGED part /\ MCBound'
MCSpec == MCInit /\ [][MCNext]_<<vars, part>>
=============================================================================
