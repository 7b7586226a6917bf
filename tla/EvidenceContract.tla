--------------------------- MODULE EvidenceContract ---------------------------
(***************************************************************************)
(* What the quality gate promises, without checkpoints, files, rounds or   *)
(* failing writes: a visit of the gate starts with no evidence, evidence   *)
(* filed during the visit stays until the visit ends, and only such a      *)
(* visit ends certified.  Gate commands a run executes itself verify the   *)
(* work without a filed report, and a task may be closed unverified from   *)
(* TRIAGE; both are named, so that neither can pass for a certification.   *)
(*                                                                         *)
(* TaskPipeline implements this specification (ContractRefinement there).  *)
(***************************************************************************)

VARIABLES
    gate,       \* the visit of QUALITY_GATE: none, without or with evidence
    verified    \* what the work past the gate was verified by

contractVars == <<gate, verified>>

ContractTypeOK ==
    /\ gate \in {"away", "waiting", "evidenced"}
    /\ verified \in {"none", "certified", "measured", "waived"}

ContractInit == gate = "away" /\ verified = "none"

\* A visit begins; nothing filed before it counts.
Arrive ==
    /\ gate = "away"
    /\ gate' = "waiting"
    /\ UNCHANGED verified

File ==
    /\ gate = "waiting"
    /\ gate' = "evidenced"
    /\ UNCHANGED verified

\* The exit that consumes the visit's evidence.
Certify ==
    /\ gate = "evidenced"
    /\ gate' = "away"
    /\ verified' = "certified"

\* Every other exit, and what happens away from the gate.
Leave ==
    /\ gate' = "away"
    /\ verified' \in {"none", "measured", "waived"}

ContractNext == Arrive \/ File \/ Certify \/ Leave

ContractSpec == ContractInit /\ [][ContractNext]_contractVars

===============================================================================
