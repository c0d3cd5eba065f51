------------------------------ MODULE GatedRun ------------------------------
(***************************************************************************)
(* What a pipeline run promises the people who review it: the stages are   *)
(* worked on one after the other, each result waits for a decision, only   *)
(* an approval moves the run forward, by exactly one stage, and a run      *)
(* that is rejected, retried or restarted goes back, never ahead.          *)
(***************************************************************************)
EXTENDS Integers

CONSTANT Gates  \* the number of stages (at least 1), each closed by an approval

VARIABLES
    phase,    \* "working", "waiting" for a decision, "failed" or "completed"
    approved  \* how many leading stages have an approved result that still counts

gatedVars == <<phase, approved>>

GatedInit == phase \in {"working", "failed"} /\ approved = 0

\* The work on a stage leads to a result to be reviewed or to a failure.
Finish ==
    /\ phase = "working"
    /\ phase' \in {"waiting", "failed"}
    /\ approved' = approved

Approve ==
    /\ phase = "waiting"
    /\ approved' = approved + 1
    /\ phase' = IF approved' = Gates THEN "completed" ELSE "working"

\* A rejection, the retry of a failure or an automatic recovery discards the
\* results from some stage on.
GoBack ==
    /\ phase \in {"working", "waiting", "failed"}
    /\ phase' = "working"
    /\ approved' \in 0..approved

GatedNext == Finish \/ Approve \/ GoBack

GatedSpec == GatedInit /\ [][GatedNext]_gatedVars
=============================================================================
