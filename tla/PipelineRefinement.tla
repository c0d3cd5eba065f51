------------------------- MODULE PipelineRefinement -------------------------
(***************************************************************************)
(* PipelineRun implements GatedRun as long as one reviewer decides at a    *)
(* time and the Runtime stops with its invocation.                         *)
(***************************************************************************)
EXTENDS PipelineRun

\* The stages at the front of the pipeline whose newest attempt is completed
\* and approved.
Passed == {c \in Stages : \A d \in Upstream(c) \cup {c} :
                             Latest(d).status = "COMPLETED" /\ Latest(d).approved}

PhaseOf(status) ==
    IF status \in {"QUEUED", "RUNNING"} THEN "working"
    ELSE IF status = "COMPLETED" THEN "completed"
    ELSE IF status = "FAILED" THEN "failed"
    ELSE "waiting"

Gated == INSTANCE GatedRun WITH Gates <- Cardinality(Stages),
                                phase <- PhaseOf(run.status),
                                approved <- Cardinality(Passed)

\* Every behaviour of the run is one that GatedRun allows.
ImplementsGates == Gated!GatedSpec
=============================================================================
