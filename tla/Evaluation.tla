----------------------------- MODULE Evaluation -----------------------------
(***************************************************************************
 The parts of one evaluation that keep their state to themselves: the pipeline
 of a point, one call of the bundled annotator dispatcher it makes, and the
 cut of oversize evidence at its end.  The pipeline knows of the other two only
 what they may answer, so a run is about one of them.
 ***************************************************************************)
EXTENDS EvaluationPipeline, EvidenceCap, AnnotatorDispatch

VARIABLE part           \* which of the three a run is about
vars == <<part, pipelineVars, evidenceVars, dispatchVars>>

\* The parts a run is not about.
NoPoint == PipelineInit /\ ~chaining /\ declared = {} /\ limit = Min(AnnotatorLimits)
NoEvidence == EvidenceInit /\ artefact = 0 /\ total = 0
NoCall ==
    /\ inv = from_annotation_in(CHOOSE d \in Declarations : TRUE, {}, FALSE) /\ host = {}
    /\ stage = "idle" /\ net = <<>> /\ heard = Silence /\ out = Pending

Init ==
    \/ part = "pipeline" /\ PipelineInit /\ NoEvidence /\ NoCall
    \/ part = "evidence" /\ NoPoint /\ EvidenceInit /\ NoCall
    \/ part = "dispatch" /\ NoPoint /\ NoEvidence /\ DispatchInit

In(name, step) == part = name /\ step /\ UNCHANGED part
Next ==
    \/ In("pipeline", PipelineStep) /\ UNCHANGED <<evidenceVars, dispatchVars>>
    \/ In("evidence", EvidenceStep) /\ UNCHANGED <<pipelineVars, dispatchVars>>
    \/ In("dispatch", DispatchStep) /\ UNCHANGED <<pipelineVars, evidenceVars>>

Spec == Init /\ [][Next]_vars
=============================================================================
