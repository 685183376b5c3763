--------------------------- MODULE PolicyBackends ---------------------------
(***************************************************************************
 From a manifest to a backend's answer (engine/src/policy.rs, activation.rs,
 dispatchers/mod.rs, dispatchers/binding.rs, cedar.rs, opa.rs).  A policy and
 a binding are accepted or refused, become an invocation, and the dispatcher
 routes it to the backend of its engine: Cedar's cache, an opa child, a
 literal verdict or none.  The in-process Rego backend is RegoRunner.
 ***************************************************************************)
EXTENDS PolicySources, CedarRequest, CedarCache, OpaProcess

CONSTANT Scenarios      \* what a run starts from: manifest, dispatcher, contents, input

vars == <<sourceVars, cedarVars, opaVars>>

Init ==
    \E scenario \in Scenarios :
        /\ SourceInit(scenario.source, scenario.dispatcher)
        /\ CedarInit(scenario.world)
        /\ OpaInit(scenario.large)

\* The opa runner's call begins where the dispatcher hands it the invocation.
Load ==
    /\ LoadSource
    /\ IF phase' = "opa" THEN Invoked(invocation'.adapter_config.bundle_url # Absent)
       ELSE UNCHANGED opa
    /\ UNCHANGED <<child, directory, cedarVars>>

\* evaluate: the request is built after the policy set is at hand.
builtin_evaluate(doc, input) ==
    LET request == build_cedar_request(input)
    IN  IF ~request.ok THEN Refused("policy_invocation_failed")
        ELSE decide(doc.policies, request.value)

\* CedarTestDispatcher: the same, of the rules inline in the invocation.
test_evaluate(doc, input) ==
    LET request == build_cedar_request(input)
    IN  IF ~request.ok THEN Refused("policy_invocation_failed")
        ELSE test_decide(doc.policies, request.value)

CedarNext ==
    /\ phase = "cedar"
    /\ \/ \E c \in Callers :
            CedarStep(c, builtin_evaluate(world.docs[job[c].read.policy], world.input))
       \/ \E f \in Files : Edit(f)
    /\ UNCHANGED <<sourceVars, opaVars>>
OpaCaller == phase = "opa" /\ CallerStep /\ UNCHANGED <<sourceVars, cedarVars>>
OpaChild == phase = "opa" /\ ChildStep /\ UNCHANGED <<sourceVars, cedarVars>>

Next == Load \/ CedarNext \/ OpaCaller \/ OpaChild

Spec == Init /\ [][Next]_vars
\* The caller of opa runs; nothing is promised of the child.
FairSpec == Spec /\ WF_vars(OpaCaller)

-----------------------------------------------------------------------------
\* The snapshot and the annotations, and what Cedar reads of the two.
Presented(input) ==
    [key \in DOMAIN input.snapshot \cup {"annotations"} |->
        IF key = "annotations" THEN Obj(Members(input.annotations)) ELSE input.snapshot[key]]
Read(input) == CedarReads(Obj(build_cedar_request(input).value.context))

\* What Cedar reads in the context of a request is the policy input: nothing in
\* a snapshot or an annotation becomes an entity or an extension value, a number
\* is itself or a decimal as near as two roundings to a float allow, and nothing
\* but a null is missing (cedar.rs, build_cedar_context and float_to_decimal).
ContextIsFaithful ==
    build_cedar_request(world.input).ok => Means(Obj(Presented(world.input)), Read(world.input))

\* An evaluation decides with every number of its snapshot that is no integer
\* rounded to the nearest decimal, ties to even (SPECIFICATION.md, 12.4; cedar.rs,
\* the comment on float_to_decimal).
DecimalIsNearest ==
    \A a \in answers :
        a.op = "evals" /\ a.verdict.decision # "error" =>
            \A key \in {k \in DOMAIN world.input.snapshot : world.input.snapshot[k].t = "float"} :
                Nearest(world.input.snapshot[key].halves, Read(world.input).members[key].units)

\* The built-in dispatcher and the test double both answer as the policies that
\* apply demand: an error fails closed, a forbid denies, and of the permits the
\* most restrictive advice decides, the first declared among equals (cedar.rs,
\* evaluate and CedarTestDispatcher::evaluate_cedar).
CedarVerdictIsSound ==
    \A a \in answers :
        a.op = "evals" /\ a.read.entities # 0 =>
            LET doc == world.docs[a.read.policy]
                request == build_cedar_request(world.input)
                plain == \A i \in DOMAIN doc.policies : doc.policies[i].when = "holds"
            IN  IF ~request.ok THEN a.verdict.decision = "error"
                ELSE /\ SoundVerdict(doc.policies, request.value, a.verdict)
                     /\ plain => SoundVerdict(doc.policies, request.value,
                                              test_evaluate(doc, world.input))
=============================================================================
