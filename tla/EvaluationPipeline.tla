------------------------- MODULE EvaluationPipeline -------------------------
(***************************************************************************)
(* engine/src/runtime.rs: the evaluation of one intervention point, with   *)
(* the part of manifest.rs that decides in which order its annotators run. *)
(* The point is validated and its annotators are ordered once; an          *)
(* evaluation then runs them in that order, each on a policy input that    *)
(* carries the results it declared a need for, and hands the whole to the  *)
(* policy.  Any failure on the way is a deny.                              *)
(*                                                                         *)
(* A JSON value is its nesting depth; an annotator's result is also the    *)
(* annotator that gave it.  Dispatchers are the host's: they may answer    *)
(* anything, fail with any error, or panic.  A runtime does not change     *)
(* between evaluations and an evaluation keeps its state to itself, so one *)
(* stands for all.                                                         *)
(***************************************************************************)
EXTENDS Integers, FiniteSets, SequencesExt, PolicyOutput

CONSTANTS
  Names,              \* annotator names, as a sequence in lexicographic order
  MaxNeeds,           \* bound: names in one list of needs
  MaxDepth,           \* Limits::max_policy_input_depth
  AnnotatorLimits,    \* values a host gives max_annotators_per_point
  PolicyOutputs       \* outputs a policy may give

Annotators == ToSet(Names)
NeedLists == UNION {[1 .. n -> Annotators] : n \in 0 .. MaxNeeds}
Froms == Annotators \cup {"snapshot", "annotations"}
Depths == 0 .. MaxDepth + 1

ASSUME NamesAssumption ==
  /\ Names \in Seq(STRING)
  /\ \A i, j \in 1 .. Len(Names) : Names[i] = Names[j] => i = j
  /\ "snapshot" \notin Annotators /\ "annotations" \notin Annotators

ASSUME BoundsAssumption ==
  /\ MaxNeeds \in Nat /\ MaxDepth \in Nat
  /\ AnnotatorLimits \subseteq Nat /\ PolicyOutputs \subseteq Outputs

VARIABLES
  chaining,      \* the manifest's version gives needs a meaning
  declared,      \* annotators the point opts into
  limit,         \* max_annotators_per_point
  needs,         \* needs[a]: annotation_dependencies of the binding
  from,          \* from[a]: the annotation the binding's path reads, if any
  phase,         \* where the point, or its evaluation, is
  unread,        \* bindings not validated yet
  remaining,     \* annotation_dispatch_order: needs not met yet
  ready,         \* annotation_dispatch_order: the ready queue
  order,         \* the plan
  base,          \* depth of the policy input without annotations
  annotations,   \* annotations_map: result of each annotator that has run
  staged,        \* annotations of staged_policy_input; NoStage if there is none
  seen,          \* history: the annotations each dispatched annotator was shown
  given,         \* history: the depth of the deepest input handed to a dispatcher
  output,        \* history: what the policy answered, "none" before
  verdict,       \* EvaluationResult::verdict
  policy_input,  \* EvaluationResult::policy_input
  reports        \* failure events emitted, by kind

plan == <<chaining, declared, limit, needs, from, unread, remaining, ready, order>>
pipelineVars == <<plan, phase, base, annotations, staged, seen, given, output, verdict,
          policy_input, reports>>

NoStage == [stage |-> "none"]
NoVerdict == [decision |-> "none"]
NoOutput == [decision |-> "none"]
empty == [a \in {} |-> 0]

deepest(m) == IF DOMAIN m = {} THEN 0 ELSE Max({m[a] : a \in DOMAIN m})

\* Depth of a policy input whose annotations are m.
depth_with(m) == Max({base, 2 + deepest(m)})

PipelineInit ==
  /\ chaining \in BOOLEAN
  /\ declared \in SUBSET Annotators
  /\ limit \in AnnotatorLimits
  /\ needs = [a \in Annotators |-> <<>>]
  /\ from = [a \in Annotators |-> "snapshot"]
  /\ phase = "reading"
  /\ unread = declared
  /\ remaining = [a \in Annotators |-> 0]
  /\ ready = {} /\ order = <<>>
  /\ base = 0 /\ annotations = empty /\ staged = NoStage /\ seen = empty /\ given = 0
  /\ output = NoOutput /\ verdict = NoVerdict /\ policy_input = "none" /\ reports = {}

evaluation == <<base, annotations, staged, seen, given, output, verdict, policy_input,
                reports>>

-----------------------------------------------------------------------------
(* Validation and order                                                    *)

\* BTreeMap and BTreeSet hand out the least name first.
first(S) == Names[Min({i \in 1 .. Len(Names) : Names[i] \in S})]

\* validate_point_config on one binding.
needs_valid(a, list) ==
  /\ a \notin ToSet(list)
  /\ \A i, j \in 1 .. Len(list) : list[i] = list[j] => i = j
  /\ ToSet(list) \subseteq declared

from_valid(list, path) ==
  /\ path # "annotations"
  /\ path \in Annotators => chaining /\ path \in ToSet(list)

ValidateBinding(list, path, valid) ==
  /\ phase = "reading" /\ unread # {}
  /\ LET a == first(unread) IN
     /\ IF valid /\ (chaining => needs_valid(a, list)) /\ from_valid(list, path)
        THEN phase' = phase
        ELSE phase' = "rejected"
     /\ unread' = unread \ {a}
     /\ needs' = [needs EXCEPT ![a] = IF chaining THEN list ELSE <<>>]
     /\ from' = [from EXCEPT ![a] = path]
  /\ UNCHANGED <<chaining, declared, limit, remaining, ready, order, evaluation>>

StartOrder ==
  /\ phase = "reading" /\ unread = {}
  /\ phase' = "ordering"
  /\ remaining' = [a \in Annotators |-> Len(needs[a])]
  /\ ready' = {a \in declared : needs[a] = <<>>}
  /\ UNCHANGED <<chaining, declared, limit, needs, from, unread, order, evaluation>>

dependents(a) == {b \in declared : Contains(needs[b], a)}

\* Mutant: a dependent is ready as soon as one of its needs is met.
PopReadyEarly ==
  /\ phase = "ordering" /\ ready # {}
  /\ LET a == first(ready) IN
     /\ order' = Append(order, a)
     /\ remaining' = [b \in Annotators |->
                        remaining[b] - (IF b \in dependents(a) THEN 1 ELSE 0)]
     /\ ready' = (ready \ {a}) \cup dependents(a)
  /\ UNCHANGED <<chaining, declared, limit, needs, from, phase, unread, evaluation>>

PopReady ==
  /\ phase = "ordering" /\ ready # {}
  /\ LET a == first(ready) IN
     /\ order' = Append(order, a)
     /\ remaining' = [b \in Annotators |->
                        remaining[b] - (IF b \in dependents(a) THEN 1 ELSE 0)]
     /\ ready' = (ready \ {a}) \cup {b \in dependents(a) : remaining'[b] = 0}
  /\ UNCHANGED <<chaining, declared, limit, needs, from, phase, unread, evaluation>>

EndOrder ==
  /\ phase = "ordering" /\ ready = {}
  /\ phase' = IF Len(order) = Cardinality(declared) THEN "planned" ELSE "cyclic"
  /\ UNCHANGED <<plan, evaluation>>

-----------------------------------------------------------------------------
(* Evaluation                                                              *)

denies(error, input) ==
  /\ phase' = "done"
  /\ verdict' = runtime_error_verdict(error)
  /\ policy_input' = input

\* evaluate, evaluate_point and evaluate_inner up to the annotations: snapshot
\* limits, policy target, tool, and the preliminary policy input.  failure is
\* what resolving the point, the target or the tool ends with; too deep stands for
\* too large as well.
Evaluate(failure, snapshot, target, tool) ==
  /\ phase = "planned"
  /\ base' = 1 + Max({snapshot, 1 + target, tool, 1})
  /\ IF failure = "intervention_point_unknown" THEN denies(failure, "none")
     ELSE IF snapshot > MaxDepth THEN denies("resource_limit_exceeded", "none")
     ELSE IF failure # "none" THEN denies(failure, "none")
     ELSE IF base' > MaxDepth THEN denies("resource_limit_exceeded", "none")
     ELSE IF Cardinality(declared) > limit
     THEN denies("resource_limit_exceeded", "preliminary")
     ELSE /\ phase' = "annotating"
          /\ UNCHANGED <<verdict, policy_input>>
  /\ UNCHANGED <<plan, annotations, staged, seen, given, output, reports>>

\* The annotations an annotator is to be shown.
visible_to(a) == [b \in ToSet(needs[a]) |-> annotations[b]]

\* Mutant: the needs are added to the copy that is reused, not put in its place.
dispatch_annotations_kept(a) ==
  IF needs[a] = <<>> THEN empty
  ELSE IF staged = NoStage THEN visible_to(a)
  ELSE [b \in DOMAIN visible_to(a) \cup DOMAIN staged |-> annotations[b]]

\* dispatch_input: without needs, the preliminary input, whose annotations are empty.
dispatch_annotations(a) == IF needs[a] = <<>> THEN empty ELSE visible_to(a)

normalize_annotator_error(error) ==
  IF error = "annotation_timeout" THEN error ELSE "annotation_failed"

\* What stops the loop before the annotator is called.
stage_error(a) ==
  IF needs[a] = <<>> THEN "none"
  ELSE IF ~(ToSet(needs[a]) \subseteq DOMAIN annotations) THEN "manifest_invalid"
  ELSE IF 2 + deepest(visible_to(a)) > MaxDepth THEN "resource_limit_exceeded"
  ELSE "none"

\* One turn of the loop of collect_annotations.  resolves: the binding's path
\* resolves; answer: "ok", "panic" or the error returned; depth and accepted:
\* depth of the result, and whether its size and its reasons are allowed.
RunAnnotator(resolves, answer, depth, accepted) ==
  /\ phase = "annotating"
  /\ Len(order) > Cardinality(DOMAIN annotations)
  /\ LET a == order[Cardinality(DOMAIN annotations) + 1]
         stops == stage_error(a)
         shown == dispatch_annotations(a)
         error == IF ~resolves THEN "path_missing"
                  ELSE IF answer # "ok" THEN normalize_annotator_error(answer)
                  ELSE IF depth > MaxDepth \/ ~accepted THEN "annotation_failed"
                  ELSE "none"
     IN IF stops # "none"
        THEN /\ denies(stops, "preliminary")
             /\ reports' = reports \cup {"annotator_failed"}
             /\ UNCHANGED <<annotations, staged, seen, given>>
        ELSE /\ staged' = IF needs[a] = <<>> THEN staged ELSE shown
             /\ IF resolves
                THEN /\ seen' = [b \in DOMAIN seen \cup {a} |->
                                   IF b = a THEN shown ELSE seen[b]]
                     /\ given' = Max({given, depth_with(shown)})
                ELSE UNCHANGED <<seen, given>>
             /\ IF error # "none"
                THEN /\ denies(error, "preliminary")
                     /\ reports' = reports \cup {"annotator_failed"}
                     /\ UNCHANGED annotations
                ELSE /\ annotations' = [b \in DOMAIN annotations \cup {a} |->
                                          IF b = a THEN depth ELSE annotations[b]]
                     /\ UNCHANGED <<phase, verdict, policy_input, reports>>
  /\ UNCHANGED <<plan, base, output>>

BuildPolicyInput ==
  /\ phase = "annotating"
  /\ Len(order) = Cardinality(DOMAIN annotations)
  /\ IF depth_with(annotations) > MaxDepth
     THEN denies("resource_limit_exceeded", "none")
     ELSE phase' = "deciding" /\ UNCHANGED <<verdict, policy_input>>
  /\ UNCHANGED <<plan, base, annotations, staged, seen, given, output, reports>>

\* Mutant: what the dispatcher returned is used although it failed or panicked.
policy_error_ignored(prepare, answer, within, o) ==
  IF prepare # "none" THEN prepare
  ELSE IF ~within THEN "resource_limit_exceeded"
  ELSE refusal(o)

\* prepare: what prepare_policy_invocation ends with; answer: "ok", "error" or
\* "panic"; within: the output keeps to the limits on its size and depth.
policy_error(prepare, answer, within, o) ==
  IF prepare # "none" THEN prepare
  ELSE IF answer # "ok" THEN "policy_invocation_failed"
  ELSE IF ~within THEN "resource_limit_exceeded"
  ELSE refusal(o)

\* From prepare_policy_invocation to the verdict.
RunPolicy(prepare, answer, within, o) ==
  /\ phase = "deciding"
  /\ IF prepare = "none"
     THEN /\ given' = Max({given, depth_with(annotations)})
          /\ output' = IF answer = "ok" THEN o ELSE NoOutput
     ELSE UNCHANGED <<given, output>>
  /\ LET error == policy_error(prepare, answer, within, o) IN
     IF error # "none"
     THEN /\ denies(error, "final")
          /\ reports' = reports \cup {"policy_failed"}
     ELSE /\ phase' = "done"
          /\ verdict' = verdict_of(o)
          /\ policy_input' = "final"
          /\ UNCHANGED reports
  /\ UNCHANGED <<plan, base, annotations, staged, seen>>

-----------------------------------------------------------------------------
PipelineStep ==
  \/ \E list \in NeedLists, path \in Froms, valid \in BOOLEAN :
       ValidateBinding(list, path, valid)
  \/ StartOrder
  \/ PopReady
  \/ EndOrder
  \/ \E failure \in {"none", "intervention_point_unknown", "path_missing", "tool_unknown"},
        snapshot, target, tool \in Depths :
       target <= snapshot /\ Evaluate(failure, snapshot, target, tool)
  \/ \E resolves, accepted \in BOOLEAN, depth \in Depths,
        answer \in {"ok", "panic", "annotation_timeout", "policy_invocation_failed"} :
       RunAnnotator(resolves, answer, depth, accepted)
  \/ BuildPolicyInput
  \/ /\ phase = "deciding"
     /\ \E prepare \in {"none", "policy_invocation_failed", "manifest_invalid"},
           within \in BOOLEAN, answer \in {"ok", "error", "panic"}, o \in PolicyOutputs :
          RunPolicy(prepare, answer, within, o)

PipelineSpec == PipelineInit /\ [][PipelineStep]_pipelineVars
-----------------------------------------------------------------------------
(* Properties                                                              *)

Evaluating == {"planned", "annotating", "deciding", "done"}

IsOrder(p) == \A i \in DOMAIN p : \A b \in ToSet(needs[p[i]]) :
  \E j \in 1 .. i - 1 : p[j] = b

Rank(a) == CHOOSE i \in 1 .. Len(Names) : Names[i] = a

Precedes(p, q) == \E i \in DOMAIN p :
  Rank(p[i]) < Rank(q[i]) /\ \A j \in 1 .. i - 1 : p[j] = q[j]

(* annotation_dispatch_order gives every annotator of the point once, after *)
(* all it needs, and among such orders the least: the plan, and with it    *)
(* the calls a host sees, depends on nothing but the manifest.  A point is *)
(* refused for its needs only if no order satisfies them.                  *)
PlanIsLeastOrder ==
  /\ phase \in Evaluating =>
       /\ ToSet(order) = declared /\ IsOrder(order)
       /\ \A p \in SetToSeqs(declared) : IsOrder(p) => order = p \/ Precedes(order, p)
  /\ phase = "cyclic" => \A p \in SetToSeqs(declared) : ~IsOrder(p)

(* "Each callback sees only its declared dependencies": although one copy  *)
(* of the policy input is reused for all annotators, each is shown the     *)
(* results of exactly the annotators it needs, as they were given in this  *)
(* evaluation, and its own path reads one of those or none.                *)
SeesOnlyDeclared ==
  \A a \in DOMAIN seen :
    /\ seen[a] = [b \in ToSet(needs[a]) |-> annotations[b]]
    /\ from[a] \in Annotators => from[a] \in DOMAIN seen[a]

(* Anything but a deny needs every annotator of the point to have          *)
(* succeeded and an answer of the policy to the final input that says so.  *)
DecisionIsEarned ==
  phase = "done" /\ verdict.decision # "deny" =>
    /\ DOMAIN annotations = declared /\ reports = {} /\ policy_input = "final"
    /\ verdict.decision = "allow" => output.decision \in {"allow", "warn"}
    /\ verdict.decision = "transform" =>
         output.decision = "transform" /\ output.transform = "target"

(* A verdict keeps to what agent-hooks requires of its shape, whatever the *)
(* policy returned: an approval only beside a deny, a transform exactly    *)
(* with its decision, no reason from the engine's own namespace; and the   *)
(* warning that evidence was cut is there exactly if it was.               *)
VerdictIsValid ==
  phase = "done" =>
    /\ verdict.decision \in {"allow", "deny", "transform"}
    /\ verdict.approval => verdict.decision = "deny"
    /\ verdict.transform <=> verdict.decision = "transform"
    /\ verdict.reason \notin {"reserved", "not_string"}
    /\ verdict.evidence \in {"none", "small", "cut"}
    /\ verdict.marked <=> verdict.evidence = "cut"

(* "Evaluation failures surface as fail-closed deny verdicts": a decision  *)
(* is earned and well-formed, and no dispatcher is handed an input nested  *)
(* deeper than the limit, although that is checked piecewise: the members  *)
(* of the preliminary input, each result alone, the results shown, and all *)
(* of them together.                                                       *)
FailClosed == DecisionIsEarned /\ VerdictIsValid /\ given <= MaxDepth
=============================================================================
