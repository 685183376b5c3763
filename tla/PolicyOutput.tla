---------------------------- MODULE PolicyOutput ----------------------------
(***************************************************************************)
(* engine/src/policy_output.rs: a policy's raw output becomes a verdict of *)
(* agent-hooks or is refused.  An output is the tuple of features that     *)
(* normalize_policy_output tells apart.                                    *)
(***************************************************************************)

Outputs ==
  [decision: {"not_object", "absent", "allow", "deny", "transform", "warn", "escalate",
              "unsupported"},
   members: {"known", "effects", "unknown"},
   reason: {"none", "plain", "reserved", "truncated", "not_string"},
   message_ok: BOOLEAN,
   warnings: {"none", "plain", "reserved", "truncated", "malformed"},
   labels_ok: BOOLEAN,
   approval: {"none", "object", "malformed"},
   evidence: {"none", "small", "large", "malformed"},
   transform: {"none", "not_object", "unknown_member", "no_path", "old_root", "elsewhere",
               "ungrammatical", "no_value", "target"}]

\* A member that has the wrong type, is not known or uses a reserved reason.
member_invalid(o) ==
  \/ o.decision \in {"not_object", "absent"}
  \/ o.members # "known"
  \/ o.reason \in {"reserved", "not_string"}
  \/ ~o.message_ok
  \/ o.warnings \in {"reserved", "malformed"}
  \/ ~o.labels_ok
  \/ o.approval = "malformed"
  \/ o.evidence = "malformed"

\* The intents warn and escalate become an allow with a warning and a deny that
\* an approval may lift.
decision_of(o) ==
  CASE o.decision \in {"allow", "warn"} -> "allow"
    [] o.decision \in {"deny", "escalate"} -> "deny"
    [] o.decision = "transform" -> "transform"
    [] OTHER -> "unsupported"

approval_of(o) == o.approval = "object" \/ o.decision = "escalate"

\* Reasons of the verdict's warnings; the warn intent adds the verdict's own.
warnings_of(o) ==
  {o.warnings} \cup (IF o.decision = "warn" THEN {o.reason} ELSE {})

\* The warning that marks cut evidence is the engine's own.
forges_marker(o) == "truncated" \in warnings_of(o)

shape_invalid(o) ==
  \/ approval_of(o) /\ decision_of(o) # "deny"
  \/ IF o.decision = "transform" THEN o.transform = "none" ELSE o.transform # "none"

\* transform_field; the order of its checks decides which error is reported.
transform_error(o) ==
  CASE o.transform \in {"not_object", "unknown_member", "no_path", "no_value"} ->
         "policy_output_invalid"
    [] o.transform \in {"old_root", "ungrammatical"} -> "transform_invalid"
    [] o.transform = "elsewhere" -> "transform_target_forbidden"
    [] OTHER -> "none"

\* What normalize_policy_output refuses the output for.
refusal(o) ==
  IF \/ member_invalid(o)
     \/ decision_of(o) = "unsupported"
     \/ forges_marker(o)
     \/ shape_invalid(o)
  THEN "policy_output_invalid"
  ELSE transform_error(o)

\* The verdict of an output that is not refused: evidence over the cap is cut and
\* marked, and the verdict around it kept.
verdict_of(o) ==
  [decision |-> decision_of(o),
   reason |-> o.reason,
   approval |-> approval_of(o),
   transform |-> o.transform = "target",
   evidence |-> IF o.evidence = "large" THEN "cut" ELSE o.evidence,
   marked |-> o.evidence = "large" \/ "truncated" \in warnings_of(o)]

\* runtime_error_verdict.
runtime_error_verdict(error) ==
  [decision |-> "deny", reason |-> error, approval |-> FALSE, transform |-> FALSE,
   evidence |-> "none", marked |-> FALSE]
=============================================================================
