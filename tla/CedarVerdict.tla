---------------------------- MODULE CedarVerdict ----------------------------
(***************************************************************************
 How the Cedar dispatchers (engine/src/cedar.rs) turn the policies that
 apply to a request into a verdict: the built-in one over Cedar's own
 authorizer, and the test double that hosts use in its place.

 A policy set is the sequence of its policies as declared.  A policy has a
 scope, a condition that holds, does not, or fails to evaluate, and the
 annotations the dispatchers read.  A test rule has no condition.
 ***************************************************************************)
EXTENDS Integers, Sequences, SequencesExt

\* What translate_advice tells apart; a text that is not JSON is one of them.
Advices ==
    [shape: {"not_json", "not_object", "object"}, unknown_member: BOOLEAN,
     verdict: {"absent", "allow", "warn", "transform", "escalate"},
     reason: {"absent", "null", "string", "other"},
     message: {"absent", "null", "string", "other"},
     transform: {"absent", "not_object", "unknown_member", "object"}]
NoAdvice == [shape |-> "none"]

advice_refused(advice) ==
    \/ advice.shape # "object" \/ advice.unknown_member
    \/ advice.verdict \notin {"warn", "transform", "escalate"}
    \/ advice.reason = "other" \/ advice.message = "other"
    \/ IF advice.verdict = "transform" THEN advice.transform # "object"
       ELSE advice.transform # "absent"

\* by is the place of the policy whose annotation it is.
translate_advice(advice, by) ==
    [decision |-> advice.verdict, reason |-> advice.reason = "string",
     message |-> advice.message = "string", transform |-> advice.transform, by |-> by]

advice_rank(verdict) ==
    CASE verdict.decision = "escalate" -> 0
      [] verdict.decision = "transform" -> 1
      [] OTHER -> 2

\* Mutant: the advice of the first permit that has one.
first_advice(verdicts) == verdicts[1]

\* Iterator::min_by_key: the first of the most restrictive ones.
most_restrictive_advice(verdicts) ==
    verdicts[CHOOSE i \in DOMAIN verdicts :
        /\ \A j \in DOMAIN verdicts : advice_rank(verdicts[i]) <= advice_rank(verdicts[j])
        /\ \A j \in 1..(i - 1) : advice_rank(verdicts[j]) > advice_rank(verdicts[i])]

Allow == [decision |-> "allow"]
Deny(reason) == [decision |-> "deny", reason |-> reason]
Refused(error) == [decision |-> "error", reason |-> <<error>>]

\* The permits at these places allow: their advice decides how.
permit_verdict(policies, permits) ==
    LET advised == SelectSeq(permits, LAMBDA i : policies[i].advice # NoAdvice)
        verdicts == [n \in DOMAIN advised |->
                        translate_advice(policies[advised[n]].advice, advised[n])]
    IN  IF \E n \in DOMAIN advised : advice_refused(policies[advised[n]].advice)
        THEN Refused("policy_output_invalid")
        ELSE IF verdicts = <<>> THEN Allow ELSE most_restrictive_advice(verdicts)

-----------------------------------------------------------------------------
entity_matches(pattern, actual) == pattern = <<"any">> \/ pattern = actual
matches(policy, request) ==
    /\ entity_matches(policy.principal, request.principal)
    /\ entity_matches(policy.action, request.action)
    /\ entity_matches(policy.resource, request.resource)

\* Cedar's authorizer, external: errors are reported beside a decision that
\* leaves the failed policies out; a forbid that applies overrides all permits.
Applying(policies, request, effect) ==
    {i \in DOMAIN policies : /\ matches(policies[i], request) /\ policies[i].when = "holds"
                             /\ policies[i].effect = effect}
Failing(policies, request) ==
    {i \in DOMAIN policies : matches(policies[i], request) /\ policies[i].when = "fails"}
is_authorized(policies, request) ==
    LET forbids == Applying(policies, request, "forbid")
        permits == Applying(policies, request, "permit")
    IN  [errors |-> Failing(policies, request),
         decision |-> IF forbids = {} /\ permits # {} THEN "Allow" ELSE "Deny",
         reason |-> IF forbids # {} THEN forbids ELSE permits]

\* The response lists policies in no order; their generated names restore it.
contributing_policies(answer) == SetToSortSeq(answer.reason, LAMBDA i, j : i < j)

\* A blank @id is no reason: Cedar's own name of the policy is.
deny_reason(policy, i) ==
    IF policy.id \in {"absent", "blank"} THEN <<"policy", i>> ELSE <<"id", policy.id>>

decide(policies, request) ==
    LET answer == is_authorized(policies, request)
        contributing == contributing_policies(answer)
    IN  IF answer.errors # {} THEN Refused("policy_invocation_failed")
        ELSE IF answer.decision = "Allow" THEN permit_verdict(policies, contributing)
        ELSE IF contributing = <<>> THEN Deny(<<"no_matching_policy">>)
        ELSE Deny(deny_reason(policies[contributing[1]], contributing[1]))

-----------------------------------------------------------------------------
\* TestPolicySet::decide scans the rules in order and stops at a forbid.
test_decide(rules, request) ==
    LET matching == SelectSeq([i \in DOMAIN rules |-> i], LAMBDA i : matches(rules[i], request))
        forbids == {n \in DOMAIN matching : rules[matching[n]].effect = "forbid"}
    IN  IF forbids # {}
        THEN LET first == matching[CHOOSE n \in forbids : \A m \in forbids : n <= m]
             IN  Deny(IF rules[first].id = "absent" THEN <<"forbid_rule_matched">>
                      ELSE <<"id", rules[first].id>>)
        ELSE IF matching = <<>> THEN Deny(<<"no_matching_policy">>)
        ELSE permit_verdict(rules, matching)

-----------------------------------------------------------------------------
\* Every member of an advice that is heeded is one the advice schema knows.
Lawful(advice) ==
    /\ advice.shape = "object" /\ ~advice.unknown_member
    /\ advice.verdict \in {"warn", "transform", "escalate"}
    /\ advice.reason # "other" /\ advice.message # "other"
    /\ advice.transform = IF advice.verdict = "transform" THEN "object" ELSE "absent"

Severity == [allow |-> 0, warn |-> 1, transform |-> 2, escalate |-> 3, deny |-> 4, error |-> 5]

\* What section 12.4 asks of the verdict, policy by policy: what each policy that
\* applies says bounds it from below, and the first to say it accounts for it.
Contribution(policy) ==
    IF policy.advice = NoAdvice THEN "allow"
    ELSE IF Lawful(policy.advice) THEN policy.advice.verdict ELSE "error"

SoundVerdict(policies, request, verdict) ==
    LET applies == {i \in DOMAIN policies :
                        matches(policies[i], request) /\ policies[i].when # "unmet"}
        forbids == {i \in applies : policies[i].effect = "forbid"}
        says(i) == Contribution(policies[i])
    IN  IF \E i \in applies : policies[i].when = "fails" THEN verdict.decision = "error"
        ELSE IF applies = {} \/ forbids # {} THEN verdict.decision = "deny"
        ELSE /\ \A i \in applies : Severity[verdict.decision] >= Severity[says(i)]
             /\ \E i \in applies : verdict.decision = says(i)
             /\ "by" \in DOMAIN verdict =>
                  \A i \in applies : says(i) = verdict.decision => verdict.by <= i
=============================================================================
