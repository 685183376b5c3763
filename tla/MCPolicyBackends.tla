-------------------------- MODULE MCPolicyBackends --------------------------
(***************************************************************************)
(* Scenarios for PolicyBackends: every manifest with one small input, every *)
(* input with one policy, every small policy set with one input, a cache   *)
(* with several threads and edits, and the ways an opa call can go.        *)
(***************************************************************************)
EXTENDS PolicyBackends

\* Of floats between half a decimal and twice the range of one.
MCExponents == -12..6

\* Manifests.
RegoAdapters ==
    {[NoAdapter EXCEPT !.data = d, !.data_paths = ds, !.bundle_url = u] :
        d \in {Absent, "rel", "malformed"}, ds \in {Absent, "rel"},
        u \in {Absent, "pinned", "malformed"}}
RegoPolicies ==
    {[NoPolicy EXCEPT !.type = "rego", !.query = q, !.bundle = b, !.adapter_config = a] :
        q \in {Absent, "rule", "expression"}, b \in {Absent, "rel"},
        a \in RegoAdapters}
CedarPolicies ==
    {[NoPolicy EXCEPT !.type = "cedar", !.policy_set = t, !.policy_path = p,
                      !.entities_path = e, !.schema_path = s, !.query = q] :
        t \in {Absent, "text", "blank"}, p \in {Absent, "rel"}, e \in {Absent, "rel"},
        s \in {Absent, "empty"}, q \in {Absent, "rule"}}
OtherPolicies ==
    {[NoPolicy EXCEPT !.type = t, !.adapter = a, !.adapter_config.data = d] :
        t \in {"test", "custom"}, a \in {"named", "blank"}, d \in {Absent, "rel"}}
Bindings ==
    {[query |-> q, adapter_config |-> [NoAdapter EXCEPT !.data = d, !.bundle_url = u]] :
        q \in {Absent, "rule", "expression"}, d \in {Absent, "rel"}, u \in {Absent, "pinned"}}

Chained == {"file", "pinned", "unpinned"}
Manifest(policy, from, binding, bound, supplied) ==
    [policy |-> policy, from |-> from, binding |-> binding, bound |-> bound, supplied |-> supplied]
Sources ==
    {Manifest(p, f, b, o, FALSE) : p \in RegoPolicies, f \in Chained, b \in Bindings, o \in Chained}
      \cup {Manifest(p, f, b, "file", FALSE) :
              p \in CedarPolicies \cup OtherPolicies, f \in Chained,
              b \in {NoBinding, [NoBinding EXCEPT !.query = "rule"]}}
      \cup {Manifest(p, "memory", b, "memory", s) :
              p \in RegoPolicies, b \in Bindings, s \in BOOLEAN}

\* Policy inputs.
Agent(id) == Obj([id |-> id])
Snapshots ==
    LET leaves == {Null, Str("x"), Whole(1), Float(1)}
        values == leaves \cup {Obj([k |-> l]) : l \in {Null, Str("x"), Float(1)}}
                    \cup {Obj([__entity |-> Str("x")]), Obj([__extn |-> Str("x")])}
                    \cup {Arr(<<l>>) : l \in {Null, Str("x"), Obj([__expr |-> Str("x")])}}
    IN  {[agent |-> Agent(Str("alice")), x |-> v] : v \in values}
          \cup {[__expr |-> Str("x"), agent |-> Agent(Str("alice"))],
                [annotations |-> Obj(NoMembers), agent |-> Agent(Str("alice"))]}
          \cup {[agent |-> a, envelope |-> e] :
                  a \in {Null, Str("alice"), Agent(Whole(1)), Agent(Str("alice"))},
                  e \in {Null, Obj([agent |-> Agent(Str("bob"))])}}
Annotations == {Null, Str("x"), Obj([a |-> Float(-1)]), Obj([__entity |-> Str("x")]),
                Obj([a |-> Obj([__extn |-> Str("x")])])}
Input(snapshot, annotations, tool) ==
    [snapshot |-> snapshot, annotations |-> annotations, point |-> "pre_tool_call",
     tool |-> tool, kind |-> "unspecified"]
PlainInput == Input([agent |-> Agent(Str("alice"))], Null, "shell")
Number(value) == Input([agent |-> Agent(Str("alice")), x |-> value], Null, "none")
Inputs ==
    {Input(s, a, t) : s \in Snapshots, a \in Annotations, t \in {"shell", "none"}}
      \cup {Number(Whole(n)) : n \in -(LongMax + 2)..(LongMax + 1)}
      \cup {Number(Float(h)) : h \in -(2 * LongMax + 3)..(2 * LongMax + 3)}

\* Policy sets.
Anyone == <<"any">>
Policy(effect, principal, when, id, advice) ==
    [effect |-> effect, principal |-> principal, action |-> Anyone, resource |-> Anyone,
     when |-> when, id |-> id, advice |-> advice]
Advise(verdict) ==
    [shape |-> "object", unknown_member |-> FALSE, verdict |-> verdict, reason |-> "string",
     message |-> "absent", transform |-> IF verdict = "transform" THEN "object" ELSE "absent"]
Advised ==
    {Policy("permit", Anyone, "holds", "absent", Advise(v)) : v \in {"warn", "transform", "escalate"}}
Policies ==
    Advised
      \cup {Policy("permit", Anyone, "holds", "absent", a) : a \in {NoAdvice, Advise("allow")}}
      \cup {Policy("permit", Anyone, w, "absent", Advise("escalate")) : w \in {"unmet", "fails"}}
      \cup {Policy("permit", <<"Agent", "bob">>, "fails", "absent", NoAdvice),
            Policy("forbid", <<"Agent", "alice">>, "holds", "blank", NoAdvice),
            Policy("forbid", Anyone, "holds", "named", NoAdvice),
            Policy("forbid", Anyone, "fails", "absent", NoAdvice),
            Policy("forbid", Anyone, "unmet", "absent", NoAdvice)}
Doc(policies) == [loads |-> TRUE, policies |-> policies]
Broken == [loads |-> FALSE, policies |-> <<>>]
PolicySets ==
    UNION {[1..n -> Policies] : n \in 0..2}
      \cup {<<p, q, r>> : p \in Policies, q \in Advised, r \in Advised}
      \cup {<<Policy("permit", Anyone, "holds", "absent", a)>> :
              a \in {b \in Advices : b.message # "null"}}
Permit == Doc(<<Policy("permit", Anyone, "holds", "absent", NoAdvice)>>)

World(docs, entities, input, evals, activations, edits) ==
    [docs |-> docs, entities |-> entities, input |-> input, evals |-> evals,
     activations |-> activations, edits |-> edits]
Calm == World(<<Permit>>, <<"good">>, PlainInput, 0, 0, 0)

RegoPolicy(url) == [NoPolicy EXCEPT !.type = "rego", !.query = "rule", !.adapter_config.bundle_url = url]
CedarPolicy == [NoPolicy EXCEPT !.type = "cedar", !.policy_path = "abs"]
Local(policy) == Manifest(policy, "file", NoBinding, "file", FALSE)
Scenario(manifest, kind, w, large) ==
    [source |-> manifest, dispatcher |-> kind, world |-> w, large |-> large]

MCCacheScenarios ==
    {Scenario(Local(CedarPolicy), "cedar",
                     World(<<Permit, d>>, <<"good", e>>, PlainInput, 1, 1, 2), FALSE) :
              d \in {Permit, Broken}, e \in {"good", "broken"}}
      \cup {Scenario(Local(CedarPolicy), "cedar",
                     World(<<Permit, Permit>>, <<"good">>, PlainInput, n, 3 - n, 1), FALSE) :
              n \in 1..2}

\* Numbers small enough for their float to tell any two decimals apart.
MCNumberScenarios ==
    LET most == 2^Precision \div 3
    IN  {Scenario(Local(CedarPolicy), "cedar", World(<<Permit>>, <<"good">>, Number(Float(h)), 1, 0, 0), FALSE) :
            h \in -most..most}

MCScenarios ==
    {Scenario(s, "binding", Calm, FALSE) : s \in Sources}
      \cup {Scenario(Local(p), d, Calm, FALSE) :
              p \in {RegoPolicy(Absent), CedarPolicy, NoPolicy}, d \in {"default", "cedar", "opa"}}
      \cup {Scenario(Local(CedarPolicy), "cedar", World(<<Permit>>, <<"good">>, i, 1, 0, 0), FALSE) :
              i \in Inputs}
      \cup {Scenario(Local(CedarPolicy), "cedar", World(<<Doc(p)>>, <<"good">>, PlainInput, 1, 0, 0), FALSE) :
              p \in PolicySets}
      \cup MCCacheScenarios
      \cup {Scenario(Local(RegoPolicy(u)), "opa", Calm, l) : u \in {Absent, "pinned"}, l \in BOOLEAN}
=============================================================================
