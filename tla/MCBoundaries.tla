---------------------------- MODULE MCBoundaries ----------------------------
(***************************************************************************)
(* Two threads on a session with one task; documents, caps and callback    *)
(* values that differ in everything a binding looks at.                    *)
(***************************************************************************)
EXTENDS Boundaries

CONSTANT t1

\* Session calls.
V(d) == [decision |-> d, reason |-> "policy", warning |-> "plain", approval |-> FALSE, transform |-> "none"]
Call(op, bad, start, end, outcome) ==
    [op |-> op, bad |-> bad, track |-> "response", runes |-> 1, task |-> t1,
     span |-> [start |-> start, end |-> end], outcome |-> outcome,
     verdict |-> V(IF outcome = "denied" THEN "deny" ELSE "allow")]
MCCalls ==
    {Call(op, "none", 0, 1, "cleared") :
        op \in {"observe", "advance", "safe_offset", "pending", "watermark", "state",
                "end_of_payloads", "finish"}}
      \cup {Call("record_outcome", "none", s, e, "cleared") : s \in {0, 1}, e \in {1, 2}}
      \cup {Call("record_verdict", "none", 0, 1, o) : o \in {"cleared", "denied"}}
      \cup {Call("observe_text", "text", 0, 1, "cleared")}
MCConfigs ==
    {[safety_level |-> "blocking", start |-> [t \in Sides |-> 0],
      tasks |-> [t \in Sides |-> IF t = "request" THEN {} ELSE {t1}]]}
MCHostVerdicts == {V("allow"), V("deny")}

\* Questions.
Doc(n, g, r) ==
    [text |-> "text", size |-> n, grammar |-> g, chain |-> 0, refs |-> r, composed |-> 1, merged |-> r,
     exists |-> TRUE, located |-> TRUE, loads |-> TRUE, engine |-> "rego"]
Plain == Doc(1, TRUE, TRUE)
Texts ==
    {[Doc(n, g, r) EXCEPT !.chain = c] : n \in 1..3, g \in BOOLEAN, r \in BOOLEAN, c \in 0..1}
      \cup {[Plain EXCEPT !.text = "undecodable"]}
\* A file that extends nothing is sound if it is whole.
Files ==
    {f \in {[d EXCEPT !.composed = n, !.merged = m] : d \in Texts, n \in {1, 3, 5}, m \in BOOLEAN} :
        f.chain = 0 => f.merged = f.refs}
      \cup {[Plain EXCEPT !.exists = FALSE], [Plain EXCEPT !.loads = FALSE]}
Artifacts ==
    {[d EXCEPT !.located = l, !.loads = o, !.engine = e] :
        d \in Texts, l \in BOOLEAN, o \in BOOLEAN, e \in {"rego", "cedar"}}
NoFields == [f \in {} |-> NullField]
Caps(form, fields) == [form |-> form, fields |-> fields]
Asked ==
    {Caps(f, NoFields) : f \in {"absent", "blank", "garbled"}}
      \cup {Caps("object", [max_merged_manifest_bytes |-> v]) :
              v \in {Number(1), Number(4), NullField, OtherField}}
      \cup {Caps("object", [max_extends_depth |-> Number(0)]),
            Caps("object", [max_extends_depth |-> Number(1)]),
            Caps("object", [max_manifest_size |-> Number(1)]),
            Caps("object", [max_snapshot_bytes |-> Number(0), max_annotators_per_point |-> OtherField])}
Field(kind, names) == [kind |-> kind, names |-> names]
SessionConfigs ==
    {[form |-> f, level |-> l, start |-> [request |-> a, response |-> NullField],
      tasks |-> [request |-> b, response |-> c]] :
        f \in {"object", "garbled"}, l \in {"absent", "other", "deferred", "unknown"},
        a \in {NullField, OtherField, Number(1), Number(MaxOffset + 1), Number(U32Max + 1)},
        b \in {Field("null", {}), Field("names", {t1})}, c \in {Field("names", {}), Field("other", {})}}
    \cup {[form |-> "object", level |-> "complete", start |-> [t \in Sides |-> Number(1)],
           tasks |-> [t \in Sides |-> Field("names", {t1})]]}
Object(t, n) == [t |-> t, n |-> n, keys |-> <<>>, items |-> <<>>]
Scalars == {Null, Object("bool", 1), Object("string", 0), Object("float", 1)}
             \cup {Object("int", n) : n \in -(I64Max + 1)..U64Max}
JsonValues ==
    Scalars \cup {[Object("array", 0) EXCEPT !.items = <<a, b>>] : a, b \in Scalars}
            \cup {[Object("object", 0) EXCEPT !.keys = <<"string">>, !.items = <<a>>] : a \in Scalars}
PyOnly == {Object("nan", 0), Object("surrogate", 0), Object("tuple", 0), Object("int", U64Max + 1),
           Object("int", -(I64Max + 2))}
PyValues ==
    PyOnly \cup {[Object("list", 0) EXCEPT !.items = <<a>>] : a \in PyOnly}
           \cup {[Object("dict", 0) EXCEPT !.keys = <<k>>, !.items = <<Object("bool", 1)>>] :
                   k \in {"number", "surrogate"}}
Composition(sound, bytes) == [sound |-> sound, bytes |-> bytes]
Entries == {Doc(n, g, r) : n \in {1, 3}, g \in BOOLEAN, r \in BOOLEAN} \cup {[Plain EXCEPT !.chain = 1]}
\* A document alone is sound if it is whole.
Merges ==
    {<<<<>>, Composition(FALSE, 0)>>}
      \cup {<<<<d>>, Composition(d.refs, n)>> : d \in Entries, n \in {1, 3, 5}}
      \cup {<<<<d, e>>, Composition(s, n)>> : d \in Entries, e \in Entries, s \in BOOLEAN, n \in {1, 3, 5}}
Hosts == [returns : {"json", "garbled", "undecodable", "nothing"}, error : BOOLEAN, frees : BOOLEAN]
Host == [returns |-> "json", error |-> FALSE, frees |-> TRUE]

Q(op) ==
    [op |-> op, doc |-> Plain, docs |-> <<>>, composition |-> Composition(TRUE, 1),
     limits |-> Caps("absent", NoFields), bundles |-> "object",
     context |-> "object", point |-> "known", config |-> CHOOSE c \in SessionConfigs : TRUE,
     host |-> Host, json |-> Null, value |-> json_to_py(Null)]
MCQuestions ==
    {[Q(op) EXCEPT !.doc = d, !.limits = a] :
        op \in {"validate", "parse", "diagnostics", "activate_memory"}, d \in Texts, a \in Asked}
      \cup {[Q(op) EXCEPT !.doc = d, !.limits = a] :
              op \in {"validate_file", "new", "new_hooks", "activate"}, d \in Files, a \in Asked}
      \cup {[Q(op) EXCEPT !.doc = d, !.bundles = b] :
              op \in {"artifacts", "activate_memory"}, d \in Artifacts,
              b \in {"object", "blank", "garbled", "absent"}}
      \cup {[Q("merge") EXCEPT !.docs = m[1], !.composition = m[2], !.limits = a] : m \in Merges, a \in Asked}
      \cup {[Q(op) EXCEPT !.context = c, !.point = p] :
              op \in {"intercept", "evaluate"}, c \in {"object", "other", "garbled", "undecodable"},
              p \in {"known", "unknown"}}
      \cup {[Q("open") EXCEPT !.config = c] : c \in SessionConfigs}
      \cup {[Q("callback") EXCEPT !.json = j, !.value = json_to_py(j), !.host = h] :
              j \in JsonValues, h \in Hosts}
      \cup {[Q("callback") EXCEPT !.value = v] : v \in PyValues}
=============================================================================
