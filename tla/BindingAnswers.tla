--------------------------- MODULE BindingAnswers ---------------------------
(***************************************************************************
 What the C, Python and Node bindings answer to the same question
 (sdk/ffi/src/lib.rs, sdk/python/src/lib.rs, sdk/node/native/src/lib.rs and
 engine/src/wire.rs): a manifest is judged, an interceptor or a policy is built
 under the caps the host asks for, a context is evaluated, a session is opened.
 A text argument is known by how it reads: it is a text, absent, blank, not
 decodable, or no JSON.
 ***************************************************************************)
EXTENDS Integers, Sequences, FiniteSets

CONSTANTS
    DefaultLimit,       \* the engine's default for every cap
    U32Max,             \* the integers an offset is read into
    MaxOffset           \* the largest offset a session may start at

Languages == {"ffi", "python", "node"}
Sides == {"request", "response"}

-----------------------------------------------------------------------------
(* Resource caps.                                                           *)
LIMIT_FIELDS ==
    {"max_snapshot_bytes", "max_policy_input_depth", "max_annotators_per_point",
     "max_annotator_output_bytes", "max_policy_output_bytes", "max_extends_depth",
     "max_merged_manifest_bytes", "max_manifest_depth", "max_manifest_nodes",
     "max_manifest_events", "max_manifest_aliases", "max_manifest_anchors",
     "max_manifest_anchor_events", "max_manifest_url_bytes", "manifest_url_timeout_ms",
     "max_manifest_url_redirects"}
Limits_default == [f \in LIMIT_FIELDS |-> DefaultLimit]

\* A field holds a natural number, null, or something else.
Number(n) == [kind |-> "number", n |-> n]
NullField == [kind |-> "null", n |-> 0]
OtherField == [kind |-> "other", n |-> 0]

Refused == [ok |-> FALSE, limits |-> Limits_default]
Accepted(limits) == [ok |-> TRUE, limits |-> limits]

\* Mutant: a field that is not a number keeps its default.
limits_from_json_lenient(value) ==
    IF value.form # "object" \/ ~(DOMAIN value.fields \subseteq LIMIT_FIELDS) THEN Refused
    ELSE Accepted([f \in LIMIT_FIELDS |->
                     IF f \in DOMAIN value.fields /\ value.fields[f].kind = "number"
                     THEN value.fields[f].n ELSE DefaultLimit])
limits_from_json(value) ==
    IF \/ value.form # "object"
       \/ ~(DOMAIN value.fields \subseteq LIMIT_FIELDS)
       \/ \E f \in DOMAIN value.fields : value.fields[f].kind = "other"
    THEN Refused
    ELSE Accepted([f \in LIMIT_FIELDS |->
                     IF f \in DOMAIN value.fields /\ value.fields[f].kind = "number"
                     THEN value.fields[f].n ELSE DefaultLimit])

\* How each binding reads the argument.  C's manifest calls read a blank text as
\* no JSON; its constructor and Node read it as none; Python takes a mapping.
read_manifest_limits(value) ==
    IF value.form = "absent" THEN Accepted(Limits_default) ELSE limits_from_json(value)
parse_limits(value) ==
    IF value.form \in {"absent", "blank"} THEN Accepted(Limits_default) ELSE limits_from_json(value)
resolve_limits(value) == read_manifest_limits(value)

-----------------------------------------------------------------------------
(* The engine's readings of a manifest.  A document: how its text reads, the *)
(* most bytes a reading of it counts (source, expanded scalars, anchors),    *)
(* whether it fits the grammar, how many levels it extends, whether it is    *)
(* whole by itself (refs) and sound once its parents are merged, the largest *)
(* serialised manifest composed on the way (overlaps and comments make it    *)
(* smaller than its sources, defaults larger), and whether it can be readied *)
(* from memory and by the zero-config dispatcher.                            *)
parse_yaml_str_with_limits(doc, limits) ==
    CASE doc.size > limits["max_merged_manifest_bytes"] -> "limit"
      [] ~doc.grammar -> "invalid"
      [] OTHER -> "ok"
validate(doc) == IF doc.refs THEN "ok" ELSE "invalid"
from_yaml_str_with_limits(doc, limits) ==
    LET parsed == parse_yaml_str_with_limits(doc, limits)
    IN  IF parsed = "ok" THEN validate(doc) ELSE parsed

\* The loader resolves what a file extends (ManifestLoader): the file itself is
\* the first level, and every manifest composed is serialised and bounded.
from_path_with_limits(doc, limits) ==
    LET parsed == parse_yaml_str_with_limits(doc, limits)
    IN  CASE ~doc.exists -> "unreadable"
          [] doc.exists /\ limits["max_extends_depth"] = 0 -> "limit"
          [] doc.exists /\ limits["max_extends_depth"] # 0 /\ parsed # "ok" -> parsed
          [] OTHER -> IF \/ ~(doc.chain < limits["max_extends_depth"])
                         \/ doc.composed > limits["max_merged_manifest_bytes"]
                      THEN "limit" ELSE IF doc.merged THEN "ok" ELSE "invalid"

\* Entries are parsed in order, none may extend, and what they compose, if they
\* do, is validated and bounded as it is serialised.
from_yaml_chain_with_limits(docs, composition, limits) ==
    LET parsed == [i \in DOMAIN docs |-> parse_yaml_str_with_limits(docs[i], limits)]
        bad == {i \in DOMAIN docs : parsed[i] # "ok"}
    IN  CASE docs = <<>> -> "invalid"
          [] docs # <<>> /\ bad # {} -> parsed[CHOOSE i \in bad : \A j \in bad : i <= j]
          [] docs # <<>> /\ bad = {} ->
               IF (\E i \in DOMAIN docs : docs[i].chain > 0) \/ ~composition.sound THEN "invalid"
               ELSE IF composition.bytes > limits["max_merged_manifest_bytes"] THEN "limit" ELSE "ok"

\* Runtime::with_telemetry_perf_and_limits.
runtime_refuses(doc) == ~doc.refs \/ doc.chain > 0
\* activate_from_memory_with...: the text is parsed under the default caps.
activate_from_memory(doc, dispatcher) ==
    LET parsed == parse_yaml_str_with_limits(doc, Limits_default)
    IN  CASE parsed # "ok" -> parsed
          [] parsed = "ok" /\ (~doc.located \/ runtime_refuses(doc)) -> "invalid"
          [] parsed = "ok" /\ doc.located /\ ~runtime_refuses(doc) ->
               IF doc.loads /\ (dispatcher = "default" => doc.engine = "rego") THEN "ok" ELSE "unready"

-----------------------------------------------------------------------------
(* Answers.  The caps that bound each stage of what was built are recorded.  *)
Stages == {"manifest", "dispatchers", "runtime"}
Null == [t |-> "null", n |-> 0, keys |-> <<>>, items |-> <<>>]
NoSession == [level |-> "none", start |-> [t \in Sides |-> 0], tasks |-> [t \in Sides |-> {}]]
Reply(kind) ==
    [kind |-> kind, bounds |-> [s \in Stages |-> Limits_default], value |-> Null, log |-> <<>>,
     session |-> NoSession]
Built(manifest, dispatchers, runtime) ==
    [Reply("built") EXCEPT !.bounds = [manifest |-> manifest, dispatchers |-> dispatchers,
                                       runtime |-> runtime]]
Failed == Reply("failed")
IfRead(read, then) == IF read.ok THEN then ELSE Failed
IfText(doc, then) == IF doc.text = "text" THEN then ELSE Failed

\* A verdict on the document, or a failed call.
Judgement(outcome) ==
    Reply(CASE outcome = "ok" -> "valid" [] outcome = "invalid" -> "invalid" [] OTHER -> "failed")
Value(outcome) == IF outcome = "ok" THEN Reply("valid") ELSE Failed

-----------------------------------------------------------------------------
(* C.                                                                       *)
\* Mutant: a breached cap is reported as a verdict on the document.
acs_validate_manifest_with_limits_verdict(q) ==
    LET read == read_manifest_limits(q.limits)
        parsed == parse_yaml_str_with_limits(q.doc, read.limits)
    IN  IfRead(read, IfText(q.doc,
            CASE parsed # "ok" -> Reply("invalid")
              [] parsed = "ok" /\ q.doc.chain > 0 -> Failed
              [] parsed = "ok" /\ q.doc.chain = 0 -> Judgement(validate(q.doc))))
acs_validate_manifest_with_limits(q) ==
    LET read == read_manifest_limits(q.limits)
        parsed == parse_yaml_str_with_limits(q.doc, read.limits)
    IN  IfRead(read, IfText(q.doc,
            CASE parsed # "ok" -> Judgement(parsed)
              [] parsed = "ok" /\ q.doc.chain > 0 -> Failed
              [] parsed = "ok" /\ q.doc.chain = 0 -> Judgement(validate(q.doc))))
acs_validate_manifest_file(q) ==
    IfText(q.doc, Judgement(from_path_with_limits(q.doc, Limits_default)))
acs_manifest_parse_with_limits(q) ==
    LET read == read_manifest_limits(q.limits)
    IN  IfText(q.doc, IfRead(read, Value(from_yaml_str_with_limits(q.doc, read.limits))))
acs_manifest_merge_with_limits(q) ==
    LET read == read_manifest_limits(q.limits)
    IN  IF q.docs = <<>> THEN Failed
        ELSE IfRead(read, Value(from_yaml_chain_with_limits(q.docs, q.composition, read.limits)))
acs_manifest_diagnostics(q) ==
    IfText(q.doc, Judgement(from_yaml_str_with_limits(q.doc, Limits_default)))
\* Absent and blank bundles are none.
read_in_memory_bundles(bundles) == bundles \in {"object", "absent", "blank"}
acs_artifact_diagnostics(q) ==
    LET judged == from_yaml_str_with_limits(q.doc, Limits_default)
    IN  IfText(q.doc,
            IF ~read_in_memory_bundles(q.bundles) THEN Failed
            ELSE IF judged # "ok" THEN Judgement(judged)
            ELSE Reply(IF activate_from_memory(q.doc, "default") = "ok" THEN "valid" ELSE "invalid"))

\* acs_interceptor_new and acs_interceptor_new_ex.
build_interceptor(q) ==
    IfText(q.doc,
        IF from_path_with_limits(q.doc, Limits_default) = "ok"
        THEN Built(Limits_default, Limits_default, Limits_default) ELSE Failed)
acs_interceptor_new_with_hooks(q) ==
    LET read == parse_limits(q.limits)
    IN  IfText(q.doc, IfRead(read,
            IF from_path_with_limits(q.doc, read.limits) = "ok"
            THEN Built(read.limits, read.limits, read.limits) ELSE Failed))
acs_policy_activate(q) ==
    IfText(q.doc,
        IF from_path_with_limits(q.doc, Limits_default) = "ok" /\ q.doc.loads
        THEN Built(Limits_default, Limits_default, Limits_default) ELSE Failed)
acs_policy_activate_from_memory(q) ==
    IfText(q.doc,
        IF read_in_memory_bundles(q.bundles) /\ activate_from_memory(q.doc, "binding") = "ok"
        THEN Built(Limits_default, Limits_default, Limits_default) ELSE Failed)

\* Evaluation: everything after the arguments is a verdict.
acs_intercept(q) == Reply(IF q.context = "object" THEN "verdict" ELSE "failed")
acs_policy_evaluate(q) ==
    Reply(IF q.point = "known" /\ q.context = "object" THEN "verdict" ELSE "failed")

-----------------------------------------------------------------------------
(* Python.  The interpreter refuses a text that does not decode.            *)
python_validate_manifest(q) ==
    LET read == resolve_limits(q.limits)
        parsed == parse_yaml_str_with_limits(q.doc, read.limits)
    IN  IfText(q.doc, IfRead(read,
            CASE parsed # "ok" -> Judgement(parsed)
              [] parsed = "ok" /\ q.doc.chain > 0 -> Failed
              [] parsed = "ok" /\ q.doc.chain = 0 -> Judgement(validate(q.doc))))
python_validate_manifest_file(q) ==
    LET read == resolve_limits(q.limits)
    IN  IfText(q.doc, IfRead(read, Judgement(from_path_with_limits(q.doc, read.limits))))
python_parse_manifest(q) ==
    LET read == resolve_limits(q.limits)
    IN  IfText(q.doc, IfRead(read, Judgement(parse_yaml_str_with_limits(q.doc, read.limits))))
python_merge_manifests(q) ==
    LET read == resolve_limits(q.limits)
    IN  IfRead(read, Judgement(from_yaml_chain_with_limits(q.docs, q.composition, read.limits)))
\* A fragment is one finding.
validate_manifest_diagnostics(q) ==
    LET read == resolve_limits(q.limits)
        parsed == parse_yaml_str_with_limits(q.doc, read.limits)
    IN  IfText(q.doc, IfRead(read,
            CASE parsed # "ok" -> Judgement(parsed)
              [] parsed = "ok" /\ q.doc.chain > 0 -> Reply("invalid")
              [] parsed = "ok" /\ q.doc.chain = 0 -> Judgement(validate(q.doc))))
validate_artifacts_diagnostics(q) ==
    LET judged == from_yaml_str_with_limits(q.doc, Limits_default)
    IN  IfText(q.doc,
            IF q.bundles \notin {"object", "blank"} THEN Failed
            ELSE IF judged # "ok" THEN Judgement(judged)
            ELSE Reply(IF activate_from_memory(q.doc, "default") = "ok" THEN "valid" ELSE "invalid"))
python_interceptor_new(q) ==
    LET read == resolve_limits(q.limits)
    IN  IfText(q.doc, IfRead(read,
            IF from_path_with_limits(q.doc, read.limits) = "ok"
            THEN Built(read.limits, read.limits, read.limits) ELSE Failed))
python_policy_activate(q) ==
    LET read == resolve_limits(q.limits)
    IN  IfText(q.doc, IfRead(read,
            IF from_path_with_limits(q.doc, read.limits) = "ok" /\ q.doc.loads
            THEN Built(read.limits, read.limits, read.limits) ELSE Failed))
python_policy_activate_from_memory(q) ==
    LET read == resolve_limits(q.limits)
    IN  IfText(q.doc,
            IF q.bundles # "object" THEN Failed
            ELSE IfRead(read,
                   IF activate_from_memory(q.doc, "binding") = "ok"
                   THEN Built(Limits_default, read.limits, read.limits) ELSE Failed))
python_intercept(q) == Reply(IF q.context = "object" THEN "verdict" ELSE "failed")
python_policy_evaluate(q) ==
    Reply(IF q.point = "known" /\ q.context = "object" THEN "verdict" ELSE "failed")

-----------------------------------------------------------------------------
(* Node.  decode refuses an unpaired surrogate.                             *)
node_validate_manifest(q) ==
    LET read == parse_limits(q.limits)
        parsed == parse_yaml_str_with_limits(q.doc, read.limits)
    IN  IfText(q.doc, IfRead(read,
            CASE parsed # "ok" -> Judgement(parsed)
              [] parsed = "ok" /\ q.doc.chain > 0 -> Failed
              [] parsed = "ok" /\ q.doc.chain = 0 -> Judgement(validate(q.doc))))
node_validate_manifest_file(q) ==
    LET read == parse_limits(q.limits)
    IN  IfText(q.doc, IfRead(read, Judgement(from_path_with_limits(q.doc, read.limits))))
node_parse_manifest(q) ==
    LET read == parse_limits(q.limits)
    IN  IfText(q.doc, IfRead(read, Value(parse_yaml_str_with_limits(q.doc, read.limits))))
node_merge_manifests(q) ==
    LET read == parse_limits(q.limits)
    IN  IF q.docs = <<>> THEN Failed
        ELSE IfRead(read, Value(from_yaml_chain_with_limits(q.docs, q.composition, read.limits)))
validate_manifest_detailed(q) ==
    LET read == parse_limits(q.limits)
        parsed == parse_yaml_str_with_limits(q.doc, read.limits)
    IN  IfText(q.doc, IfRead(read,
            CASE parsed # "ok" -> Judgement(parsed)
              [] parsed = "ok" /\ q.doc.chain > 0 -> Reply("invalid")
              [] parsed = "ok" /\ q.doc.chain = 0 -> Judgement(validate(q.doc))))
validate_artifacts_detailed(q) ==
    LET judged == from_yaml_str_with_limits(q.doc, Limits_default)
    IN  IfText(q.doc,
            IF q.bundles \notin {"object", "blank"} THEN Failed
            ELSE IF judged # "ok" THEN Judgement(judged)
            ELSE Reply(IF activate_from_memory(q.doc, "default") = "ok" THEN "valid" ELSE "invalid"))
node_interceptor_new(q) ==
    IfText(q.doc,
        IF from_path_with_limits(q.doc, Limits_default) = "ok"
        THEN Built(Limits_default, Limits_default, Limits_default) ELSE Failed)
interceptor_new_with_hooks(q) ==
    LET read == parse_limits(q.limits)
    IN  IfText(q.doc, IfRead(read,
            IF from_path_with_limits(q.doc, read.limits) = "ok"
            THEN Built(read.limits, read.limits, read.limits) ELSE Failed))
\* With and without hooks.
node_policy_activate(q) ==
    IfText(q.doc,
        IF from_path_with_limits(q.doc, Limits_default) = "ok" /\ q.doc.loads
        THEN Built(Limits_default, Limits_default, Limits_default) ELSE Failed)
node_policy_activate_from_memory(q) ==
    IfText(q.doc,
        IF q.bundles = "object" /\ activate_from_memory(q.doc, "binding") = "ok"
        THEN Built(Limits_default, Limits_default, Limits_default) ELSE Failed)
context_snapshot(context) == context = "object"
node_intercept(q) == Reply(IF context_snapshot(q.context) THEN "verdict" ELSE "failed")
node_policy_evaluate(q) ==
    Reply(IF q.point = "known" /\ context_snapshot(q.context) THEN "verdict" ELSE "failed")

-----------------------------------------------------------------------------
(* Opening a session: level, and for each track a start offset and tasks.   *)
Levels == {"blocking", "complete", "deferred"}
\* A level that is no string, or absent, is the default.
level_of(config) == IF config.level \in {"absent", "other"} THEN "blocking" ELSE config.level
offset_of(field) == IF field.kind = "null" THEN 0 ELSE field.n
tasks_of(field) == IF field.kind = "names" THEN field.names ELSE {}

stream_config_refused(config) ==
    \/ level_of(config) \notin Levels
    \/ \E t \in Sides : config.start[t].kind = "other" \/ config.start[t].n > U32Max
    \/ \E t \in Sides : config.tasks[t].kind = "other"
stream_config_from_json(config) ==
    [level |-> level_of(config), start |-> [t \in Sides |-> offset_of(config.start[t])],
     tasks |-> [t \in Sides |-> tasks_of(config.tasks[t])]]

\* StreamSession::new.
Opens(session) ==
    IF (\A t \in Sides : session.tasks[t] = {}) \/ (\E t \in Sides : session.start[t] > MaxOffset)
    THEN Failed ELSE [Reply("built") EXCEPT !.session = session]

node_stream_session_new(q) ==
    IF q.config.form # "object" \/ stream_config_refused(q.config) THEN Failed
    ELSE Opens(stream_config_from_json(q.config))
\* C reads the fields itself.
acs_stream_session_new(q) ==
    LET c == q.config
    IN  IF \/ c.form # "object"
           \/ c.level \notin Levels \cup {"absent", "other"}
           \/ \E t \in Sides : c.start[t].kind = "other" \/ c.start[t].n > U32Max
           \/ \E t \in Sides : c.tasks[t].kind = "other"
        THEN Failed
        ELSE Opens([level |-> IF c.level \in Levels THEN c.level ELSE "blocking",
                    start |-> [t \in Sides |-> IF c.start[t].kind = "number" THEN c.start[t].n ELSE 0],
                    tasks |-> [t \in Sides |-> IF c.tasks[t].kind = "names" THEN c.tasks[t].names ELSE {}]])
\* Python's arguments are typed: each is given and of its type.
stream_session_new(q) ==
    LET c == q.config
    IN  IF \/ c.form # "object" \/ c.level \notin Levels
           \/ \E t \in Sides : \/ c.start[t].kind # "number" \/ c.start[t].n > U32Max
                               \/ c.tasks[t].kind # "names"
        THEN Failed
        ELSE Opens([level |-> c.level, start |-> [t \in Sides |-> c.start[t].n],
                    tasks |-> [t \in Sides |-> c.tasks[t].names]])

-----------------------------------------------------------------------------
(* The question a host asks in each language.                               *)
VARIABLES question, replies
answerVars == <<question, replies>>

ffi_answer(q) ==
    CASE q.op = "validate" -> acs_validate_manifest_with_limits(q)
      [] q.op = "validate_file" -> acs_validate_manifest_file(q)
      [] q.op = "parse" -> acs_manifest_parse_with_limits(q)
      [] q.op = "merge" -> acs_manifest_merge_with_limits(q)
      [] q.op = "diagnostics" -> acs_manifest_diagnostics(q)
      [] q.op = "artifacts" -> acs_artifact_diagnostics(q)
      [] q.op = "new" -> build_interceptor(q)
      [] q.op = "new_hooks" -> acs_interceptor_new_with_hooks(q)
      [] q.op = "activate" -> acs_policy_activate(q)
      [] q.op = "activate_memory" -> acs_policy_activate_from_memory(q)
      [] q.op = "intercept" -> acs_intercept(q)
      [] q.op = "evaluate" -> acs_policy_evaluate(q)
      [] q.op = "open" -> acs_stream_session_new(q)
python_answer(q) ==
    CASE q.op = "validate" -> python_validate_manifest(q)
      [] q.op = "validate_file" -> python_validate_manifest_file(q)
      [] q.op = "parse" -> python_parse_manifest(q)
      [] q.op = "merge" -> python_merge_manifests(q)
      [] q.op = "diagnostics" -> validate_manifest_diagnostics(q)
      [] q.op = "artifacts" -> validate_artifacts_diagnostics(q)
      [] q.op \in {"new", "new_hooks"} -> python_interceptor_new(q)
      [] q.op = "activate" -> python_policy_activate(q)
      [] q.op = "activate_memory" -> python_policy_activate_from_memory(q)
      [] q.op = "intercept" -> python_intercept(q)
      [] q.op = "evaluate" -> python_policy_evaluate(q)
      [] q.op = "open" -> stream_session_new(q)
node_answer(q) ==
    CASE q.op = "validate" -> node_validate_manifest(q)
      [] q.op = "validate_file" -> node_validate_manifest_file(q)
      [] q.op = "parse" -> node_parse_manifest(q)
      [] q.op = "merge" -> node_merge_manifests(q)
      [] q.op = "diagnostics" -> validate_manifest_detailed(q)
      [] q.op = "artifacts" -> validate_artifacts_detailed(q)
      [] q.op = "new" -> node_interceptor_new(q)
      [] q.op = "new_hooks" -> interceptor_new_with_hooks(q)
      [] q.op = "activate" -> node_policy_activate(q)
      [] q.op = "activate_memory" -> node_policy_activate_from_memory(q)
      [] q.op = "intercept" -> node_intercept(q)
      [] q.op = "evaluate" -> node_policy_evaluate(q)
      [] q.op = "open" -> node_stream_session_new(q)

EntryPoints ==
    {"validate", "validate_file", "parse", "merge", "diagnostics", "artifacts", "new", "new_hooks",
     "activate", "activate_memory", "intercept", "evaluate", "open"}

Nothing == [op |-> "none"]
AnswersInit(q) == question = q /\ replies = <<>>
AnswersStep ==
    /\ question.op \in EntryPoints /\ replies = <<>>
    /\ replies' = [ffi |-> ffi_answer(question), python |-> python_answer(question),
                   node |-> node_answer(question)]
    /\ UNCHANGED question

(***************************************************************************)
(* Any question: any document, caps under any names, and a session with any *)
(* tasks.                                                                   *)
(***************************************************************************)
Documents ==
    [text : {"text", "undecodable"}, size : Nat, grammar : BOOLEAN, chain : Nat, refs : BOOLEAN,
     composed : Nat, merged : BOOLEAN, exists : BOOLEAN, located : BOOLEAN, loads : BOOLEAN, engine : {"rego", "cedar"}]
FieldValues == {NullField, OtherField} \cup {Number(n) : n \in Nat}
IsQuestion(q) ==
    /\ q.op \in EntryPoints
    /\ q.doc \in Documents
    /\ q.docs \in Seq(Documents) /\ q.composition \in [sound : BOOLEAN, bytes : Nat]
    /\ q.limits.form \in {"absent", "blank", "garbled", "object"}
    /\ \E names \in SUBSET STRING : q.limits.fields \in [names -> FieldValues]
    /\ q.bundles \in {"object", "blank", "garbled", "absent"}
    /\ q.context \in {"object", "other", "garbled", "undecodable"} /\ q.point \in {"known", "unknown"}
    /\ q.config \in [form : {"object", "garbled"}, level : Levels \cup {"absent", "other", "unknown"},
                     start : [Sides -> FieldValues],
                     tasks : [Sides -> [kind : {"null", "names", "other"}, names : SUBSET STRING]]]

AnswersSpec == (\E q : IsQuestion(q) /\ AnswersInit(q)) /\ [][AnswersStep]_answerVars

-----------------------------------------------------------------------------
Answered == replies # <<>>

\* Where a binding only says whether it has a value, every failure is alike.
Coarse(reply) == IF reply.kind \in {"invalid", "failed"} THEN "no" ELSE reply.kind

\* The same document, caps, context and session parameters get the same answer
\* in every language that can express them: a verdict on a document is nowhere a
\* failed call and the reverse, and an opened session is the same session.  C
\* validates what it parses and judges a fragment by itself in its diagnostics;
\* its file and plain constructors take no caps, and Node's activations neither
\* (wire.rs says the bindings translate calling conventions, not meaning).
Comparable(q) ==
    /\ q.limits.form \in (IF q.op \in {"validate_file", "diagnostics", "new", "activate", "activate_memory"}
                          THEN {"absent"} ELSE {"absent", "object", "garbled"})
    /\ q.op = "parse" => q.doc.refs
    /\ q.op = "diagnostics" => q.doc.chain = 0
    /\ q.bundles \in (IF q.op = "artifacts" THEN {"object", "blank", "garbled"} ELSE {"object", "garbled"})
AnswersAgree ==
    Answered /\ question.op \in EntryPoints /\ Comparable(question) =>
        \A l, m \in Languages :
            /\ Coarse(replies[l]) = Coarse(replies[m]) \/ (question.op = "open" /\ "python" \in {l, m})
            /\ question.op \in {"validate", "validate_file", "diagnostics", "artifacts"} =>
                  replies[l].kind = replies[m].kind
            /\ replies[l].kind = "built" /\ replies[m].kind = "built" =>
                  replies[l].session = replies[m].session

\* A cap a host asks for is obeyed or the call is refused: none is dropped for
\* being misspelled, no number, or passed to an entry point that hands it to one
\* stage only, and every source and every manifest composed of sources stays
\* within the bytes and the levels it asks for.  The one stage left to the defaults is the text of an in-memory
\* activation (wire.rs, limits_from_json; the constructors of the bindings).
Bounded(op) ==
    CASE op = "new_hooks" -> Languages \X Stages
      [] op \in {"new", "activate"} -> {"python"} \X Stages
      [] op = "activate_memory" -> {"python"} \X {"dispatchers", "runtime"}
      [] OTHER -> {}
FromFiles == {"validate_file", "new", "new_hooks", "activate"}
\* What the cap on manifest bytes bounds: each source, and what sources compose
\* into (docs/manifest-parsing.md).
Bytes(q) ==
    IF q.op = "merge" THEN {q.docs[i].size : i \in DOMAIN q.docs} \cup {q.composition.bytes}
    ELSE IF q.op \in FromFiles THEN {q.doc.size, q.doc.composed} ELSE {q.doc.size}
AskedCapsHold ==
    Answered =>
    LET asked == question.limits.fields
        named == {f \in DOMAIN asked : asked[f].kind # "null"}
        taken(l) == question.op \notin {"intercept", "evaluate", "open", "callback", "artifacts"}
                      /\ (l = "ffi" => question.op \notin {"validate_file", "diagnostics"})
                      /\ (l # "python" => question.op \notin {"new", "activate", "activate_memory"})
    IN  question.limits.form = "object" =>
          \A l \in Languages :
            replies[l].kind \in {"valid", "built"} /\ taken(l) =>
                /\ named \subseteq LIMIT_FIELDS
                /\ \A f \in named :
                     /\ asked[f].kind = "number"
                     /\ \A s \in Stages :
                          <<l, s>> \in Bounded(question.op) => replies[l].bounds[s][f] = asked[f].n
                /\ question.op # "activate_memory" /\ "max_merged_manifest_bytes" \in named =>
                     \A n \in Bytes(question) : ~(n > asked["max_merged_manifest_bytes"].n)
                /\ question.op \in FromFiles /\ "max_extends_depth" \in named =>
                     question.doc.chain < asked["max_extends_depth"].n
=============================================================================
