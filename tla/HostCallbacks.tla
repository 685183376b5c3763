---------------------------- MODULE HostCallbacks ----------------------------
(***************************************************************************
 What a host callback's answer becomes on its way to the engine through the C,
 Python and Node bindings (sdk/ffi/src/lib.rs, sdk/python/src/lib.rs,
 sdk/node/native/src/lib.rs): the value is converted, or the call fails.
 ***************************************************************************)
EXTENDS BindingAnswers

CONSTANTS I64Max, U64Max    \* the integers the two conversions of Python tell apart

(* Host callbacks.  A JSON value or a Python object is a type with a number *)
(* or a sequence; a dict also has keys.                                     *)
Got(value) == [ok |-> TRUE, value |-> value]
NoValue == [ok |-> FALSE, value |-> Null]

RECURSIVE json_to_py(_)
json_to_py(v) ==
    CASE v.t = "null" -> [v EXCEPT !.t = "None"]
      [] v.t = "array" -> [v EXCEPT !.t = "list", !.items = [i \in DOMAIN v.items |-> json_to_py(v.items[i])]]
      [] v.t = "object" -> [v EXCEPT !.t = "dict", !.items = [i \in DOMAIN v.items |-> json_to_py(v.items[i])]]
      [] OTHER -> v

\* A bool is an int to Python.
IsInt(p) == p.t \in {"int", "bool"}
fits_64_bits(n) == -I64Max - 1 <= n /\ n <= U64Max
Converted(p, t, items) ==
    IF \E i \in DOMAIN items : ~items[i].ok THEN NoValue
    ELSE Got([p EXCEPT !.t = t, !.items = [i \in DOMAIN items |-> items[i].value]])

\* nan, surrogate and keys that are no strings, and other objects, are refused.
RECURSIVE py_to_json(_)
py_to_json(p) ==
    CASE p.t = "None" -> Got([p EXCEPT !.t = "null"])
      [] p.t = "bool" -> Got(p)
      [] p.t # "bool" /\ IsInt(p) -> IF fits_64_bits(p.n) THEN Got(p) ELSE NoValue
      [] p.t \in {"float", "string"} -> Got(p)
      [] p.t = "list" -> Converted(p, "array", [i \in DOMAIN p.items |-> py_to_json(p.items[i])])
      [] p.t = "dict" ->
           IF \E i \in DOMAIN p.keys : p.keys[i] \in {"number", "surrogate"} THEN NoValue
           ELSE Converted(p, "object", [i \in DOMAIN p.items |-> py_to_json(p.items[i])])
      [] OTHER -> NoValue

\* PyAnnotatorDispatcher::dispatch and PyPolicyDispatcher::evaluate.
python_callback(q) ==
    LET converted == py_to_json(q.value)
    IN  IF q.host.returns = "nothing" \/ ~converted.ok THEN Failed
        ELSE [Reply("value") EXCEPT !.value = converted.value]

\* The log of what is done to a host's string.
Copy(string) == <<[op |-> "copy", string |-> string]>>
release(host, string) == IF host.frees THEN <<[op |-> "free", string |-> string]>> ELSE <<>>
take(host) == Copy("result") \o release(host, "result")
\* HostCtx::error.
host_error(host) == IF host.error THEN Copy("error") \o release(host, "error") ELSE <<>>

\* HostAnnotatorDispatcher::dispatch and HostPolicyDispatcher::evaluate.
ffi_callback(q) ==
    CASE q.host.returns = "nothing" -> [Failed EXCEPT !.log = host_error(q.host)]
      [] q.host.returns = "json" -> [Reply("value") EXCEPT !.value = q.json, !.log = take(q.host)]
      [] OTHER -> [Failed EXCEPT !.log = take(q.host)]
\* NodeAnnotatorDispatcher::dispatch and NodePolicyDispatcher::evaluate.
node_callback(q) ==
    IF q.host.returns = "json" THEN [Reply("value") EXCEPT !.value = q.json] ELSE Failed

CallbackStep ==
    /\ question.op = "callback" /\ replies = <<>>
    /\ replies' = [ffi |-> ffi_callback(question), python |-> python_callback(question),
                   node |-> node_callback(question)]
    /\ UNCHANGED question

-----------------------------------------------------------------------------
\* The engine gets the value a host callback returned or a failure, the same in
\* every language: Python converts there and back without changing anything and
\* refuses what JSON cannot hold.  A string a C host handed over is copied, given
\* back exactly once, and never read after (python py_to_json; ffi HostCtx).
HostValuesHold ==
    Answered /\ question.op = "callback" =>
        /\ \A l \in Languages :
             replies[l].kind = "value" =>
                IF l = "python" THEN json_to_py(replies[l].value) = question.value
                ELSE replies[l].value = question.json
        /\ question.value = json_to_py(question.json) /\ question.host.returns = "json" =>
             \A l \in Languages : replies[l].kind = "value"
        /\ LET log == replies["ffi"].log
           IN  \A i \in DOMAIN log :
                 /\ log[i].op = "copy" /\ question.host.frees =>
                      Cardinality({j \in DOMAIN log : log[j] = [log[i] EXCEPT !.op = "free"]}) = 1
                 /\ log[i].op = "free" =>
                      /\ question.host.frees
                      /\ \A j \in DOMAIN log : log[j].string = log[i].string /\ j # i => j < i

\* The bindings mean the same: in their answers to a host and in what they hand
\* the engine of a host's answers.
BindingsAgree == AnswersAgree /\ HostValuesHold
=============================================================================
