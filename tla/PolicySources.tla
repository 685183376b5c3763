--------------------------- MODULE PolicySources ---------------------------
(***************************************************************************
 What a policy invocation may read (engine/src/policy.rs, and the parts of
 manifest.rs and activation.rs that call it): a policy and the binding of a
 point, each from a document the host wrote or one it fetched, are gated,
 resolved, validated and prepared into the invocation a backend gets.

 A path, a query or a text is what the code tells apart about it.  A data
 path value stands for the string or the one-element array of that string.
 ***************************************************************************)
EXTENDS FiniteSets

VARIABLES
    source,         \* the policy, the binding and where each was written
    dispatcher,     \* the policy dispatcher the host chose
    phase,          \* loading, then where the invocation went
    invocation      \* the prepared invocation

sourceVars == <<source, dispatcher, phase, invocation>>

Absent == "absent"
\* "joined" is a path under the directory of the manifest that declares it.
PathValues == {Absent, "empty", "blank", "rel", "abs", "joined"}
DataValues == PathValues \cup {"null", "malformed"}
Queries == {Absent, "blank", "rule", "expression"}
\* Where a document comes from; "memory" is text the host holds itself.
Origins == {"file", "memory", "pinned", "unpinned"}
Fetched == {"pinned", "unpinned"}

NoAdapter == [data |-> Absent, data_paths |-> Absent, bundle_url |-> Absent, cedar_field |-> FALSE]
NoPolicy ==
    [type |-> "test", query |-> Absent, bundle |-> Absent, inline |-> FALSE,
     adapter_config |-> NoAdapter, policy_set |-> Absent, policy_path |-> Absent,
     entities_path |-> Absent, schema_path |-> Absent, adapter |-> "named"]

-----------------------------------------------------------------------------
\* An empty or absolute path stays; Path::join makes a blank one a file name.
resolve_relative_string(path) == IF path \in {"rel", "blank"} THEN "joined" ELSE path

resolve_adapter_config_paths(adapter) ==
    [adapter EXCEPT !.data = resolve_relative_string(@), !.data_paths = resolve_relative_string(@)]

resolve_relative_paths(config) ==
    CASE config.type = "rego" ->
           [config EXCEPT !.bundle = resolve_relative_string(@),
                          !.adapter_config = resolve_adapter_config_paths(@)]
      [] config.type = "cedar" ->
           [config EXCEPT !.policy_path = resolve_relative_string(@),
                          !.entities_path = resolve_relative_string(@),
                          !.schema_path = resolve_relative_string(@)]
      [] OTHER -> [config EXCEPT !.adapter_config = resolve_adapter_config_paths(@)]

reject_adapter_data_paths(adapter) == adapter.data # Absent \/ adapter.data_paths # Absent

reject_filesystem_path_fields(config) ==
    CASE config.type = "rego" ->
           config.bundle # Absent \/ reject_adapter_data_paths(config.adapter_config)
      [] config.type = "cedar" ->
           \E path \in {config.policy_path, config.entities_path, config.schema_path} : path # Absent
      [] OTHER -> reject_adapter_data_paths(config.adapter_config)

reject_remote_bundle_field(config) ==
    config.type # "cedar" /\ config.adapter_config.bundle_url # Absent

\* Mutant: a policy's own query is taken to be its author's business.
accept_any_query(config) == FALSE

\* An expression query runs as code inside the engine; only a rule may be named.
reject_non_rule_query(config) == config.type = "rego" /\ config.query \notin {Absent, "rule"}

\* The gates a document passes; reject_fetched_document_local_access calls them.
document_refused(origin, config, binding) ==
    /\ origin \in Fetched
    /\ \/ reject_filesystem_path_fields(config)
       \/ reject_adapter_data_paths(binding.adapter_config)
       \/ /\ origin = "unpinned"
          /\ reject_remote_bundle_field(config) \/ binding.adapter_config.bundle_url # Absent
       \/ reject_non_rule_query(config)
       \/ binding.query \notin {Absent, "rule"}

-----------------------------------------------------------------------------
merge_adapter_config(base, overrides) ==
    [data |-> IF overrides.data = Absent THEN base.data ELSE overrides.data,
     data_paths |-> IF overrides.data_paths = Absent THEN base.data_paths ELSE overrides.data_paths,
     bundle_url |-> IF overrides.bundle_url = Absent THEN base.bundle_url ELSE overrides.bundle_url,
     cedar_field |-> base.cedar_field \/ overrides.cedar_field]

\* At most one of the three sources, and a bundle_url that is a pinned source.
rego_bundle_url_invalid(bundle, inline, adapter) ==
    \/ bundle # Absent /\ inline
    \/ adapter.bundle_url # Absent /\ (bundle # Absent \/ inline)
    \/ adapter.bundle_url = "malformed"

validate_optional_string(value) == value \notin {"empty", "blank"}

validate_cedar_config(config) ==
    /\ (config.policy_set = Absent) # (config.policy_path = Absent)
    /\ \A value \in {config.policy_set, config.policy_path, config.entities_path,
                     config.schema_path} : validate_optional_string(value)
    /\ config.query = Absent

validate_policy_definition(config) ==
    CASE config.type = "rego" ->
           /\ validate_optional_string(config.query)
           /\ validate_optional_string(config.bundle)
           /\ ~rego_bundle_url_invalid(config.bundle, config.inline, config.adapter_config)
           /\ ~config.adapter_config.cedar_field
      [] config.type = "cedar" -> validate_cedar_config(config)
      [] config.type = "custom" -> config.adapter # "blank"
      [] OTHER -> TRUE

validate_policy_binding(config, binding) ==
    /\ validate_optional_string(binding.query)
    /\ config.type = "rego" =>
         /\ ~rego_bundle_url_invalid(config.bundle, config.inline,
                merge_adapter_config(config.adapter_config, binding.adapter_config))
         /\ \E query \in {binding.query, config.query} : query # Absent
    /\ config.type = "cedar" => binding.adapter_config = NoAdapter /\ binding.query = Absent

-----------------------------------------------------------------------------
\* Either key may hold a path; a value that is not one fails the invocation.
data_path_invalid(value) == value \in {"empty", "blank", "malformed"}
rego_adapter_data_paths(adapter) == {adapter.data, adapter.data_paths} \ {Absent, "null"}
rego_adapter_data_invalid(adapter) ==
    \E value \in rego_adapter_data_paths(adapter) : data_path_invalid(value)

\* InMemoryRegoBundle replaces the bundle and the bundle_url of one policy.
bundle_in_memory_refused(config, binding) ==
    config.type # "rego" \/ binding.adapter_config.bundle_url # Absent
set_rego_bundle_in_memory(config) ==
    [config EXCEPT !.bundle = Absent, !.inline = TRUE, !.adapter_config.bundle_url = Absent]

\* A malformed data path hides the others of its map from this check.
relative_data(adapter) ==
    ~rego_adapter_data_invalid(adapter) /\ "rel" \in rego_adapter_data_paths(adapter)
unresolved_relative_rego_paths(config, binding) ==
    /\ config.type = "rego"
    /\ \/ config.bundle \in {"rel", "blank"}
       \/ relative_data(config.adapter_config)
       \/ relative_data(binding.adapter_config)

(***************************************************************************)
(* One policy, the binding of one point and where each was written.  In a  *)
(* manifest held in memory both are of the one document, and the host may  *)
(* supply the modules.  The other documents meet in a chain.               *)
(***************************************************************************)
Resolved(origin, config) == IF origin = "file" THEN resolve_relative_paths(config) ELSE config
ResolvedBinding(origin, binding) ==
    IF origin = "file"
    THEN [binding EXCEPT !.adapter_config = resolve_adapter_config_paths(@)] ELSE binding

NoBinding == [query |-> Absent, adapter_config |-> NoAdapter]

manifest_from_memory_refused(s) ==
    \/ s.supplied /\ bundle_in_memory_refused(s.policy, s.binding)
    \/ unresolved_relative_rego_paths(
          IF s.supplied THEN set_rego_bundle_in_memory(s.policy) ELSE s.policy, s.binding)

LoadedPolicy(s) ==
    IF s.from = "memory" /\ s.supplied THEN set_rego_bundle_in_memory(s.policy)
    ELSE Resolved(s.from, s.policy)
LoadedBinding(s) == ResolvedBinding(s.bound, s.binding)

\* The manifest of s passes every gate and the validation Runtime::new runs.
Accepted(s) ==
    /\ IF s.from = "memory" THEN ~manifest_from_memory_refused(s)
       ELSE /\ ~document_refused(s.from, s.policy, NoBinding)
            /\ ~document_refused(s.bound, NoPolicy, s.binding)
    /\ validate_policy_definition(LoadedPolicy(s))
    /\ validate_policy_binding(LoadedPolicy(s), LoadedBinding(s))

prepare_fails(config, binding) ==
    /\ config.type = "rego"
    /\ \/ binding.query = Absent /\ config.query = Absent
       \/ rego_bundle_url_invalid(config.bundle, config.inline,
             merge_adapter_config(config.adapter_config, binding.adapter_config))

prepare_policy_invocation(config, binding) ==
    [config EXCEPT !.query = IF config.type = "rego" /\ binding.query # Absent
                             THEN binding.query ELSE @,
                   !.adapter_config = IF config.type = "cedar" THEN @
                                      ELSE merge_adapter_config(@, binding.adapter_config)]

\* Paths a Rego or Cedar backend opens for the invocation.
OpenedPaths(prepared) ==
    (IF prepared.type = "rego"
     THEN {prepared.bundle} \cup rego_adapter_data_paths(prepared.adapter_config)
     ELSE {prepared.policy_path, prepared.entities_path, prepared.schema_path}) \ {Absent}

-----------------------------------------------------------------------------
\* The zero-config dispatcher takes Rego policies only.
default_policy_dispatcher_refuses(kind, config) ==
    kind = "default" /\ config.type # "rego"

\* BindingPolicyDispatcher, the default one and the single-engine ones.
route(kind, config) ==
    CASE config.type = "rego" /\ kind \in {"binding", "default"} -> "regorus"
      [] config.type = "rego" /\ kind = "opa" -> "opa"
      [] config.type = "cedar" /\ kind \in {"binding", "cedar"} -> "cedar"
      [] config.type = "test" /\ kind = "binding" -> "literal"
      [] OTHER -> "error"

\* OpaRegoRunner::evaluate: modules in memory cannot be handed to a process.
opa_refuses(prepared_policy) ==
    prepared_policy.inline \/ rego_adapter_data_invalid(prepared_policy.adapter_config)

SourceInit(s, d) ==
    /\ source = s /\ dispatcher = d
    /\ phase = "loading"
    /\ invocation = NoPolicy

LoadSource ==
    /\ phase = "loading"
    /\ LET policy == LoadedPolicy(source)
           binding == LoadedBinding(source)
           prepared_policy == prepare_policy_invocation(policy, binding)
           target == route(dispatcher, policy)
       IN  IF ~Accepted(source) \/ default_policy_dispatcher_refuses(dispatcher, policy)
           THEN phase' = "refused" /\ UNCHANGED invocation
           ELSE IF prepare_fails(policy, binding)
           THEN phase' = "unprepared" /\ UNCHANGED invocation
           ELSE /\ invocation' = prepared_policy
                /\ phase' = IF target = "opa" /\ opa_refuses(prepared_policy) THEN "error" ELSE target
    /\ UNCHANGED <<source, dispatcher>>

(***************************************************************************)
(* Everything a host can have loaded: any policy and any binding, of a     *)
(* manifest in memory or of two documents of a chain.                      *)
(***************************************************************************)
Written == PathValues \ {"joined"}
AdapterConfigs ==
    [data : DataValues \ {"joined"}, data_paths : DataValues \ {"joined"},
     bundle_url : {Absent, "pinned", "malformed"}, cedar_field : BOOLEAN]
PolicyConfigs ==
    [type : {"rego", "cedar", "test", "custom"}, query : Queries, bundle : Written, inline : BOOLEAN,
     adapter_config : AdapterConfigs, policy_set : {Absent, "text", "empty", "blank"},
     policy_path : Written, entities_path : Written, schema_path : Written,
     adapter : {"named", "blank"}]
PolicyBindings == [query : Queries, adapter_config : AdapterConfigs]
ManifestSources ==
    {s \in [policy : PolicyConfigs, from : Origins, binding : PolicyBindings, bound : Origins,
            supplied : BOOLEAN] : s.from = "memory" <=> s.bound = "memory"}

SourceSpec ==
    /\ \E s \in ManifestSources, d \in {"binding", "default", "cedar", "opa"} : SourceInit(s, d)
    /\ [][LoadSource]_sourceVars

\* A fetched document reaches no host file and runs no expression: what the
\* invocation opens was written by the host, and a query of a fetched document
\* is a rule's name.  No path of a manifest file or of a fetched one is left to
\* the working directory (policy.rs and the gates of manifest.rs).  An accepted
\* manifest always prepares: a decision never finds two sources or no query.
SourcesAreTheHosts ==
    LET s == source
        chosen == (IF s.from = "file" THEN OpenedPaths(resolve_relative_paths(s.policy)) ELSE {})
                    \cup (IF s.bound = "file"
                          THEN rego_adapter_data_paths(
                                 resolve_adapter_config_paths(s.binding.adapter_config)) ELSE {})
        asked_by == IF s.binding.query # Absent THEN s.bound ELSE s.from
    IN  phase # "unprepared" /\ (phase \in {"regorus", "opa", "cedar"} /\ s.from # "memory" =>
          /\ OpenedPaths(invocation) \subseteq chosen \ {"rel"}
          /\ invocation.type = "rego" /\ asked_by \in Fetched => invocation.query = "rule")
=============================================================================
