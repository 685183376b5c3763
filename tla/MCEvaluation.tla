---------------------------- MODULE MCEvaluation ----------------------------
(* Three annotators with every list of up to two needs, and a policy that    *)
(* answers every output that differs in one member from an allow, a warn, an *)
(* escalation or a transform that is well formed; every bundled provider     *)
(* with two categories and three score levels.                               *)
EXTENDS Evaluation

ThreeNames == <<"a", "b", "c">>

Plain ==
  [decision |-> "allow", members |-> "known", reason |-> "none", message_ok |-> TRUE,
   warnings |-> "none", labels_ok |-> TRUE, approval |-> "none", evidence |-> "none",
   transform |-> "none"]

Bases ==
  {Plain,
   [Plain EXCEPT !.decision = "warn", !.reason = "plain"],
   [Plain EXCEPT !.decision = "escalate", !.reason = "plain"],
   [Plain EXCEPT !.decision = "transform", !.transform = "target"]}

Values ==
  [decision |-> {"not_object", "absent", "allow", "deny", "transform", "warn", "escalate",
                 "unsupported"},
   members |-> {"effects", "unknown"}, reason |-> {"plain", "reserved", "truncated", "not_string"},
   message_ok |-> {FALSE}, labels_ok |-> {FALSE},
   warnings |-> {"plain", "reserved", "truncated", "malformed"},
   approval |-> {"object", "malformed"}, evidence |-> {"small", "large", "malformed"},
   transform |-> {"none", "not_object", "unknown_member", "no_path", "old_root", "elsewhere",
                  "ungrammatical", "no_value", "target"}]

NearOutputs ==
  Bases \cup UNION {{[o EXCEPT ![m] = v] : v \in Values[m]} : o \in Bases, m \in DOMAIN Values}

-----------------------------------------------------------------------------
MCCategories == {1, 2}

Declared(type, providers, fieldsets) ==
    [type : {type}, provider : providers, fields : fieldsets, target : {"text", "bad"},
     hint : {"none"}, site : {"unknown"}, listed : {{}}, threshold : {1}, thresholds : {NoScores}]

LlmFields == {"api_key", "api_key_env", "system_prompt_url", "headers_bad"}
AwsFields == {"aws_region", "aws_access_key_id", "aws_secret_access_key", "aws_session_token",
              "system_prompt_url"}
Providers == {"aacs", "openai_moderation", "perspective", "llama_guard", "lakera_guard"}
\* 3 is above every score
Thresholds == UNION {[S -> {1, 3}] : S \in SUBSET MCCategories}

Classifiers ==
    LET usual == {"endpoint", "api_key_env"}
        bundled(providers, hints, sites) ==
            [type : {"classifier"}, provider : providers,
             fields : {usual, {"api_key_env"}, {"endpoint", "api_key"}, usual \union {"thresholds_bad"},
                       usual \union {"categories_bad"}},
             target : {"text"}, hint : hints, site : sites, listed : {{}, {2}},
             threshold : {0, 2}, thresholds : Thresholds]
    IN bundled(Providers \union {"unsupported"}, {"none"}, {"unknown"})
         \union bundled({"auto"}, {"none", "auto", "lakera_guard"}, {"unknown", "aacs"})

MCDeclarations ==
    Declared("llm", (LlmProviders \ {"bedrock", "azure_openai"}) \union {"unsupported"}, SUBSET LlmFields)
    \union Declared("llm", {"azure_openai"},
                    SUBSET {"api_key", "endpoint", "deployment", "api_version", "base_url"})
    \union Declared("llm", {"azure_openai"}, {{"api_key", "chat_url"}})
    \union Declared("llm", {"bedrock"}, SUBSET AwsFields)
    \union Declared("endpoint", {"none"}, SUBSET {"endpoint", "url", "api_key_env"})
    \union Declared("classifier", {"none"}, SUBSET {"url", "api_key_env", "response_field"})
    \union Declared("other", {"none"}, {{}})
    \union Classifiers

MCBindings == {{}, {"timeout_bad"}, {"system_prompt"}, {"endpoint_relative"}}
=============================================================================
