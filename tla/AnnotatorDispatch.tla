------------------------- MODULE AnnotatorDispatch -------------------------
(***************************************************************************
 One call of the bundled annotator dispatcher
 (engine/src/dispatchers/): route by `type`, resolve the configuration and
 the text to judge, read credentials, perform at most one pinned prompt GET
 and one inference POST, and turn the answer into an annotation or into a
 fail-closed error.

 An invocation is the set `fields` of the field names present (as usable,
 non-empty values) after the binding is laid over the declaration; values
 matter only for the provider, the thresholds and where a credential comes
 from: "inline" (the manifest) or "host" (the process environment).  A
 member such as "timeout_bad" stands for a present but unusable value.
 Scores are naturals; the f64 of the code are compared, never computed.
 ***************************************************************************)
EXTENDS Naturals, Sequences, FiniteSets, SequencesExt, TLC

CONSTANTS
    Categories,     \* classifier categories, 1..n: BTreeMap order is their order
    MaxScore,       \* scores and thresholds are 0..MaxScore
    Declarations,   \* annotators a manifest can declare
    Bindings        \* fields an intervention point's binding may lay over them

VARIABLES
    inv,            \* the AnnotatorInvocation being dispatched
    host,           \* the environment variables that are set
    stage,          \* where dispatch() is
    net,            \* every network operation so far, with the credentials it carries
    heard,          \* what the transport answered
    out             \* the result of dispatch()

dispatchVars == <<inv, host, stage, net, heard, out>>

NoScores == [c \in {} |-> 0]
Silence == [kind |-> "none", native |-> FALSE, scores |-> NoScores]
Pending == [ok |-> FALSE, reason |-> "pending", detail |-> "", flagged |-> FALSE]

\* A step of the call either yields the credentials gathered so far or fails.
Ok(c) == [ok |-> TRUE, carries |-> c, detail |-> ""]
Err(d) == [ok |-> FALSE, carries |-> {}, detail |-> d]
AndThen(r, next) == IF ~r.ok THEN r
                    ELSE IF ~next.ok THEN next ELSE Ok(r.carries \union next.carries)
Require(cond, d) == IF cond THEN Ok({}) ELSE Err(d)
Has(f) == f \in inv.fields

-----------------------------------------------------------------------------
(* Credentials: every read of the host environment goes through host_env.  *)

read_with(v) == IF inv.url_sourced THEN Err("provenance")
                ELSE Ok(IF v \in host THEN {"host"} ELSE {})

\* Mutant: an optional variable is read without looking at the provenance.
read_optional_directly(v) == Ok(IF v \in host THEN {"host"} ELSE {})

read_optional(v) == Ok(read_with(v).carries)

Required(v) == LET r == read_with(v)
               IN IF r.ok /\ r.carries = {} THEN Err("unset") ELSE r

secret_field_or_env(field, v) == IF Has(field) THEN Ok({"inline"}) ELSE Required(v)

\* LlmConfig::secret_from_field_or_env; `default` is the provider's own variable.
secret_from_field_or_env(default) ==
    IF Has("api_key") THEN Ok({"inline"})
    ELSE IF Has("api_key_env") \/ default THEN Required("API_KEY")
    ELSE Ok({})

\* http::env_api_key and the api_key of ResolvedClassifierConfig
env_api_key == IF Has("api_key_env") THEN Required("API_KEY") ELSE Ok({})

-----------------------------------------------------------------------------
(* LLM annotators.                                                         *)

DefaultKey == inv.provider \in {"openai", "azure_openai", "gemini"}

\* Refuses, before the prompt is fetched, whatever the request would read later.
reject_pre_fetch_host_env_access ==
    IF ~inv.url_sourced THEN Ok({})
    ELSE CASE inv.provider = "ollama" -> Ok({})
           [] inv.provider = "bedrock" ->
                AndThen(IF Has("aws_region") THEN Ok({}) ELSE read_with("AWS_REGION"),
                AndThen(secret_field_or_env("aws_access_key_id", "AWS_ACCESS_KEY_ID"),
                        secret_field_or_env("aws_secret_access_key", "AWS_SECRET_ACCESS_KEY")))
           [] OTHER ->
                IF ~Has("api_key") /\ (Has("api_key_env") \/ DefaultKey)
                THEN read_with("API_KEY") ELSE Ok({})

LlmProviders == {"openai", "openai_compatible", "azure_openai", "bedrock", "gemini", "ollama"}

\* The part of LlmConfig::from_fields that runs before the prompt is fetched.
from_fields_head ==
    AndThen(Require(inv.provider \in LlmProviders, "config"),
    AndThen(reject_pre_fetch_host_env_access,
            Require(~(Has("system_prompt_url") /\ Has("system_prompt")), "config")))

\* The rest of from_fields, then policy_target_text.
from_fields_tail ==
    AndThen(Require(~Has("timeout_bad"), "config"),
    AndThen(Require(~Has("headers_bad"), "config"),
            Require(inv.target = "text", "target")))

openai_request == secret_from_field_or_env(DefaultKey)

azure_openai_request ==
    AndThen(Require(\/ Has("chat_url")
                    \/ Has("endpoint") /\ Has("deployment") /\ Has("api_version")
                    \/ ~Has("endpoint") /\ Has("base_url"), "config"),
            secret_from_field_or_env(TRUE))

gemini_request == secret_from_field_or_env(TRUE)

ollama_request == Ok({})

bedrock_request ==
    LET region == IF Has("aws_region") THEN Ok({})
                  ELSE IF ~inv.url_sourced /\ {"AWS_REGION", "AWS_DEFAULT_REGION"} \cap host # {}
                  THEN Ok({"host"})
                  ELSE AndThen(read_with("AWS_REGION"), Err("unset"))
        session == IF Has("aws_session_token") THEN Ok({"inline"})
                   ELSE read_optional("AWS_SESSION_TOKEN")
    IN AndThen(region,
       AndThen(secret_field_or_env("aws_access_key_id", "AWS_ACCESS_KEY_ID"),
       AndThen(secret_field_or_env("aws_secret_access_key", "AWS_SECRET_ACCESS_KEY"),
       AndThen(session,
               Require(~Has("endpoint_relative"), "config")))))

request_for_provider ==
    CASE inv.provider \in {"openai", "openai_compatible"} -> openai_request
      [] inv.provider = "azure_openai" -> azure_openai_request
      [] inv.provider = "bedrock" -> bedrock_request
      [] inv.provider = "gemini" -> gemini_request
      [] OTHER -> ollama_request

\* Which answers carry an annotation: text content that is JSON with a label.
annotation_from_provider_response(h) == Require(h.kind = "labelled", "shape")

-----------------------------------------------------------------------------
(* Classifier annotators.                                                  *)

\* AutoProvider: the provider named by a hint, else the one the endpoint looks like.
resolve_target ==
    IF inv.provider # "auto" THEN inv.provider
    ELSE IF inv.hint # "none" THEN inv.hint ELSE inv.site

from_fields_with_provenance ==
    AndThen(env_api_key, Require(~Has("thresholds_bad") /\ ~Has("headers_bad"), "config"))

\* The categories asked for: the thresholds' keys, else the configured list, else
\* all of them; a configured list is read, and can be wrong, only without thresholds.
aacs_categories ==
    IF DOMAIN inv.thresholds # {} THEN DOMAIN inv.thresholds
    ELSE IF inv.listed # {} THEN inv.listed ELSE Categories

perspective_attributes ==
    IF DOMAIN inv.thresholds # {} THEN DOMAIN inv.thresholds
    ELSE IF inv.listed # {} THEN inv.listed ELSE {1}

ListIsUsable == Require(Has("categories_bad") => DOMAIN inv.thresholds # {}, "config")

\* Each provider's classify up to transport.send: all of them need a key.
NeedsKey == Require(from_fields_with_provenance.carries # {}, "config")
aacs_classify == AndThen(NeedsKey, AndThen(Require(Has("endpoint"), "config"), ListIsUsable))
openai_moderation_classify == NeedsKey
perspective_classify == AndThen(NeedsKey, ListIsUsable)
llama_guard_classify == AndThen(NeedsKey, Require(Has("endpoint"), "config"))
lakera_guard_classify == NeedsKey

\* bundled::classify; an auto provider that resolves to none, or to auto, fails.
classify ==
    AndThen(from_fields_with_provenance,
            CASE resolve_target = "aacs" -> aacs_classify
              [] resolve_target = "openai_moderation" -> openai_moderation_classify
              [] resolve_target = "perspective" -> perspective_classify
              [] resolve_target = "llama_guard" -> llama_guard_classify
              [] resolve_target = "lakera_guard" -> lakera_guard_classify
              [] OTHER -> Err("config"))

\* Mutant: only the category with the top score is held against its threshold.
fold_top_score(scores) ==
    LET T == DOMAIN inv.thresholds
        seen == IF T # {} THEN T \cap DOMAIN scores ELSE DOMAIN scores
        top == {c \in seen : \A e \in seen : scores[e] <= scores[c]}
    IN IF T # {} THEN \E c \in top : scores[c] >= inv.thresholds[c]
       ELSE inv.threshold = 0 \/ \E c \in top : scores[c] >= inv.threshold

\* bundled::fold_score_verdict: the categories in map order, carrying the top score.
fold_score_verdict(scores) ==
    LET perCategory == DOMAIN inv.thresholds # {}
        seen == SetToSortSeq(IF perCategory THEN DOMAIN inv.thresholds \cap DOMAIN scores
                             ELSE DOMAIN scores, <)
        step(acc, c) ==
            [flagged |-> acc.flagged \/ (perCategory /\ scores[c] >= inv.thresholds[c]),
             top |-> IF scores[c] > acc.top THEN scores[c] ELSE acc.top]
        end == FoldLeft(step, [flagged |-> FALSE, top |-> 0], seen)
    IN IF perCategory THEN end.flagged ELSE end.top >= inv.threshold

\* A provider's reading of a body: its verdict, or Misread.
Misread == [ok |-> FALSE, flagged |-> FALSE]
Verdict(flagged) == [ok |-> TRUE, flagged |-> flagged]

\* The scores are all folded, those of categories nobody asked for included.
aacs_parse(scores) ==
    IF scores # NoScores /\ aacs_categories \subseteq DOMAIN scores
    THEN Verdict(fold_score_verdict(scores)) ELSE Misread

perspective_parse(scores) ==
    IF scores # NoScores /\ perspective_attributes \subseteq DOMAIN scores
    THEN Verdict(fold_score_verdict([c \in perspective_attributes |-> scores[c]])) ELSE Misread

\* The provider's own flag counts only where no category has its own threshold.
Flagged(native, scores) ==
    Verdict(fold_score_verdict(scores) \/ (native /\ DOMAIN inv.thresholds = {}))

openai_moderation_parse(native, scores) ==
    IF scores # NoScores THEN Flagged(native, scores) ELSE Misread

lakera_guard_parse(native, scores) ==
    IF scores # NoScores THEN Flagged(native, scores) ELSE Verdict(native)

llama_guard_parse(native) == Verdict(native)

parse_response(h) ==
    CASE h.kind # "scored" -> Misread
      [] resolve_target = "aacs" -> aacs_parse(h.scores)
      [] resolve_target = "perspective" -> perspective_parse(h.scores)
      [] resolve_target = "openai_moderation" -> openai_moderation_parse(h.native, h.scores)
      [] resolve_target = "lakera_guard" -> lakera_guard_parse(h.native, h.scores)
      [] OTHER -> llama_guard_parse(h.native)

-----------------------------------------------------------------------------
(* The call.                                                               *)

IsBundled == inv.type = "classifier" /\ inv.provider # "none"

\* ClassifierAnnotator::dispatch without a provider, and EndpointAnnotator::dispatch.
dispatch_generic ==
    AndThen(Require(inv.target = "text", "target"),
    AndThen(Require(Has("url"), "config"),
    AndThen(env_api_key, Require(~Has("timeout_bad"), "config"))))

endpoint_request ==
    AndThen(Require(Has("endpoint") \/ Has("url"), "config"),
    AndThen(Require(~Has("timeout_bad"), "config"), Require(inv.target = "text", "target")))

\* Everything before the first network operation, by declared type.
Prepare ==
    CASE inv.type = "llm" -> from_fields_head
      [] inv.type = "endpoint" -> endpoint_request
      [] inv.type = "classifier" /\ IsBundled ->
            AndThen(Require(inv.target = "text", "target"), classify)
      [] inv.type = "classifier" -> dispatch_generic
      [] OTHER -> Err("config")

Failed(detail, reason) ==
    out' = [ok |-> FALSE, reason |-> reason, detail |-> detail, flagged |-> FALSE]

\* AnnotatorInvocation::from_annotation_in: the binding's fields over the
\* declaration's, and the manifest's provenance.
from_annotation_in(declared, bound, url_sourced) ==
    [declared EXCEPT !.fields = @ \union bound] @@ [url_sourced |-> url_sourced]

\* The environment variables the call may read; the others cannot matter to it.
Consulted ==
    IF inv.provider = "bedrock"
    THEN {"AWS_REGION", "AWS_DEFAULT_REGION", "AWS_ACCESS_KEY_ID", "AWS_SECRET_ACCESS_KEY",
          "AWS_SESSION_TOKEN"}
    ELSE {"API_KEY"}

DispatchInit ==
    /\ \E d \in Declarations, b \in Bindings, u \in BOOLEAN : inv = from_annotation_in(d, b, u)
    /\ host \in SUBSET Consulted
    /\ stage = "start"
    /\ net = <<>>
    /\ heard = Silence
    /\ out = Pending

\* resolve::failed on any error before a request exists
Refuse ==
    /\ stage = "start"
    /\ ~Prepare.ok
    /\ stage' = "done"
    /\ Failed(Prepare.detail, "annotation_failed")
    /\ UNCHANGED <<inv, host, net, heard>>

\* from_fields reaches the prompt: a pinned source is fetched now, in the middle.
FetchPrompt ==
    /\ stage = "start"
    /\ inv.type = "llm"
    /\ Prepare.ok
    /\ IF Has("system_prompt_url")
       THEN /\ net' = Append(net, [op |-> "GET", carries |-> {}])
            /\ \E pinned \in BOOLEAN :
                 IF pinned THEN stage' = "prompted" /\ UNCHANGED out
                 ELSE stage' = "done" /\ Failed("prompt", "annotation_failed")
       ELSE stage' = "prompted" /\ UNCHANGED <<net, out>>
    /\ UNCHANGED <<inv, host, heard>>

Post(r) == /\ net' = Append(net, [op |-> "POST", carries |-> r.carries])
           /\ stage' = "sent"
           /\ UNCHANGED out

\* The LLM request is built, signed if it is Bedrock's, and sent.
SendLlm ==
    LET r == AndThen(from_fields_tail, request_for_provider)
    IN /\ stage = "prompted"
       /\ IF r.ok THEN Post(r)
          ELSE stage' = "done" /\ Failed(r.detail, "annotation_failed") /\ UNCHANGED net
       /\ UNCHANGED <<inv, host, heard>>

SendOther ==
    /\ stage = "start"
    /\ inv.type # "llm"
    /\ Prepare.ok
    /\ Post(Prepare)
    /\ UNCHANGED <<inv, host, heard>>

\* send_transport_request (LLM, bundled) keeps no error kind: a timeout is a string.
\* post_json (generic classifier, endpoint) tells a timeout from other errors.
transport_error(h) ==
    IF h.kind = "timeout" /\ inv.type # "llm" /\ ~IsBundled
    THEN "annotation_timeout" ELSE "annotation_failed"

NoBody == {"timeout", "body_timeout", "io", "status", "oversize"}

Interpret(h) ==
    CASE h.kind \in NoBody -> Err("http")
      [] inv.type = "llm" -> annotation_from_provider_response(h)
      [] inv.type = "endpoint" -> Require(h.kind \in {"object", "labelled"}, "shape")
      [] IsBundled -> Require(parse_response(h).ok, "shape")
      [] OTHER -> Require(h.kind # "notjson" /\ (Has("response_field") => h.kind = "labelled"), "shape")

\* What a server may answer: a completed exchange below carries 2xx and fits the cap.
Answers ==
    LET plain == [kind : NoBody \union {"notjson", "array", "object", "labelled"},
                  native : {FALSE}, scores : {NoScores}]
        scored == [kind : {"scored"}, native : BOOLEAN,
                   scores : UNION {[S -> 0..MaxScore] : S \in SUBSET Categories}]
    IN IF IsBundled THEN plain \union scored ELSE plain

Receive ==
    /\ stage = "sent"
    /\ stage' = "done"
    /\ \E h \in Answers :
         /\ heard' = h
         /\ IF Interpret(h).ok
            THEN out' = [ok |-> TRUE, reason |-> "", detail |-> "",
                         flagged |-> IsBundled /\ parse_response(h).flagged]
            ELSE Failed(Interpret(h).detail, transport_error(h))
    /\ UNCHANGED <<inv, host, net>>

DispatchStep == Refuse \/ FetchPrompt \/ SendLlm \/ SendOther \/ Receive
DispatchSpec == DispatchInit /\ [][DispatchStep]_dispatchVars

-----------------------------------------------------------------------------
(* Properties.                                                             *)

\* A manifest that folded in a fetched document never makes the engine send a
\* value of the host environment anywhere (host_env.rs), whatever the provider,
\* the fields it declares and the operation, prompt GET or inference POST; and a
\* call refused for that reason has not touched the network at all: the pinned
\* prompt is not fetched first (reject_pre_fetch_host_env_access).
HostSecretsStayHome ==
    /\ inv.url_sourced => \A i \in DOMAIN net : "host" \notin net[i].carries
    /\ out.detail = "provenance" => net = <<>>

\* Reference for the fold over category scores and for each provider's parsing:
\* with per-category thresholds a text is blocked exactly when a category that
\* was asked about and answered reaches its threshold; without them, when the
\* best score reaches the common threshold or the provider flags it itself.
BlockedIffReached ==
    LET p == resolve_target
        T == DOMAIN inv.thresholds
        S == IF p = "perspective" THEN perspective_attributes ELSE DOMAIN heard.scores
        reached == IF T # {} THEN \E c \in T \cap S : heard.scores[c] >= inv.thresholds[c]
                   ELSE inv.threshold = 0 \/ \E c \in S : heard.scores[c] >= inv.threshold
        verdict == CASE p = "llama_guard" -> heard.native
                     [] p = "lakera_guard" /\ heard.scores = NoScores -> heard.native
                     [] p \in {"aacs", "perspective"} -> reached
                     [] OTHER -> reached \/ (T = {} /\ heard.native)
    IN out.ok /\ IsBundled => (out.flagged <=> verdict)
=============================================================================
