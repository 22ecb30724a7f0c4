----------------------------- MODULE PolicyDoc -----------------------------
(***************************************************************************)
(* Policy documents and API-key entries, and the checks a document or a    *)
(* key list passes before the router uses it (internal/policy/loader.go,   *)
(* internal/policy/semantic.go, internal/auth/loader.go).  A document is   *)
(* known by a name that stands for its bytes, so equal names are equal     *)
(* sha256 hashes; Content gives the fields a name unmarshals to.  Optional *)
(* blocks are sets of at most one record.  Fractions are in hundredths.    *)
(***************************************************************************)
EXTENDS Integers, Sequences, FiniteSets, Functions

CONSTANTS
    Content,    \* [document name -> its fields]
    AuthFiles,  \* [auth.yaml contents -> [yaml, mode, keys]]
    Keys,       \* [key name -> its entry]
    Providers,  \* engines whose API key is configured
    SiteID      \* this policloud's ID, "" when redirect is off

Docs == DOMAIN Content

\* A document claims the models it lists.
Models(d) == Content[d].models

-----------------------------------------------------------------------------
(* Routing documents.                                                      *)

knownStrategies == {"least-loaded"}
knownShedIfFields == {"kv_cache_utilization", "waiting_requests"}
knownExcludeIfFields == knownShedIfFields \union
    { "capacity_utilization", "success_rate", "srtt", "consecutive_failures",
      "consecutive_timeouts", "running_requests", "avg_ttft_seconds",
      "p90_ttft_seconds", "avg_itl_seconds", "p90_itl_seconds",
      "gpu_temperature_c", "gpu_util_percent", "gpu_vram_used_percent",
      "memory_used_percent", "cpu_usage_percent" }
IsSupported(engine) == engine \in {"openai", "anthropic"}

\* A rule is a field and the number of comparison operators set on it.
oneOperator(rules, known) == \A r \in rules : r.field \in known /\ r.operators = 1

validateStep(s) ==
    /\ s.strategy \in knownStrategies
    /\ oneOperator(s.exclude_if, knownExcludeIfFields)

validateAdmissionGates(c) ==
    /\ c.mode \in {"", "reserved", "serverless"}
    /\ \A f \in DOMAIN c.caps : c.caps[f] >= 0
    /\ oneOperator(c.shed_if, knownShedIfFields)

Validate(c) ==
    /\ validateAdmissionGates(c)
    /\ validateStep(c.routing)
    /\ \A s \in c.chain : validateStep(s)
    /\ \A p \in c.provider : p.engine # "" /\ p.model # ""

-----------------------------------------------------------------------------
(* Semantic documents: a profile of a model, or an alias.                  *)

InheritsRouting(c) ==
    /\ c.profile \union c.alias # {}
    /\ c.routing.strategy = ""
    /\ c.routing.zero

knownSignalFeatures ==
    { "has_tools", "tool_count", "tool_result_turns", "tool_error_count",
      "assistant_tool_call_turns", "turn_count", "message_count",
      "system_prompt_bytes", "request_bytes", "estimated_input_tokens",
      "image_count", "needs_structured_output", "needs_reasoning",
      "code_presence", "stack_trace", "math_presence" }

validateProfile(p) ==
    /\ p.context_window >= 0 /\ p.params_b >= 0 /\ p.active_params_b >= 0
    /\ p.params_b > 0 => p.active_params_b <= p.params_b

validateSignal(s) ==
    /\ (s.feature # "") # (s.keywords # {})
    /\ s.weight >= 0
    /\ IF s.keywords # {}
       THEN s.gte = {} /\ s.lte = {} /\ "" \notin s.keywords
       ELSE /\ s.feature \in knownSignalFeatures
            /\ \A g \in s.gte, l \in s.lte : g <= l

\* An absent setting takes its default before its range is checked.
OrDefault(v, default) == IF v = 0 THEN default ELSE v
Percent(v) == v \in 0..100

validateRoute(r, aliasNames) ==
    /\ r.name # ""
    /\ r.candidates # {}
    /\ r.candidates \intersect ({""} \union aliasNames) = {}
    /\ r.prefer \in {"", "order", "smallest", "largest"}
    /\ r.pin_ttl # "invalid"
    /\ Percent(r.min_score)
    /\ r.signals # <<>> => FoldFunction(LAMBDA s, w : s.weight + w, 0, r.signals) = 100
    /\ \A i \in DOMAIN r.signals : validateSignal(r.signals[i])

validateAlias(a, aliasNames) ==
    /\ a.routes # <<>>
    /\ Percent(a.abstain_below)
    /\ Percent(OrDefault(a.context_buffer, 95))
    /\ OrDefault(a.recent_turns, 3) >= 0
    /\ Len(a.strip_markers) % 2 = 0 /\ "" \notin Range(a.strip_markers)
    /\ a.affinity_ttl # "invalid" /\ a.pin_max_age # "invalid"
    /\ Percent(OrDefault(a.affinity_margin, 20))
    /\ \A i \in DOMAIN a.routes :
         /\ validateRoute(a.routes[i], aliasNames)
         /\ \A j \in 1..(i - 1) : a.routes[j].name # a.routes[i].name
    /\ \E i \in DOMAIN a.routes : a.routes[i].name = a.default_route

validateSemantic(c) ==
    /\ c.alias # {} => c.profile = {} /\ InheritsRouting(c) /\ c.models # {}
    /\ \A a \in c.alias : validateAlias(a, c.models)
    /\ \A p \in c.profile : validateProfile(p)

\* A document that inherits routing sets nothing that configures it.
validateModelDoc(c) ==
    /\ c.chain = {} /\ c.provider = {} /\ c.mode = "" /\ c.shed_if = {}
    /\ \A f \in DOMAIN c.caps : c.caps[f] = 0
    /\ validateSemantic(c)

-----------------------------------------------------------------------------
(* What loading a document's bytes accepts.                                *)

\* The global policy: no semantic block, always a routing step.
LoadBytes == { d \in Docs : LET c == Content[d] IN
                 c.yaml /\ c.profile \union c.alias = {} /\ Validate(c) }

LoadModelDocBytes == { d \in Docs : LET c == Content[d] IN
    /\ c.yaml
    /\ IF InheritsRouting(c) THEN validateModelDoc(c)
                             ELSE Validate(c) /\ validateSemantic(c) }

\* Documents that route the models they claim; the others only describe them.
Routing == { d \in Docs : ~InheritsRouting(Content[d]) }
Aliases == { d \in Docs : Content[d].alias # {} }

\* Documents whose fallback provider the router can call, if they name one.
validateProviderPolicy == { d \in Docs :
    \A p \in Content[d].provider : IsSupported(p.engine) /\ p.engine \in Providers }

-----------------------------------------------------------------------------
(* API keys, and the check that spans the two files.                       *)

validatePerModelEntry(model, e) ==
    model # "" /\ e.rpm >= 0 /\ e.tpd >= 0

\* Either the flat fields or the per-model map, never both.
QuotaValid(q) ==
    /\ q.itpm >= 0
    /\ \A pm \in q.perModel :
         /\ q.itpm = 0 /\ q.flat = 0
         /\ DOMAIN pm # {}
         /\ \A model \in DOMAIN pm : validatePerModelEntry(model, pm[model])

validateOccupancyShare(share) == Percent(share)

NewStaticKeyProvider(ks) ==
    /\ ks # {}
    /\ \A k \in ks :
         /\ Keys[k].hash # "" /\ Keys[k].owner # ""
         /\ \A j \in ks : Keys[j].hash = Keys[k].hash => j = k
         /\ QuotaValid(Keys[k].quota) /\ validateOccupancyShare(Keys[k].share)

\* auth.yaml contents an API provider can be built from.
ProvidersFromConfig == { f \in DOMAIN AuthFiles : LET a == AuthFiles[f] IN
    /\ a.yaml
    /\ \/ a.mode \in {"", "none", "dynamic"}
       \/ a.mode = "api-key" /\ NewStaticKeyProvider(a.keys) }

\* CheckAuthMode: static keys have no key ID a sibling policloud could resolve.
CheckAuthMode(f) == SiteID = "" \/ AuthFiles[f].mode # "api-key"

\* A key with no list may call any model; a policy with no list governs all.
GovernsAnyOf(d, keyModels) ==
    keyModels = {} \/ Models(d) = {} \/ keyModels \intersect Models(d) # {}

ValidateITPMCoversMaxInput(itpm, maxInput) ==
    ~(itpm > 0 /\ maxInput > 0 /\ itpm < maxInput)

\* One key against one policy: on serverless replicas the key's input bucket
\* must hold one prompt of maximum size.
Covers(k, d) ==
    LET max == Content[d].caps.max_input_tokens IN
    Content[d].mode = "serverless" /\ max > 0 /\ GovernsAnyOf(d, Keys[k].models)
        => ValidateITPMCoversMaxInput(Keys[k].quota.itpm, max)

ValidateAdmissionInvariants(policies, ks) == \A d \in policies, k \in ks : Covers(k, d)

=============================================================================
