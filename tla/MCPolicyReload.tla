--------------------------- MODULE MCPolicyReload ---------------------------
(***************************************************************************)
(* Two models, two file names and the _default file.  The documents cover  *)
(* each way a file can go: routing one model or both, serverless with a    *)
(* cap, naming a provider that is not configured, an alias, an alias whose *)
(* candidate is itself, and a file that does not parse.                    *)
(***************************************************************************)
EXTENDS PolicyReload

step(strategy) == [strategy |-> strategy, zero |-> TRUE, exclude_if |-> {}]
caps(max) == [max_input_tokens |-> max, images_max |-> 0, admit_budget_tokens |-> 0, max_inflight |-> 0]

Plain(models) ==
    [ yaml |-> TRUE, models |-> models, routing |-> step("least-loaded"), chain |-> {},
      provider |-> {}, mode |-> "", caps |-> caps(0), shed_if |-> {},
      profile |-> {}, alias |-> {} ]

route(candidate) ==
    [ name |-> "r", candidates |-> {candidate}, prefer |-> "", pin_ttl |-> "", min_score |-> 0,
      signals |-> << [feature |-> "has_tools", keywords |-> {}, weight |-> 60, gte |-> {}, lte |-> {}],
                     [feature |-> "", keywords |-> {"k"}, weight |-> 40, gte |-> {}, lte |-> {}] >> ]

alias(candidate) ==
    [ routes |-> <<route(candidate)>>, abstain_below |-> 0, context_buffer |-> 0, recent_turns |-> 0,
      strip_markers |-> <<>>, affinity_ttl |-> "", pin_max_age |-> "", affinity_margin |-> 0,
      default_route |-> "r" ]

AliasDoc(candidate) ==
    [Plain({"m2"}) EXCEPT !.routing = step(""), !.alias = {alias(candidate)}]

MCContent ==
    [ builtin |-> Plain({}),
      one     |-> Plain({"m1"}),
      both    |-> Plain({"m1", "m2"}),
      full    |-> [Plain({"m1"}) EXCEPT !.mode = "serverless", !.caps = caps(2)],
      allfull |-> [Plain({}) EXCEPT !.mode = "serverless", !.caps = caps(2)],
      cloud   |-> [Plain({"m2"}) EXCEPT !.provider = {[engine |-> "openai", model |-> "x"]}],
      alias   |-> AliasDoc("m1"),
      loop    |-> AliasDoc("m2") ]

quota(itpm) == [itpm |-> itpm, flat |-> 0, perModel |-> {}]

MCKeys ==
    [ small |-> [hash |-> "h1", owner |-> "o", models |-> {"m1"}, quota |-> quota(1), share |-> 0],
      large |-> [hash |-> "h2", owner |-> "o", models |-> {}, quota |-> quota(2), share |-> 50] ]

MCAuthFiles ==
    [ dynamic |-> [yaml |-> TRUE, mode |-> "dynamic", keys |-> {}],
      smalls  |-> [yaml |-> TRUE, mode |-> "api-key", keys |-> {"small"}],
      larges  |-> [yaml |-> TRUE, mode |-> "api-key", keys |-> {"large"}] ]

MCWrites ==
    [ _default |-> {"allfull", "cloud", "loop"},
      a        |-> {"one", "full", "cloud", "loop"},
      b        |-> {"one", "both", "alias"} ]

file(s, d) == [stem |-> s, doc |-> d]

MCDirs == { << file("_default", "builtin") >>,
            << file("a", "one") >>,
            << file("_default", "builtin"), file("a", "one"), file("b", "alias") >> }

=============================================================================
