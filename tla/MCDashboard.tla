----------------------------- MODULE MCDashboard -----------------------------
(***************************************************************************)
(* Small databases for the dashboard: two models, one of which the book    *)
(* prices alike under two providers and the other one not, with spellings  *)
(* in capitals, suffixes, aliases, equal timestamps and absent values.     *)
(***************************************************************************)
EXTENDS Dashboard

Name(route, stem, tail, caps) ==
    [route |-> route, stem |-> stem, tail |-> tail, caps |-> caps]
Glm == Name("", "glm", <<>>, FALSE)
GLM == Name("", "glm", <<>>, TRUE)
VslGlm == Name("vsl", "glm", <<>>, FALSE)
Kimi == Name("", "kimi", <<>>, FALSE)
KimiHigh == Name("", "kimi", <<"high">>, FALSE)
Qwen == Name("", "qwen", <<>>, FALSE)
OprKimi == Name("opr", "kimi", <<>>, FALSE)

Price(input, output, mode) ==
    [input |-> input, output |-> output, cacheRead |-> 1, cacheNew |-> 0, mode |-> mode]
MCBook ==
    [prices |-> Glm :> Price(2, 3, "") @@ VslGlm :> Price(2, 3, "input_excludes_cache")
                @@ Kimi :> Price(1, 4, "") @@ OprKimi :> Price(5, 4, ""),
     suffixes |-> {"high"}, mappings |-> <<>>]
Entry(model, input) == [model |-> model, price |-> Price(input, 7, "")]
MCPriceLists ==
    {<<>>, <<Entry(KimiHigh, 6), Entry(NoName, 1)>>, <<Entry(GLM, 9), Entry(Glm, -1)>>,
     <<Entry(KimiHigh, -6)>>}

Plain == [alias |-> NoName, provider |-> "p", key |-> "", auth |-> "a1", exec |-> "",
          effort |-> "", tier |-> "", mode |-> "", failed |-> FALSE, code |-> 0,
          input |-> 3, output |-> 1, reasoning |-> 0, cached |-> 0, cacheRead |-> 1,
          cacheNew |-> 0, total |-> 0, latency |-> 2, ttft |-> 1]
Call(id, at, model, more) == more @@ Plain @@ [id |-> id, at |-> at, model |-> model]
MCCalls ==
    {Call(1, 1, Glm, [key |-> "k"]),
     Call(3, 1, GLM, [auth |-> "a2", code |-> 500, latency |-> 0, cacheNew |-> 2]),
     Call(2, 3, KimiHigh, [provider |-> "q", auth |-> "a3", latency |-> 300, input |-> -4,
                           cached |-> 2, cacheRead |-> 0, exec |-> "gemini", reasoning |-> 5]),
     Call(4, 0, NoName, [alias |-> VslGlm, provider |-> "claude", latency |-> 301,
                         failed |-> TRUE])}
MCRouted ==
    {Call(1, 2, VslGlm, [routerModel |-> Kimi, attribution |-> "routed"]),
     Call(2, 2, GLM, [routerModel |-> NoName, attribution |-> "direct", code |-> 200]),
     Call(4, 4, Qwen, [routerModel |-> NoName, attribution |-> "routed"]),
     Call(3, 4, NoName, [alias |-> Kimi, failed |-> TRUE, code |-> 429, latency |-> 4,
                         routerModel |-> NoName, attribution |-> "direct"])}

MCAlphabet == <<"claude", "p", "q">>
MCLabels ==
    [ap \in {"a1", "a2", "a3"} \X {"p", "q", "claude"} |-> ap[2]]

All == [f \in {"model", "alias", "provider", "key", "effort", "exec", "tier",
               "attribution", "failed", "code"} |-> Unset]
       @@ [from |-> 0, to |-> 9, cachedOnly |-> FALSE]
MCFilters ==
    {All, [All EXCEPT !.from = 1, !.to = 4, !.cachedOnly = TRUE],
     [All EXCEPT !.failed = TRUE, !.model = VslGlm]}
EveryKind == {"summary", "page", "latest", "pricing"}
=============================================================================
