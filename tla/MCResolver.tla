----------------------------- MODULE MCResolver -----------------------------
(* A small instance of Resolver for TLC: an alias with a route that pins   *)
(* its tasks, a default route and one for images, over three models.       *)
EXTENDS Resolver, TLC

Text(words) == [type |-> "text", text |-> words, err |-> FALSE]
Image == [type |-> "image_url", text |-> << >>, err |-> FALSE]
Result(words) == [type |-> "tool_result", text |-> words, err |-> FALSE]
Says(role, parts) == [role |-> role, calls |-> 0, parts |-> parts]
Calls == [role |-> "assistant", calls |-> 1, parts |-> << >>]
Body(messages, max) ==
    [system |-> <<Text(<<"be", "brief">>)>>, messages |-> messages, tools |-> 0,
     format |-> "", effort |-> "", reasoning |-> "", thinking |-> "",
     user |-> "", userID |-> "", maxTokens |-> 0, maxCompletionTokens |-> max]

(* The turns of a conversation that starts with word. The harness adds a   *)
(* block of its own to the first message, a new one on every call.         *)
Opening(word, note) == Says("user", <<Text(<<word, "<note>", note, "</note>">>)>>)
Turn1(word) == <<Opening(word, "monday")>>
Turn2(word) ==
    <<Opening(word, "tuesday"), Calls,
      Says("user", <<Result(<<"error">>), Text(<<"<note>", "late">>)>>)>>
TurnImage(word) == <<Opening(word, "friday"), Says("user", <<Image>>)>>

Request(conversation, owner, body, allowed) ==
    [conversation |-> conversation, owner |-> owner, header |-> "", body |-> body,
     bad |-> FALSE, count |-> FALSE, allowed |-> allowed]

All == {"big", "small", "eye"}

MCCases == <<
    Request("A", "o1", Body(Turn1("fix"), 0), All),
    Request("A", "o1", Body(Turn2("fix"), 0), All),
    Request("A", "o1", Body(TurnImage("fix"), 0), All),
    Request("A", "o1", Body(Turn1("fix"), 30), {"big", "small"}),
    Request("B", "o1", Body(Turn1("hello"), 0), All),
    Request("B", "o1", Body(TurnImage("hello"), 0), {"small"}),
    [Request("C", "o2", Body(Turn1("fix"), 0), {"small"}) EXCEPT !.header = "task"],
    [Request("D", "o2", Body(Turn1("hello"), 0), All) EXCEPT !.count = TRUE],
    Request("E", "o2", Body(Turn1("bye"), 0), {}),
    [Request("D", "o2", Body(Turn1("hello"), 0), All) EXCEPT !.bad = TRUE]>>

Keyword(w, weight) ==
    [keywords |-> {w}, feature |-> "", gte |-> 0, lte |-> 0, weight |-> weight]
Feature(name, weight) ==
    [keywords |-> {}, feature |-> name, gte |-> 1, lte |-> 99, weight |-> weight]

Route(name, pin, prefer, signals, candidates) ==
    [name |-> name, pinTask |-> pin, pinTTL |-> IF pin THEN 1 ELSE 0, prefer |-> prefer,
     minScore |-> 0, signals |-> signals, candidates |-> candidates]

Profiles ==
    [big |-> [contextWindow |-> 40, size |-> 2, lacks |-> {"no_vision"}],
     small |-> [contextWindow |-> 20, size |-> 1, lacks |-> {"no_vision", "no_tool_calling"}],
     eye |-> [contextWindow |-> 0, size |-> 0, lacks |-> {}]]

FullConfig ==
    [exists |-> TRUE, aliases |-> {}, profiles |-> Profiles, defaultRoute |-> "chat",
     abstainBelow |-> 40, contextBuffer |-> 90, recentTurns |-> 1,
     stripMarkers |-> <<<<"<note>", "</note>">>>>, affinityTTL |-> 1, affinityMargin |-> 60,
     pinMaxAge |-> 2,
     routes |-> <<Route("code", TRUE, "order",
                        <<Keyword("fix", 50), Feature("tool_error_count", 50)>>,
                        <<"big", "small">>),
                  Route("chat", FALSE, "smallest", << >>, <<"big", "small">>),
                  Route("see", FALSE, "order", <<Feature("image_count", 100)>>, <<"eye">>)>>]

(* After a reload: no pins, a candidate gone and another now an alias; no  *)
(* affinity and one route; no alias.                                       *)
MCConfigs == <<
    FullConfig,
    [FullConfig EXCEPT !.aliases = {"small"}, !.routes[1].pinTask = FALSE,
                       !.routes[2].candidates = <<"eye", "small">>],
    [FullConfig EXCEPT !.affinityTTL = 0, !.defaultRoute = "code",
                       !.routes = <<Route("code", TRUE, "largest", << >>, <<"small">>)>>],
    [FullConfig EXCEPT !.exists = FALSE]>>

Symmetry == Permutations(Caller)
=============================================================================
