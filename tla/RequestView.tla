----------------------------- MODULE RequestView -----------------------------
(***************************************************************************)
(* What alias routing reads of a request: semantic.ParseView, the features *)
(* Structural derives from the view, and the key of the task the request   *)
(* belongs to. Text is a sequence of words; a JSON string content is one   *)
(* "text" part.                                                            *)
(*                                                                         *)
(* A body is [system, messages, tools, format, effort, reasoning,          *)
(* thinking, user, userID, maxTokens, maxCompletionTokens], "" or 0 for    *)
(* what it leaves out; a message [role, calls, parts]; a part              *)
(* [type, text, err], whose text is that of the payload for a tool_result. *)
(***************************************************************************)
EXTENDS Integers, Sequences, SequencesExt, FiniteSets

CONSTANTS
    failureProbe,     \* failureProbeBytes: words of a tool result that are read
    FailureMarkers,   \* failureMarkers, and non-zero exit codes
    CodeWords         \* words hasCode takes for code

Count(s, Test(_)) == Cardinality({i \in DOMAIN s : Test(s[i])})
Total(s, f(_)) == FoldLeft(LAMBDA n, x : n + f(x), 0, s)
Texts(parts, types) ==
    FlattenSeq([i \in DOMAIN parts |->
                   IF parts[i].type \in types THEN parts[i].text ELSE << >>])

looksLikeFailure(s) ==
    LET long == Len(s) > 2 * failureProbe
        head == IF long THEN SubSeq(s, 1, failureProbe) ELSE s
        tail == IF long THEN SubSeq(s, Len(s) - failureProbe + 1, Len(s)) ELSE << >>
    IN  /\ s # << >>
        /\ \/ Head(head) \in {"error", "exception", "fatal"}
           \/ \E w \in ToSet(head) \cup ToSet(tail) : w \in FailureMarkers

parseContent(parts) ==
    [text |-> Texts(parts, {"text", "input_text"}),
     estBytes |-> Len(Texts(parts, {"text"})),
     images |-> Count(parts, LAMBDA p : p.type \in {"image_url", "image", "input_image"}),
     toolCalls |-> Count(parts, LAMBDA p : p.type = "tool_use"),
     toolResults |-> Count(parts, LAMBDA p : p.type = "tool_result"),
     toolErrors |-> Count(parts, LAMBDA p : /\ p.type = "tool_result"
                                            /\ p.err \/ looksLikeFailure(p.text))]

(* Each block between an open and a close marker goes, an unterminated one *)
(* up to the end of the text. markers is a sequence of such pairs.         *)
stripMarked(s, markers) ==
    LET Step(pair, st, w) ==
            IF st.in THEN [st EXCEPT !.in = w # pair[2]]
            ELSE IF w = pair[1] THEN [st EXCEPT !.in = TRUE]
            ELSE [st EXCEPT !.out = Append(@, w)]
        Strip(t, pair) ==
            FoldLeft(LAMBDA st, w : Step(pair, st, w), [out |-> << >>, in |-> FALSE], t).out
    IN  FoldLeft(Strip, s, markers)

IsUserTurn(msg) == msg.role = "user" /\ (msg.toolResults = 0 \/ msg.text # << >>)

(* OpenAI "tool" messages are wholly a tool result; system and developer   *)
(* messages go to the system prompt.                                       *)
Message(rm, markers) ==
    LET pc == parseContent(rm.parts) IN
    IF rm.role = "tool"
    THEN [role |-> "tool", text |-> << >>, images |-> 0, toolCalls |-> 0, toolResults |-> 1,
          toolErrors |-> IF looksLikeFailure(pc.text) THEN 1 ELSE 0]
    ELSE [role |-> rm.role, text |-> stripMarked(pc.text, markers), images |-> pc.images,
          toolCalls |-> rm.calls + pc.toolCalls, toolResults |-> pc.toolResults,
          toolErrors |-> pc.toolErrors]

endUser(body) == IF body.user # "" THEN body.user ELSE body.userID

wantsStructuredOutput(body) == body.format \in {"json_schema", "json_object"}

(* reasoning_effort, the effort of the reasoning object, then thinking.    *)
wantsReasoning(body) ==
    \/ body.effort \notin {"", "none"}
    \/ body.reasoning \notin {"", "none"}
    \/ body.reasoning = "" /\ body.thinking \notin {"", "disabled"}

ParseView(body, markers) ==
    LET toSystem(rm) == rm.role \in {"system", "developer"}
        spoken == SelectSeq(body.messages, LAMBDA rm : ~toSystem(rm))
        msgs == [i \in DOMAIN spoken |-> Message(spoken[i], markers)]
        human == SelectSeq(msgs, IsUserTurn)
    IN  [messages |-> msgs,
         system |-> Texts(body.system, {"text", "input_text"})
                    \o FlattenSeq([i \in DOMAIN body.messages |->
                           IF toSystem(body.messages[i])
                           THEN parseContent(body.messages[i].parts).text ELSE << >>]),
         firstUserText |-> IF human = << >> THEN << >> ELSE human[1].text,
         endUser |-> endUser(body),
         toolCount |-> body.tools,
         structured |-> wantsStructuredOutput(body),
         reasoning |-> wantsReasoning(body),
         estimatorBytes |-> body.tools + parseContent(body.system).estBytes
                            + Total(body.messages, LAMBDA rm : parseContent(rm.parts).estBytes),
         maxOutputTokens |-> IF body.maxTokens > body.maxCompletionTokens
                             THEN body.maxTokens ELSE body.maxCompletionTokens]

recentUserText(v, n) ==
    LET human == SelectSeq(v.messages, IsUserTurn)
        last == SubSeq(human, IF Len(human) > n THEN Len(human) - n + 1 ELSE 1, Len(human))
    IN  FlattenSeq([i \in DOMAIN last |-> last[i].text])

b2f(b) == IF b THEN 1 ELSE 0

(* Structural.Extract: the features signals read, and the words keywords   *)
(* are looked for in.                                                      *)
Extract(v, recentTurns) ==
    LET recent == ToSet(recentUserText(v, recentTurns)) IN
    [has_tools |-> b2f(v.toolCount > 0),
     tool_count |-> v.toolCount,
     tool_result_turns |-> Count(v.messages, LAMBDA x : x.toolResults > 0),
     tool_error_count |-> Total(v.messages, LAMBDA x : x.toolErrors),
     assistant_tool_call_turns |->
         Count(v.messages, LAMBDA x : x.role = "assistant" /\ x.toolCalls > 0),
     turn_count |-> Count(v.messages, IsUserTurn),
     message_count |-> Len(v.messages),
     image_count |-> Total(v.messages, LAMBDA x : x.images),
     needs_structured_output |-> b2f(v.structured),
     needs_reasoning |-> b2f(v.reasoning),
     code_presence |-> b2f(recent \cap CodeWords # {}),
     window |-> recent]

(* A header, the client's own name for its task, goes before the           *)
(* fingerprint of the conversation. "" is no header.                       *)
TaskKey(header, keyID, v) ==
    [kind |-> "task", owner |-> keyID,
     id |-> IF header # "" THEN <<"h", header>>
            ELSE <<"f", v.endUser, v.system, v.firstUserText>>]

affinityKey(taskKey) == [taskKey EXCEPT !.kind = "affinity"]
=============================================================================
