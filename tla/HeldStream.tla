----------------------------- MODULE HeldStream -----------------------------
(***************************************************************************)
(* One held request from its release to the end of its answer: the writer  *)
(* of HeldResponse, the relay of StreamRelay, and between them the handler *)
(* (awaitResponse and writeSuccessResponse in internal/api/handlers.go)    *)
(* that takes what the processor hands over and writes it.                 *)
(*                                                                         *)
(* The relay and the handler meet in an io.Pipe, which holds nothing: a    *)
(* write ends when the handler has taken the pieces, or has closed its     *)
(* side.  So a step of the relay that sends waits for the handler to read, *)
(* and "left" of the relay is the handler's close, not the client.         *)
(***************************************************************************)
EXTENDS HeldResponse, StreamRelay

VARIABLES
    answer,     \* what the processor has handed over: "none", "stream", "json", "error"
    at,         \* the handler: see the actions
    inHand,     \* pieces the handler has read and not written
    counted     \* output tokens the handler charged for a stream, -1 for none

handlerVars == <<answer, at, inHand, counted>>
vars == <<heldVars, relayVars, handlerVars>>

Init ==
    /\ HeldInit /\ RelayInit
    /\ answer = "none" /\ at = "wait" /\ inHand = << >> /\ counted = -1

-----------------------------------------------------------------------------
(* The processor answers, also when the handler no longer waits.  Agents   *)
(* stream only to clients that asked for it.                               *)
Answered ==
    /\ pc = "released" \/ at # "wait"
    /\ answer = "none"
    /\ answer' \in {"json", "error"} \cup (IF stream THEN {"stream"} ELSE {})
    /\ UNCHANGED <<heldVars, relayVars, at, inHand, counted>>

(* The relay, a goroutine of its own once the answer is a stream.          *)
Handed ==
    /\ answer = "stream"
    /\ sent' # sent => at = "copy" /\ inHand = << >>
    /\ inHand' = IF sent' = sent THEN inHand ELSE SubSeq(sent', Len(sent) + 1, Len(sent'))
    /\ UNCHANGED <<heldVars, answer, at, counted>>

RelayCopies == (\E k \in 1..Len(src) : Copy(k)) /\ Handed
RelayEnds == ((\E how \in {"eof", "error"} : SourceEnds(how)) \/ Finish) /\ Handed

-----------------------------------------------------------------------------
(* The handler.  "wait": awaitResponse; "status", "body", "copy", "flush", *)
(* "count", "close": an answer; "type", "text": an error; "done".          *)

Goes(from, to) == at = from /\ at' = to /\ UNCHANGED <<stream, relayVars, answer>>

(* The answer's headers, its status, and the body of a JSON answer.        *)
TakeAnswer ==
    /\ answer \in {"stream", "json"} /\ SetHeader
    /\ Goes("wait", "status") /\ UNCHANGED <<inHand, counted>>

AnswerStatus ==
    /\ WriteHeader(OK)
    /\ Goes("status", IF answer = "stream" THEN "copy" ELSE "body") /\ UNCHANGED <<inHand, counted>>

AnswerBody ==
    /\ Write(<<"data">>)
    /\ Goes("body", "done") /\ UNCHANGED <<inHand, counted>>

(* An error of the processor, a gate's refusal, or the handler's timeout,  *)
(* which leaves a late answer unread: c.JSON sets the status, the content  *)
(* type and writes the body.                                               *)
ErrorStatus ==
    /\ WriteHeader(Waking)
    /\ Goes("wait", "type") /\ UNCHANGED <<inHand, counted>>

ErrorType ==
    /\ SetHeader
    /\ Goes("type", "text") /\ UNCHANGED <<inHand, counted>>

ErrorText ==
    /\ Write(<<"error">>)
    /\ Goes("text", "done") /\ UNCHANGED <<inHand, counted>>

(* io.Copy through sseFlushingWriter: every write is flushed, and a write  *)
(* that fails ends the copy, as the end of the pipe does.                  *)
CopyWrite ==
    /\ inHand # << >> /\ Write(inHand)
    /\ Goes("copy", "flush") /\ inHand' = << >> /\ UNCHANGED counted

CopyFlush ==
    /\ Flush
    /\ Goes("flush", "copy") /\ UNCHANGED <<inHand, counted>>

CopyFails ==
    /\ inHand # << >> /\ gone /\ Write(<< >>)
    /\ Goes("copy", "count") /\ inHand' = << >> /\ UNCHANGED counted

CopyEnds ==
    /\ inHand = << >> /\ trunc # "undecided"
    /\ Goes("copy", "count") /\ UNCHANGED <<heldVars, inHand, counted>>

(* The handler charges the counts the relay has published by now ...       *)
Count ==
    /\ counted' = IF tokens = NoTokens THEN 0 ELSE tokens[2]
    /\ Goes("count", "close") /\ UNCHANGED <<heldVars, inHand>>

(* Plausible bug: the handler returns without closing its side of the pipe. *)
CloseForgotten ==
    /\ Goes("close", "done") /\ UNCHANGED <<heldVars, inHand, counted>>

(* ... and closes its side of the pipe on return.                          *)
Close ==
    /\ at = "close" /\ at' = "done"
    /\ IF trunc = "undecided" THEN ReaderCloses ELSE UNCHANGED relayVars
    /\ UNCHANGED <<heldVars, answer, inHand, counted>>

Return == at = "done" /\ finish /\ UNCHANGED <<stream, relayVars, handlerVars>>

Handler ==
    \/ TakeAnswer \/ AnswerStatus \/ AnswerBody \/ ErrorStatus \/ ErrorType \/ ErrorText
    \/ CopyWrite \/ CopyFlush \/ CopyFails \/ CopyEnds \/ Count \/ Close \/ Return

-----------------------------------------------------------------------------
Writer == (Hold \/ Ticker \/ ClientLeaves) /\ UNCHANGED <<stream, relayVars, handlerVars>>

Next == Writer \/ Answered \/ RelayCopies \/ RelayEnds \/ Handler

Spec == Init /\ [][Next]_vars

(* Goroutines run; whatever an agent goes on sending, the request's        *)
(* deadline is an end of the source.                                       *)
FairSpec ==
    /\ Spec
    /\ WF_vars(Answered) /\ WF_vars(RelayEnds) /\ WF_vars(Handler)

-----------------------------------------------------------------------------
(* Properties.                                                             *)

TypeOK ==
    /\ stream \in BOOLEAN /\ pc \in {"hold", "left", "released", "ended"} /\ gone \in BOOLEAN
    /\ wire.status \in Codes \cup {0} /\ wire.headers \in {"none", "plain", "keepalive", "handler"}
    /\ ginStatus \in Codes \cup {Closed}
    /\ heldStatus \in Codes \cup {0, Closed} /\ set \in Codes \cup {0, Closed}
    /\ header \in {"plain", "keepalive", "handler"} /\ copy \in {"plain", "keepalive", "handler"}
    /\ committed \in BOOLEAN /\ started \in BOOLEAN /\ ticker \in {"none", "run", "exit"}
    /\ pos \in 0..Len(src) /\ end \in {"no", "eof", "error", "gone"} /\ left \in BOOLEAN
    /\ trunc \in {"undecided", "", "upstream_error", "missing_terminal"} /\ grown \in Nat
    /\ answer \in {"none", "stream", "json", "error"} /\ counted >= -1

OnWire == {wire.body[i] : i \in DOMAIN wire.body}
Data == OnWire \ {"ka", "error", "event"}
Got == SelectSeq(wire.body, LAMBDA p : p # "ka")
Streamed == answer = "stream" /\ set = OK

(* No keepalive follows the start of the answer, though the keepalive      *)
(* goroutine's timer and the handler's first write race.                   *)
KeepAlivesFirst ==
    \A i, j \in DOMAIN wire.body : i < j /\ wire.body[j] = "ka" => wire.body[i] = "ka"

(* A client can always tell an error from an answer, whoever sent the      *)
(* status: under an error status there is only the error body, under a     *)
(* stream's 200 an error is an SSE event, and an error has no data.        *)
ErrorsVisible ==
    /\ wire.status = Waking => OnWire \subseteq {"error"}
    /\ stream /\ wire.status = OK => "error" \notin OnWire
    /\ set = Waking => Data = {}

(* The status left for the audit log is the one the handler set, or 499    *)
(* for a client that left, also when a keepalive had already sent 200.     *)
Status == IF committed /\ heldStatus # 0 THEN heldStatus ELSE ginStatus
AuditStatus == pc = "ended" /\ set # 0 => Status = set

(* However the stream is cut into reads, the accounting receives the       *)
(* counts of the whole text, the reservation grows by exactly the tokens   *)
(* of the text it carried, and a handler that has copied the stream to its *)
(* end charges that count (SSETokenMeter, NewGrowthObserver,               *)
(* writeSuccessResponse).                                                  *)
Metered ==
    /\ trunc # "undecided" => tokens = Tokens(Reference) /\ grown = Reference.text \div 4
    /\ counted # -1 /\ ~gone => trunc # "undecided" /\ counted = tokens[2]

(* No silent partial answer: a client that stays receives the error frame  *)
(* exactly when the agent's side failed or the text read has events and no *)
(* terminal marker; otherwise it receives the text read, byte for byte,    *)
(* after the keepalives, under the backend's headers unless a keepalive    *)
(* has sent others.                                                        *)
Told ==
    Streamed /\ pc = "ended" /\ ~gone =>
      LET cut == end = "error" \/ (Reference.events /\ ~Reference.terminal) IN
      /\ cut <=> "E" \in OnWire
      /\ ~cut => Got = Read
      /\ wire.headers = IF "ka" \in OnWire THEN "keepalive" ELSE "handler"

(* What the client has is at every moment the beginning of the agent's     *)
(* text, except for the relay's own frame, which is an event of its own:   *)
(* what precedes it ends with a blank line, and no half line of the        *)
(* agent's text is in front of it, unless a line was longer than the relay *)
(* holds back (lineWriter, eventBoundary).                                 *)
FrameApart ==
    Streamed => \A i \in 1..Len(Got) :
      IF Got[i] = "E"
      THEN \/ i = 1
           \/ Got[i - 1] = "n" /\ i > 2 /\ Got[i - 2] = "n"
           \/ \E l \in 1..Len(Lines(src)) : Len(Lines(src)[l]) > MaxHeld
      ELSE \/ i <= pos /\ Got[i] = src[i]
           \/ trunc \notin {"undecided", ""}

(* A stream the handler has taken up ends, and with it the relay, which    *)
(* only then releases the agent's slot: also when the client leaves while  *)
(* the relay is blocked writing to the pipe.                               *)
Drained == (at = "status" /\ answer = "stream") ~> (trunc # "undecided" /\ pc = "ended")

(* Every stream ends its relay, as the comment on forwardToAgent says of   *)
(* the slot ("exactly once per forward on ALL paths").                     *)
SlotReleased == (answer = "stream") ~> (trunc # "undecided")
=============================================================================
