---------------------------- MODULE HeldResponse ----------------------------
(***************************************************************************)
(* The response of one held request: heldResponse, heldWriter and          *)
(* releasedWriter of internal/api/wake.go. During the hold the handler's   *)
(* goroutine sends keepalives itself; after the release a goroutine of its *)
(* own sends them until the response starts, while the rest of the handler *)
(* chain sets headers, status and body. releasedWriter.mu makes each of    *)
(* its operations one step.                                                *)
(*                                                                         *)
(* The writer of the HTTP framework is external: it records a status until *)
(* the first write, which sends the status and the headers. Module         *)
(* HeldStream adds the handler that writes the answer, and Next.           *)
(***************************************************************************)
EXTENDS Integers, Sequences, SequencesExt

CONSTANTS
    KeepAlive,      \* WakeConfig.KeepAlive > 0
    MaxKeepAlives   \* bound: keepalives sent

ASSUME KeepAliveAssumption == KeepAlive \in BOOLEAN /\ MaxKeepAlives \in Nat

OK == 200
Waking == 503
Closed == 499   \* statusClientClosedRequest
Codes == {OK, Waking}   \* what a handler may set; 503 stands for every error

VARIABLES
    stream,     \* heldResponse.stream: the client asked for an SSE stream
    pc,         \* "hold", "left" (a keepalive failed), "released", "ended"
    gone,       \* the client has left: writes may fail
    wire,       \* what was sent: status (0 for none), headers and body
    ginStatus,  \* the status the framework's writer has recorded
    header,     \* the framework's headers: the handler's, or a keepalive's
    copy,       \* releasedWriter.header
    committed,  \* heldResponse.committed: a heldWriter wraps the writer
    heldStatus, \* heldWriter.status, 0 for none
    started,    \* releasedWriter.started
    ticker,     \* the keepalive goroutine: "none", "run", "exit"
    set         \* the first status the handler set, 0 for none

heldVars == <<stream, pc, gone, wire, ginStatus, header, copy, committed, heldStatus,
              started, ticker, set>>

writerVars == <<wire, ginStatus, header, committed, heldStatus>>

HeldInit ==
    /\ stream \in BOOLEAN /\ pc = "hold" /\ gone = FALSE
    /\ wire = [status |-> 0, headers |-> "none", body |-> << >>]
    /\ ginStatus = OK /\ header = "plain" /\ copy = "plain"
    /\ committed = FALSE /\ heldStatus = 0
    /\ started = FALSE /\ ticker = "none"
    /\ set = 0

-----------------------------------------------------------------------------
(* The framework's writer (external). The first write sends the status and *)
(* the headers; a client that left receives nothing.                       *)
Sent(w, status, h, piece) ==
    IF gone THEN w
    ELSE [status  |-> IF w.status = 0 THEN status ELSE w.status,
          headers |-> IF w.status = 0 THEN h ELSE w.headers,
          body    |-> w.body \o piece]

ginWriteHeader(code) == IF wire.status = 0 THEN code ELSE ginStatus

(* Plausible bug: the error goes out as it is.                             *)
RawError == "error"

(* An error body after the 200 status is framed as an SSE event.           *)
errorBody == IF stream THEN "event" ELSE "error"

(* One keepalive on the inner writer; the first one sends the 200 status.  *)
(* To a client that left, the write fails or only fills a buffer.          *)
keepAliveOn ==
    /\ committed' = TRUE
    /\ header' = IF committed THEN header ELSE "keepalive"
    /\ ginStatus' = IF committed THEN ginStatus ELSE ginWriteHeader(OK)
    /\ wire' = Sent(wire, OK, header', <<"ka">>)
    /\ UNCHANGED heldStatus

KeepAlivesLeft == Len(SelectSeq(wire.body, LAMBDA x : x = "ka")) < MaxKeepAlives

(* WriteHeader and Write of the inner writer, a heldWriter once committed, *)
(* with the headers h in place.                                            *)
InnerWriteHeader(code) ==
    IF committed
    THEN /\ heldStatus' = IF heldStatus = 0 THEN code ELSE heldStatus
         /\ UNCHANGED <<ginStatus, wire>>
    ELSE /\ ginStatus' = ginWriteHeader(code)
         /\ UNCHANGED <<heldStatus, wire>>

InnerWrite(h, data) ==
    /\ wire' = Sent(wire, ginStatus, h,
                    IF committed /\ heldStatus >= 400 THEN <<errorBody>>
                    ELSE IF ~committed /\ ginStatus >= 400 THEN <<"error">> ELSE data)
    /\ UNCHANGED <<ginStatus, heldStatus>>

-----------------------------------------------------------------------------
(* The hold, on the handler's goroutine.                                   *)

HoldKeepAlive ==
    /\ pc = "hold" /\ KeepAlive /\ KeepAlivesLeft
    /\ keepAliveOn
    /\ pc' \in IF gone THEN {"hold", "left"} ELSE {"hold"}
    /\ UNCHANGED <<gone, copy, started, ticker, set>>

(* The hold ends as Gone: AbortWithStatus records 499 for the audit log.   *)
Abort ==
    /\ pc = "left" \/ (pc = "hold" /\ gone)
    /\ pc' = "ended" /\ set' = Closed
    /\ InnerWriteHeader(Closed)
    /\ UNCHANGED <<gone, header, committed, copy, started, ticker>>

(* The hold ends as Expired or Full: status, then body, through c.Writer.  *)
fail ==
    /\ pc = "hold"
    /\ pc' = "ended" /\ set' = Waking
    /\ IF committed
       THEN /\ heldStatus' = Waking /\ wire' = Sent(wire, OK, header, <<errorBody>>)
            /\ UNCHANGED ginStatus
       ELSE /\ ginStatus' = Waking /\ wire' = Sent(wire, Waking, header, <<"error">>)
            /\ UNCHANGED heldStatus
    /\ UNCHANGED <<gone, header, copy, committed, started, ticker>>

(* The hold ends as Woken: newReleasedWriter and keepAliveUntilStart.      *)
Release ==
    /\ pc = "hold"
    /\ pc' = "released" /\ copy' = header
    /\ ticker' = IF KeepAlive THEN "run" ELSE "none"
    /\ UNCHANGED <<gone, writerVars, started, set>>

-----------------------------------------------------------------------------
(* releasedWriter.                                                         *)

(* Plausible bug: keepAlive trusts the stop channel alone.                 *)
KeepAliveLate ==
    /\ ticker = "run" /\ KeepAlivesLeft
    /\ keepAliveOn /\ ticker' \in (IF gone THEN {"run", "exit"} ELSE {"run"})
    /\ UNCHANGED <<pc, gone, copy, started, set>>

(* The keepalive goroutine's timer, which may fire as stop is closed.      *)
keepAlive ==
    /\ ticker = "run" /\ (started \/ KeepAlivesLeft)
    /\ IF started THEN ticker' = "exit" /\ UNCHANGED writerVars
       ELSE keepAliveOn /\ ticker' \in IF gone THEN {"run", "exit"} ELSE {"run"}
    /\ UNCHANGED <<pc, gone, copy, started, set>>

TickerStops ==
    /\ ticker = "run" /\ (started \/ gone)
    /\ ticker' = "exit"
    /\ UNCHANGED <<pc, gone, writerVars, copy, started, set>>

(* start leaves the response started, the request out of the demand, and   *)
(* the handler's headers in place unless the status is already sent.       *)
start ==
    /\ started' = TRUE
    /\ header' = IF started \/ committed THEN header ELSE copy

SetHeader ==
    /\ pc = "released"
    /\ IF started THEN header' = "handler" /\ UNCHANGED copy
                  ELSE copy' = "handler" /\ UNCHANGED header
    /\ UNCHANGED <<pc, gone, wire, ginStatus, committed, heldStatus, started,
                   ticker, set>>

(* A handler sets its status once, before its first write or flush.        *)
WriteHeader(code) ==
    /\ pc = "released" /\ set = 0
    /\ start /\ InnerWriteHeader(code)
    /\ set' = code
    /\ UNCHANGED <<pc, gone, copy, committed, ticker>>

Write(data) ==
    /\ pc = "released"
    /\ start /\ InnerWrite(header', data)
    /\ set' = IF set = 0 THEN OK ELSE set
    /\ UNCHANGED <<pc, gone, copy, committed, ticker>>

(* Flush, or WriteHeaderNow: the status and the headers go out.            *)
Flush ==
    /\ pc = "released" /\ start
    /\ wire' = Sent(wire, ginStatus, header', << >>)
    /\ set' = (IF set = 0 THEN OK ELSE set)
    /\ UNCHANGED <<pc, gone, ginStatus, copy, committed, heldStatus, ticker>>

(* The deferred finish; the framework then sends a status of its own if    *)
(* nothing was written.                                                    *)
finish ==
    /\ pc = "released"
    /\ start
    /\ pc' = "ended"
    /\ wire' = Sent(wire, ginStatus, header', << >>)
    /\ UNCHANGED <<gone, ginStatus, copy, committed, heldStatus, ticker, set>>

ClientLeaves ==
    /\ ~gone /\ pc # "ended"
    /\ gone' = TRUE
    /\ UNCHANGED <<pc, writerVars, copy, started, ticker, set>>

-----------------------------------------------------------------------------
Hold == HoldKeepAlive \/ Abort \/ fail \/ Release
Ticker == keepAlive \/ TickerStops

=============================================================================
