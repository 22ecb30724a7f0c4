----------------------------- MODULE StreamRelay -----------------------------
(***************************************************************************)
(* The relay of one streamed answer from an agent to its client:           *)
(* drainStream and lineWriter in internal/router/processor.go, and the     *)
(* SSETokenMeter that reads a copy of the stream on the way                *)
(* (internal/router/stream_token_meter.go).                                *)
(*                                                                         *)
(* A stream is a sequence of pieces; a read returns any number of them, so *)
(* lines and events arrive cut anywhere.  "n" is a newline and "d" starts  *)
(* a data line.  What follows in the line is what the meter tells apart:   *)
(* "c" a chunk with text, "f" one with a finish reason, "u" a usage object *)
(* "D" [DONE], and for the Anthropic dialect "s" message_start with its    *)
(* usage, "m" message_delta with its usage, "e" message_stop.  A data line *)
(* without its end is not JSON.  "E" is the frame the relay itself adds.   *)
(***************************************************************************)
EXTENDS Integers, Sequences, SequencesExt

CONSTANTS Streams,      \* what agents send
          MaxHeld,      \* maxHeldLine, in pieces
          TextBytes,    \* bytes of text in a "c" piece
          Prompt,       \* prompt tokens: what usage objects report
          Estimate,     \* prompt tokens estimated from the request
          Total         \* output tokens: what usage objects report

VARIABLES src,          \* the agent's stream
          pos,          \* how much of it was read
          end,          \* how reading ended: "no", "eof", "error" (srcErr), "gone" (copyErr)
          left,         \* the handler has closed the pipe
          meter,        \* the token meter
          grown,        \* tokens added to the reservation (Grow)
          held,         \* the partial line held back by lineWriter
          sent,         \* what the handler received
          trunc,        \* truncReason, once decided
          tokens        \* what the accounting was given

relayVars == <<src, pos, end, left, meter, grown, held, sent, trunc, tokens>>

NoTokens == <<-1, -1>>

EmptyMeter ==
  [buf |-> <<>>, events |-> FALSE, terminal |-> FALSE, usage |-> FALSE,
   prompt |-> 0, completion |-> 0, text |-> 0]

RelayInit ==
  /\ src \in Streams
  /\ pos = 0 /\ end = "no" /\ left = FALSE
  /\ meter = EmptyMeter /\ grown = 0
  /\ held = <<>> /\ sent = <<>>
  /\ trunc = "undecided" /\ tokens = NoTokens

-----------------------------------------------------------------------------
(* The token meter.                                                        *)

\* The position of the last newline of s, 0 when there is none.
LastNewline(s) == LET at == {i \in 1..Len(s) : s[i] = "n"} IN
  IF at = {} THEN 0 ELSE CHOOSE i \in at : \A j \in at : j <= i

\* The lines of s, a partial last one included, without their newlines.
Lines(s) ==
  FoldLeft(LAMBDA ls, x : IF x = "n" THEN Append(ls, <<>>)
                          ELSE [ls EXCEPT ![Len(ls)] = Append(@, x)],
           <<<<>>>>, s)

Marks(line) == IF Len(line) > 1 /\ Head(line) = "d" THEN {line[i] : i \in 2..Len(line)} ELSE {}

parseLine(m, line) ==
  LET has(x) == x \in Marks(line)
      completion == IF has("u") THEN Total ELSE m.completion
  IN [m EXCEPT
       !.events = @ \/ \E x \in {"c", "f", "D", "s", "m", "e"} : has(x),
       !.terminal = @ \/ \E x \in {"f", "D", "e"} : has(x),
       !.usage = @ \/ has("u") \/ has("s"),
       !.prompt = IF has("u") \/ has("s") THEN Prompt ELSE @,
       !.completion = IF has("m") /\ Total > completion THEN Total ELSE completion,
       !.text = @ + (IF has("c") THEN TextBytes ELSE 0)]

\* Write: parse every whole line of the buffer and the new pieces, keep the rest.
MeterWrite(m, p) ==
  LET data == m.buf \o p
      k == LastNewline(data)
  IN [FoldLeft(parseLine, m, Lines(SubSeq(data, 1, k))) EXCEPT !.buf = SubSeq(data, k + 1, Len(data))]

MutantMeterFlush(m) == [m EXCEPT !.buf = <<>>]
MeterFlush(m) == [parseLine(m, m.buf) EXCEPT !.buf = <<>>]

\* The reservation grows with the tokens of the text so far, four bytes each.
MutantGrowth(before, after) == (after - before) \div 4
Growth(before, after) == after \div 4 - before \div 4

\* Exact counts when the stream carried them, estimates otherwise.
Tokens(m) == IF m.usage THEN <<m.prompt, m.completion>> ELSE <<Estimate, m.text \div 4>>

-----------------------------------------------------------------------------
(* The line writer.                                                        *)

\* What is forwarded of held and the new pieces p, and what is held back.
Forwarded(h, p) ==
  LET all == h \o p IN
  IF LastNewline(p) > 0 THEN SubSeq(all, 1, Len(h) + LastNewline(p))
  ELSE IF Len(all) > MaxHeld THEN all ELSE <<>>

HeldBack(h, p) == SubSeq(h \o p, Len(Forwarded(h, p)) + 1, Len(h) + Len(p))

\* What must come before a new event: nothing at the start or after a blank
\* line, a newline otherwise.
MutantBoundary(s) == <<>>
eventBoundary(s) ==
  IF s = <<>> \/ (Len(s) >= 2 /\ s[Len(s)] = "n" /\ s[Len(s) - 1] = "n") THEN <<>> ELSE <<"n">>

-----------------------------------------------------------------------------
(* drainStream.                                                            *)

\* One turn of io.Copy: k pieces are read, metered, and written as far as
\* whole lines go.  A write to a client that has left ends the copy.
Copy(k) ==
  /\ end = "no" /\ pos + k <= Len(src)
  /\ LET p == SubSeq(src, pos + 1, pos + k)
         out == Forwarded(held, p)
         m == MeterWrite(meter, p)
     IN /\ meter' = m
        /\ grown' = grown + Growth(meter.text, m.text)
        /\ \/ /\ out # <<>> /\ left
              /\ end' = "gone" /\ UNCHANGED <<held, sent>>
           \/ /\ out = <<>> \/ ~left
              /\ held' = HeldBack(held, p)
              /\ sent' = sent \o out
              /\ UNCHANGED end
  /\ pos' = pos + k
  /\ UNCHANGED <<src, left, trunc, tokens>>

\* The agent's side ends: cleanly, at the end of the stream or before it, or
\* with a read error.
SourceEnds(how) ==
  /\ end = "no"
  /\ end' = how
  /\ UNCHANGED <<src, pos, left, meter, grown, held, sent, trunc, tokens>>

ReaderCloses ==
  /\ ~left /\ trunc = "undecided"
  /\ left' = TRUE
  /\ UNCHANGED <<src, pos, end, meter, grown, held, sent, trunc, tokens>>

Reason(m) ==
  IF end = "error" THEN "upstream_error"
  ELSE IF end # "gone" /\ m.events /\ ~m.terminal THEN "missing_terminal" ELSE ""

\* After the copy: the last line is metered; a complete stream gets its held
\* line, a truncated one the error frame; then the tokens are accounted.
Finish ==
  /\ end # "no" /\ trunc = "undecided"
  /\ LET m == MeterFlush(meter) IN
     /\ meter' = m
     /\ grown' = grown + Growth(meter.text, m.text)
     /\ trunc' = Reason(m)
     /\ tokens' = Tokens(m)
     /\ sent' = IF left THEN sent
                ELSE IF Reason(m) # "" THEN sent \o eventBoundary(sent) \o <<"E", "n", "n">>
                ELSE IF end # "gone" THEN sent \o held ELSE sent
  /\ held' = <<>>
  /\ UNCHANGED <<src, pos, end, left>>

-----------------------------------------------------------------------------
(* The text read so far, taken apart at once: the reference for what the   *)
(* relay does piece by piece.                                              *)

Read == SubSeq(src, 1, pos)
Reference == FoldLeft(parseLine, EmptyMeter, Lines(Read))

=============================================================================
