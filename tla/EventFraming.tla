---------------------------- MODULE EventFraming ----------------------------
(***************************************************************************)
(* How the response observers of the protocol adapters cut a provider's    *)
(* server-sent event stream into events while it arrives in chunks of any  *)
(* size (Observe, drainEvents, compactSSEPrefix and Finalize, the same     *)
(* code in adapters/protocol/openairesponses, openaichat and               *)
(* anthropicmessages).  A byte is "x" (text), "n" (line feed) or "r"       *)
(* (carriage return); an event is the half-open range of the stream it     *)
(* occupies.                                                               *)
(***************************************************************************)
EXTENDS Naturals, Sequences

CONSTANTS MaxStream,   \* bound on the length of the streams tried
          MaxEvent     \* maximumSSEEvent

Bytes == {"x", "n", "r"}

VARIABLES stream,    \* the whole body the provider sends
          fed,       \* how much of it has arrived
          base,      \* how much of it has left the front of pending
          scan,      \* scanOffset, counted from the start of the stream
          line,      \* lineStart
          end,       \* eventEnd
          events,    \* the events observed
          status     \* "open", "error" or "done"

vars == <<stream, fed, base, scan, line, end, events, status>>

(***************************************************************************)
(* drainEvents, over the bytes that have arrived.                          *)
(***************************************************************************)
\* One pass of the loop: the cursor as a record, "stop" when bytes are missing.
Cursor == [start |-> base, scan |-> scan, line |-> line, end |-> end, events |-> events, status |-> "more"]

\* Slip: a carriage return at the end of a chunk ends its line at once.
EndingAtOnce(c, upto, eof) ==
    CASE stream[c.scan + 1] = "n" -> 1
      [] stream[c.scan + 1] = "r" /\ c.scan + 1 < upto /\ stream[c.scan + 2] = "n" -> 2
      [] OTHER -> 1

\* The length of the line ending at the cursor, 0 when the next byte decides.
EndingLength(c, upto, eof) ==
    CASE stream[c.scan + 1] = "n" -> 1
      [] stream[c.scan + 1] = "r" /\ c.scan + 1 = upto /\ ~eof -> 0
      [] stream[c.scan + 1] = "r" /\ c.scan + 1 < upto /\ stream[c.scan + 2] = "n" -> 2
      [] OTHER -> 1

\* Slip: the limit is compared with what is pending, line endings included.
TooLongWithEndings(c, after) == after - c.start > MaxEvent

\* The length of an event, without the line ending before its blank line.
TooLong(c, after) == c.end - c.start > MaxEvent

Step(c, upto, eof) ==
    LET ending == EndingLength(c, upto, eof)  after == c.scan + ending IN
    CASE stream[c.scan + 1] = "x" -> [c EXCEPT !.scan = @ + 1]
      [] stream[c.scan + 1] # "x" /\ ending = 0 -> [c EXCEPT !.status = "stop"]
      [] stream[c.scan + 1] # "x" /\ ending # 0 /\ c.scan = c.line ->
            IF TooLong(c, after) THEN [c EXCEPT !.status = "error"]
            ELSE [c EXCEPT !.events = Append(@, <<c.start, c.end>>), !.start = after, !.line = after, !.end = after, !.scan = after]
      [] OTHER -> [c EXCEPT !.end = c.scan, !.line = after, !.scan = after]

\* The loop runs until the bytes, or the event's limit, are used up.
RECURSIVE Drain(_, _, _)
Drain(c, upto, eof) == IF c.status = "more" /\ c.scan < upto THEN Drain(Step(c, upto, eof), upto, eof) ELSE c

\* Slip: one offset is left where it was.
CompactPartly(c) ==
    /\ base' = c.start /\ scan' = c.scan /\ line' = line /\ end' = c.end /\ events' = c.events

\* compactSSEPrefix keeps the offsets of what is still pending.
Compact(c) ==
    /\ base' = c.start /\ scan' = c.scan /\ line' = c.line /\ end' = c.end /\ events' = c.events

(***************************************************************************)
(* Observe and Finalize.                                                   *)
(***************************************************************************)
\* Slip: room for an event without its line endings.
NoRoomForEndings == MaxEvent

\* pending holds an event and the line endings that follow it.
Capacity == MaxEvent + 4

\* One turn of Observe's loop: as much of the chunk as there is room for.
Observe(n) ==
    /\ status = "open" /\ fed + n <= Len(stream)
    /\ n <= Capacity - (fed - base)
    /\ LET c == Drain(Cursor, fed + n, FALSE) IN
        /\ fed' = fed + n
        /\ Compact(c)
        /\ status' = IF c.status = "error" THEN "error" ELSE "open"
    /\ UNCHANGED stream

\* Slip: the loop waits for room.
WaitForRoom == FALSE

\* "upstream SSE event exceeds limit": bytes are left and there is no room.
Overflow ==
    /\ status = "open" /\ fed < Len(stream) /\ Capacity - (fed - base) <= 0
    /\ status' = "error"
    /\ UNCHANGED <<stream, fed, base, scan, line, end, events>>

\* Slip: what is left over is dropped.
LeftoverDropped(c) == TRUE

\* "upstream SSE stream ended with an incomplete event".
NothingLeft(c) == c.start = fed

\* Finalize: what is pending must end with an event.
Finalize ==
    /\ status = "open" /\ fed = Len(stream)
    /\ LET c == Drain(Cursor, fed, TRUE) IN
        /\ Compact(c)
        /\ status' = IF c.status = "error" \/ ~NothingLeft(c) THEN "error" ELSE "done"
    /\ UNCHANGED <<stream, fed>>

Streams == UNION {[1..n -> Bytes] : n \in 0..MaxStream}

Init ==
    /\ stream \in Streams
    /\ fed = 0 /\ base = 0 /\ scan = 0 /\ line = 0 /\ end = 0 /\ events = <<>> /\ status = "open"

Next == \/ \E n \in 1..MaxStream : Observe(n)
        \/ Overflow
        \/ Finalize

Spec == Init /\ [][Next]_vars /\ WF_vars(Next)

(***************************************************************************)
(* What a reader of the whole stream would see.                            *)
(***************************************************************************)
\* Where lines end: their first byte after, for every line ending.
LineEndings == {i \in 1..Len(stream) : stream[i] = "n" \/ (stream[i] = "r" /\ (i = Len(stream) \/ stream[i + 1] # "n"))}
\* The first byte of the line ending that ends at byte i.
EndingStart(i) == IF stream[i] = "n" /\ i > 1 /\ stream[i - 1] = "r" THEN i - 1 ELSE i
Starts == {0} \cup LineEndings
\* Line endings that end a blank line: nothing between them and the line before.
Blanks == {i \in LineEndings : EndingStart(i) - 1 \in Starts}
\* An event lies between a blank line, or the beginning, and the next blank line.
EventAt(i) ==
    LET before == {j \in Blanks : j < i}
        from == IF before = {} THEN 0 ELSE CHOOSE j \in before : \A k \in before : k <= j
        inner == {j \in LineEndings : from < j /\ j < i}
        last == IF inner = {} THEN from ELSE (CHOOSE j \in inner : \A k \in inner : k <= j)
    IN <<from, IF inner = {} THEN from ELSE EndingStart(last) - 1>>

(***************************************************************************)
(* Properties.                                                             *)
(***************************************************************************)
\* Offsets stay in order within what has arrived, and what is pending never
\* outgrows an event with its line endings.
TypeOK == /\ base <= line /\ line <= scan /\ scan <= fed /\ base <= end /\ end <= scan
          /\ fed - base <= Capacity /\ status \in {"open", "error", "done"}

\* The events observed are those of the stream as a whole, in order, however it
\* was cut into chunks, also between a carriage return and its line feed.
SameEventsAnyChunks ==
    \A k \in 1..Len(events) :
        \E i \in Blanks : events[k] = EventAt(i) /\ k = Len(SelectSeq([j \in 1..i |-> j], LAMBDA j : j \in Blanks))

\* A stream that was accepted ended with a blank line and every event of it was
\* observed; none was longer than the limit.
AcceptedIsComplete ==
    status = "done" => /\ Len(events) = Len(SelectSeq([j \in 1..Len(stream) |-> j], LAMBDA j : j \in Blanks))
                       /\ Len(stream) > 0 => Len(stream) \in Blanks
                       /\ \A k \in 1..Len(events) : events[k][2] - events[k][1] <= MaxEvent

\* A stream is refused only when an event is too long or the last is incomplete:
\* room for line endings never runs out before an event within the limit ends.
RefusedForCause ==
    status = "error" => \/ Len(stream) > 0 /\ Len(stream) \notin Blanks
                        \/ \E i \in Blanks : EventAt(i)[2] - EventAt(i)[1] > MaxEvent

\* Every stream is accepted or refused: Observe always takes bytes or fails.
Ends == <>(status # "open")
=============================================================================
