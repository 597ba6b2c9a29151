-------------------------- MODULE ResponseObservers --------------------------
(***************************************************************************)
(* What the gateway concludes from a provider's event stream: the usage it *)
(* settles with, whether the response completed, and when the first token  *)
(* came (observeEvent and Finalize of the observers in adapters/protocol/  *)
(* anthropicmessages, openairesponses and openaichat).  The provider sends *)
(* any events in any order; the history it made is kept beside the         *)
(* observer, and the properties compare the two.                           *)
(***************************************************************************)
EXTENDS Naturals, FiniteSets

CONSTANTS Protocol,    \* "anthropic", "responses" or "chat"
          MaxTokens,   \* bound on the token counts reported
          MaxInt,      \* the largest integer of the usage's type
          MaxEvents    \* maximumSSEEvents, and a bound where there is none

VARIABLES o,         \* the observer
          sent,      \* what the provider has sent so far
          result     \* what Finalize returned

vars == <<o, sent, result>>

(***************************************************************************)
(* Usage.                                                                  *)
(***************************************************************************)
Unknown == [known |-> FALSE, in |-> 0, out |-> 0, total |-> 0]
Known(i, n) == [known |-> TRUE, in |-> i, out |-> n, total |-> i + n]

\* Reports in an event: none, unusable ones, with counts missing, or whole.
Counts == 0..MaxTokens
Report(kind, i, n, t) == [kind |-> kind, in |-> i, out |-> n, total |-> t]
NoReport == Report("absent", 0, 0, 0)
BadReport == Report("bad", 0, 0, 0)
Whole == {Report("whole", i, n, t) : i, n \in Counts, t \in 0..(2 * MaxTokens)}
Sums == {r \in Whole : r.total = r.in + r.out}

\* Slip: a total that is not the sum is taken as it is.
AnySum(r) == TRUE

\* input > MaxInt64 - output, and total = input + output.
Consistent(r) == r.in + r.out <= MaxInt /\ r.total = r.in + r.out

\* usageFromResponseObject and usageFromValue: unknown when a count is missing.
UsageOf(r) == IF r.kind = "whole" THEN [Known(r.in, r.out) EXCEPT !.total = r.total] ELSE Unknown
UsageFails(r) == r.kind = "bad" \/ (r.kind = "whole" /\ ~Consistent(r))

(***************************************************************************)
(* Events.                                                                 *)
(***************************************************************************)
Event(type, named, report, token, failed) == [type |-> type, named |-> named, report |-> report, token |-> token, failed |-> failed]

Other == {Event("comment", "yes", NoReport, FALSE, FALSE), Event("garbage", "yes", NoReport, FALSE, FALSE)}
AnthropicEvents ==
    Other \cup {Event("message_start", "yes", r, FALSE, FALSE) : r \in Sums \cup {NoReport, BadReport}}
          \cup {Event("message_delta", "yes", r, FALSE, FALSE) : r \in Sums \cup {NoReport, BadReport} \cup {Report("output", 0, n, 0) : n \in Counts}}
          \cup {Event("content_block_delta", n, NoReport, t, FALSE) : n \in {"yes", "no", "other"}, t \in BOOLEAN}
          \cup {Event(e, "yes", NoReport, FALSE, FALSE) : e \in {"message_stop", "ping", "error"}}
ResponsesEvents ==
    Other \cup {Event("completed", n, r, FALSE, f) : n \in {"yes", "no", "other"}, r \in Whole \cup {NoReport, BadReport}, f \in BOOLEAN}
          \cup {Event(e, "yes", r, FALSE, TRUE) : e \in {"failed", "incomplete"}, r \in Whole \cup {NoReport}}
          \cup {Event("delta", "yes", NoReport, t, FALSE) : t \in BOOLEAN}
          \cup {Event("error", "yes", NoReport, FALSE, TRUE), Event("done", "no", NoReport, FALSE, FALSE)}
ChatEvents ==
    Other \cup {Event("chunk", "no", r, t, f) : r \in Whole \cup {NoReport, BadReport}, t, f \in BOOLEAN}
          \cup {Event("done", "no", NoReport, FALSE, FALSE)}
Events == CASE Protocol = "anthropic" -> AnthropicEvents
            [] Protocol = "responses" -> ResponsesEvents
            [] Protocol = "chat" -> ChatEvents

(***************************************************************************)
(* The observers.                                                          *)
(***************************************************************************)
NewObserver == [start |-> FALSE, delta |-> FALSE, done |-> FALSE, sentinel |-> FALSE, found |-> FALSE, failed |-> FALSE,
                token |-> FALSE, in |-> 0, out |-> 0, usage |-> Unknown, events |-> 0, broken |-> FALSE]
Refused == [o EXCEPT !.broken = TRUE]
Counted == [o EXCEPT !.events = @ + 1]

\* Slip: usage that goes down replaces what was reported.
AnyUsage(r) == r.kind \in {"whole", "output"}

\* message_delta: output tokens are there, and nothing decreases.
Grows(r) == r.kind \in {"whole", "output"} /\ r.out >= o.out /\ (r.kind = "whole" => r.in >= o.in)

\* Slip: the stream may stop without its final usage.
StopsAnytime == TRUE

\* message_stop needs the usage of a message_delta, and its total must fit.
MayStop == o.delta /\ o.in + o.out <= MaxInt

\* Slip: only the latest event counts.
TokenNow(e) == e.token

\* anthropicDeltaContainsToken, responseEventContainsToken and chatValueContainsToken.
TokenSeen(e) == o.token \/ e.token

\* Slip: the end of the stream is not remembered.
NeverEnded == FALSE

\* message_stop or [DONE] has been seen.
Ended == o.done

\* Slip: an error event is skipped like one that is not known.
OnlyGarbage(e) == e.type = "garbage"

\* Data that is not JSON, or reports an error.
Fatal(e) == e.type \in {"garbage", "error"}

ObserveAnthropic(e) ==
    IF Ended \/ o.events >= MaxEvents THEN Refused
    ELSE IF e.type = "comment" THEN Counted
    ELSE IF Fatal(e) \/ e.named # "yes" THEN Refused
    ELSE IF ~o.start /\ e.type # "message_start" THEN Refused
    ELSE IF e.type = "message_start"
    THEN IF o.start \/ e.report.kind # "whole" \/ e.report.in + e.report.out > MaxInt THEN Refused
         ELSE [Counted EXCEPT !.start = TRUE, !.in = e.report.in, !.out = e.report.out]
    ELSE IF e.type = "content_block_delta" THEN [Counted EXCEPT !.token = TokenSeen(e)]
    ELSE IF e.type = "message_delta"
    THEN IF ~Grows(e.report) THEN Refused
         ELSE [Counted EXCEPT !.delta = TRUE, !.out = e.report.out, !.in = IF e.report.kind = "whole" THEN e.report.in ELSE @]
    ELSE IF e.type = "message_stop"
    THEN IF MayStop THEN [Counted EXCEPT !.done = TRUE, !.usage = Known(o.in, o.out)] ELSE Refused
    ELSE Counted

\* Slip: a response that ended is taken for one that completed.
EndIsCompletion(e) == FALSE

\* A terminal event, or its response, that says the generation did not complete.
NotCompleted(e) == e.type # "completed" \/ e.failed

\* Slip: events after the terminal one are ignored.
LateIgnored == FALSE

\* Data after the end: only one unnamed [DONE].
LateRefused == o.done

ObserveResponses(e) ==
    IF o.events >= MaxEvents THEN Refused
    ELSE IF e.type = "comment" THEN Counted
    ELSE IF LateRefused
    THEN IF ~o.sentinel /\ e.type = "done" THEN [Counted EXCEPT !.sentinel = TRUE] ELSE Refused
    ELSE IF e.type \in {"garbage", "done"} \/ e.named = "other" THEN Refused
    ELSE IF e.type = "error" THEN [Counted EXCEPT !.done = TRUE, !.usage = Unknown, !.failed = TRUE]
    ELSE IF e.type = "delta" THEN [Counted EXCEPT !.token = TokenSeen(e)]
    ELSE IF UsageFails(e.report) THEN Refused
    ELSE [Counted EXCEPT !.done = TRUE, !.usage = UsageOf(e.report), !.failed = NotCompleted(e)]

\* Slip: a chunk after the usage chunk is taken too.
AnyChunk == TRUE

\* Nothing but [DONE] follows the usage chunk or a failure.
ChunkExpected == ~o.failed /\ ~o.found

\* Slip: a chunk with an error is an ordinary chunk.
NoFailure(e) == FALSE

\* root["error"].
Failure(e) == e.failed

ObserveChat(e) ==
    IF Ended THEN Refused
    ELSE IF e.type = "comment" THEN Counted
    ELSE IF e.type = "done" THEN [Counted EXCEPT !.done = TRUE]
    ELSE IF ~ChunkExpected \/ e.type = "garbage" \/ UsageFails(e.report) THEN Refused
    ELSE IF Failure(e) THEN [Counted EXCEPT !.usage = UsageOf(e.report), !.failed = TRUE]
    ELSE [Counted EXCEPT !.token = TokenSeen(e),
                         !.usage = IF UsageOf(e.report).known THEN UsageOf(e.report) ELSE @,
                         !.found = @ \/ UsageOf(e.report).known]

\* A chunk arrives and one event of it is observed.
ObserveEvent(e) ==
    /\ result = "none" /\ ~o.broken /\ sent.count < MaxEvents + 1
    /\ o' = CASE Protocol = "anthropic" -> ObserveAnthropic(e)
              [] Protocol = "responses" -> ObserveResponses(e)
              [] Protocol = "chat" -> ObserveChat(e)
    /\ sent' = [count |-> sent.count + 1,
                token |-> sent.token \/ (e.token /\ ~e.failed /\ e.named # "other"),
                failed |-> sent.failed \/ e.failed \/ e.type = "error",
                terminal |-> sent.terminal + (IF e.type \in {"message_stop", "completed", "failed", "incomplete", "error"}
                                                 \/ (Protocol = "chat" /\ e.type = "done") THEN 1 ELSE 0),
                after |-> sent.after \/ (sent.terminal > 0 /\ e.type \notin {"comment", "done"}),
                most |-> IF e.report.kind \in {"whole", "output"} /\ e.report.out > sent.most THEN e.report.out ELSE sent.most,
                last |-> IF e.report.kind = "whole" THEN e.report ELSE sent.last,
                partial |-> sent.partial \/ e.report.kind = "output"]
    /\ UNCHANGED result

\* Finalize of the three observers, once the body ended without an error.
Complete == IF Protocol = "chat" THEN o.done \/ o.failed ELSE o.done

Finalize ==
    /\ result = "none" /\ ~o.broken
    /\ result' = CASE ~Complete -> "malformed"
                   [] Complete /\ o.failed -> "failed"
                   [] Complete /\ ~o.failed -> "ok"
    /\ UNCHANGED <<o, sent>>

Init ==
    /\ o = NewObserver
    /\ sent = [count |-> 0, token |-> FALSE, failed |-> FALSE, terminal |-> 0, after |-> FALSE, most |-> 0, last |-> NoReport, partial |-> FALSE]
    /\ result = "none"

Next == (\E e \in Events : ObserveEvent(e)) \/ Finalize

Spec == Init /\ [][Next]_vars

(***************************************************************************)
(* Properties.                                                             *)
(***************************************************************************)
Returned == result \in {"ok", "failed"}

\* Known usage adds up within the integers, and a refused stream returns nothing.
TypeOK == /\ o.usage.known => o.usage.total = o.usage.in + o.usage.out /\ o.usage.total <= MaxInt
          /\ o.broken => result = "none"
          /\ o.events <= sent.count

\* A response is reported complete only when the provider ended it and reported
\* no failure, in any event (the observers' terminalErr and error events).
OkMeansCompleted == result = "ok" => ~sent.failed /\ sent.terminal = 1

\* The usage returned is the provider's last word and never less than it
\* reported on the way: nothing that was counted goes unsettled.
UsageNotUnderstated ==
    Returned /\ o.usage.known => /\ o.usage.out >= sent.most
                                 /\ ~sent.partial => o.usage.in = sent.last.in /\ o.usage.out = sent.last.out

\* Nothing follows the end of an accepted stream but comments and one sentinel.
NothingAfterEnd == Returned => ~sent.after

\* The first token is noted exactly when an event that is not itself a failure
\* carried one (time to first token).
FirstTokenFaithful == Returned => (o.token <=> sent.token)
=============================================================================
