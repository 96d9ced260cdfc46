---------------------------- MODULE StreamedCall ----------------------------
(***************************************************************************)
(* One logical request to a model: LLMClient.complete (client.py) over a   *)
(* streaming provider (providers/openai_compat.py), up to the action that  *)
(* is decoded from the answer.  The provider sends any events in any       *)
(* order, several tool calls, the wrong model, no usage; the connection    *)
(* ends, is cut or breaks anywhere; the deadline or an interrupt comes.    *)
(*                                                                         *)
(* The arguments of a tool call, and a JSON text, have two halves: JSON is *)
(* whole if the first half and the second are there, in this order.  What  *)
(* the campaign records of a call is CampaignLedger's.                     *)
(***************************************************************************)
EXTENDS Naturals, Sequences

CONSTANTS MaxEvents   \* events of a first answer before its last one (a bound)

ASSUME EventsAssumption == MaxEvents \in Nat \ {0}

VARIABLES format,   \* action_format
          serves,   \* the model that the events of this attempt name
          sent,     \* the events of this attempt, as they came
          parsed,   \* what _parse_chat_stream makes of them
          ending,   \* how its stream has ended
          calls,    \* the attempts: state, and whether all that was seen is kept
          failure,  \* the class of the last failure
          outcome,  \* "action", "no action", "error", or "none" so far
          action,   \* the halves of the action that is executed
          callAt

callVars == <<format, serves, sent, parsed, ending, calls, failure, outcome, action, callAt>>

-----------------------------------------------------------------------------
Whole == <<"first", "second">>
Halves == {"first", "second"}

\* Parts of the text that an event brings.
Parts == {<<"first">>, <<"second">>, Whole}

\* Fragments of one call, with its id or without, of a second one, and one
\* that changes the id of the first.
Deltas == [kind : {"tool"}, index : {0}, id : {"none", "a"}, part : Parts]
          \cup [kind : {"tool"}, index : {0}, id : {"b"}, part : {<<"second">>}]
          \cup [kind : {"tool"}, index : {1}, id : {"a"}, part : {<<"second">>, Whole}]
Texts == [kind : {"text"}, part : Parts]
Finishes == [kind : {"finish"}, reason : {"stop", "length"}]

\* Usage is measured, inconsistent, or measured and beyond every price tier.
Usages == [kind : {"usage"}, usage : {"ok", "bad", "beyond"}]
Others == [kind : {"malformed", "renamed", "done"}]

Common == Finishes \cup Usages \cup Others
Events == Deltas \cup Texts \cup Common

\* What the decoder reads; it ignores content of the other format (a bound).
Answers == (IF format = "tool_calls" THEN Deltas ELSE Texts) \cup Common

\* Nothing parsed so far; of a tool call its id and its joined arguments.
NoTool == [seen |-> FALSE, id |-> "none", halves |-> <<>>]

NothingParsed == [error |-> "none", done |-> FALSE, finish |-> "none",
                  usage |-> "none", text |-> <<>>, tools |-> [i \in 0..1 |-> NoTool]]

Tools == [seen : BOOLEAN, id : {"none", "a", "b"}, halves : Seq(Halves)]

Results == [error : {"none", "malformed_stream", "identity", "usage"}, done : BOOLEAN,
            finish : {"none", "stop", "length"}, usage : {"none", "ok", "beyond"},
            text : Seq(Halves), tools : [0..1 -> Tools]]

CallTypeOK ==
    /\ format \in {"json_object", "tool_calls"}
    /\ serves \in {"none", "asked", "other"} /\ sent \in Seq(Events)
    /\ ending \in {"open", "closed", "cut", "broken", "refused", "stopped"}
    /\ parsed \in Results
    /\ calls \in Seq([state : {"pending", "settled", "failed"}, kept : BOOLEAN])
    /\ failure \in {"none", "transport", "server", "http_request", "malformed_stream", "identity",
                    "usage", "stopped", "late", "unclosed"}
    /\ outcome \in {"none", "action", "no action", "error"} /\ action \in Seq(Halves)
    /\ callAt \in {"reserve", "try", "stream", "parse", "price", "settle", "decode", "sleep", "end"}

CallInit ==
    /\ format \in {"json_object", "tool_calls"}
    /\ serves = "asked" /\ sent = <<>> /\ parsed = NothingParsed /\ ending = "open"
    /\ calls = <<>> /\ failure = "none" /\ outcome = "none" /\ action = <<>>
    /\ callAt = "reserve"

-----------------------------------------------------------------------------
(* The loop of _parse_chat_stream over the events.                         *)

\* An id may come once; the fragments of a call are joined in their order.
WithTool(p, e) ==
    LET tool == p.tools[e.index] IN
    IF e.id # "none" /\ tool.id # "none" /\ e.id # tool.id
    THEN [p EXCEPT !.error = "malformed_stream"]
    ELSE [p EXCEPT !.tools[e.index] = [seen |-> TRUE, id |-> IF e.id = "none" THEN tool.id ELSE e.id,
                                       halves |-> tool.halves \o e.part]]

WithUsage(p, e) ==
    IF e.usage = "bad" THEN [p EXCEPT !.error = "usage"] ELSE [p EXCEPT !.usage = e.usage]

WithEvent(p, e) ==
    CASE e.kind = "done" -> [p EXCEPT !.done = TRUE]
      [] e.kind = "malformed" -> [p EXCEPT !.error = "malformed_stream"]
      [] e.kind = "renamed" -> [p EXCEPT !.error = "identity"]
      [] e.kind = "text" -> [p EXCEPT !.text = @ \o e.part]
      [] e.kind = "tool" -> WithTool(p, e)
      [] e.kind = "finish" -> [p EXCEPT !.finish = e.reason]
      [] e.kind = "usage" -> WithUsage(p, e)

\* _sse_events: an event that was cut off makes the stream malformed, unless
\* [DONE] came before it.
Parsed ==
    IF ending = "cut" /\ ~parsed.done /\ parsed.error = "none"
    THEN [parsed EXCEPT !.error = "malformed_stream"] ELSE parsed

\* Mutant of StreamError: [DONE] is not waited for.
StreamErrorEarly(p) ==
    IF p.error # "none" THEN p.error
    ELSE IF p.usage = "none" THEN "usage"
    ELSE IF p.finish = "none" THEN "malformed_stream"
    ELSE IF serves # "asked" THEN "identity" ELSE "none"

StreamError(p) ==
    IF p.error # "none" THEN p.error
    ELSE IF ~p.done THEN "malformed_stream"
    ELSE IF p.usage = "none" THEN "usage"
    ELSE IF p.finish = "none" THEN "malformed_stream"
    ELSE IF serves # "asked" THEN "identity" ELSE "none"

-----------------------------------------------------------------------------
(* decode_action.                                                          *)

Decoded(p) ==
    LET Proper(halves) == IF halves = Whole THEN halves ELSE <<>>
        tools == {i \in 0..1 : p.tools[i].seen} IN
    IF p.finish = "length" THEN <<>>
    ELSE IF format = "json_object" THEN Proper(p.text)
    ELSE IF \E i \in tools : tools = {i} /\ p.tools[i].id # "none"
         THEN Proper(p.tools[CHOOSE i \in tools : TRUE].halves) ELSE <<>>

-----------------------------------------------------------------------------
(* LLMClient.complete.                                                     *)

Proceed(from, to) == callAt = from /\ callAt' = to

CloseCall(state, kept) == calls' = [calls EXCEPT ![Len(calls)] = [state |-> state, kept |-> kept]]

Retryable(class) == class \in {"transport", "server"}

MayRetry(class) == Retryable(class) /\ Len(calls) < 3

\* fail_call, with what was observed; then a retry, or the exception goes on.
Fail(class, kept) ==
    /\ CloseCall("failed", kept)
    /\ failure' = class
    /\ IF MayRetry(class) THEN callAt' = "sleep" /\ UNCHANGED outcome
       ELSE callAt' = "end" /\ outcome' = "error"
    /\ sent' = <<>> /\ parsed' = NothingParsed
    /\ UNCHANGED <<format, serves, action>>

\* The call is pending from here on, the try begins a little later.
ReserveCall ==
    /\ Proceed("reserve", "try")
    /\ calls' = Append(calls, [state |-> "pending", kept |-> FALSE])
    /\ sent' = <<>> /\ parsed' = NothingParsed /\ ending' = "open" /\ failure' = "none"
    /\ UNCHANGED <<format, serves, outcome, action>>

Try ==
    /\ Proceed("try", "stream")
    /\ UNCHANGED <<format, serves, sent, parsed, ending, calls, failure, outcome, action>>

\* An attempt after the first has one event less (a bound).
Bound == IF Len(calls) = 1 THEN MaxEvents ELSE MaxEvents - 1

\* The provider; after [DONE] or an event that is refused anything is ignored.
\* What the parser makes of the events so far is read once the stream has ended.
SendEvent ==
    /\ callAt = "stream"
    /\ parsed.error = "none" /\ ~parsed.done
    /\ \E e \in Answers : /\ Len(sent) < Bound \/ (Len(sent) = Bound /\ e.kind = "done")
                          /\ sent' = Append(sent, e) /\ parsed' = WithEvent(parsed, e)
    /\ UNCHANGED <<format, serves, ending, calls, failure, outcome, action, callAt>>

StreamEnds ==
    /\ Proceed("stream", "parse")
    /\ ending' \in {"closed", "cut"} /\ serves' \in {"none", "asked", "other"}
    /\ UNCHANGED <<format, sent, parsed, calls, failure, outcome, action>>

\* A timeout or a network error: what came before is kept, nothing is parsed.
StreamBreaks ==
    /\ callAt = "stream" /\ ending' = "broken"
    /\ Fail("transport", TRUE)

\* A status that is no success: 429 and 5xx may be tried again.
Refused ==
    /\ callAt = "stream" /\ sent = <<>> /\ ending' = "refused"
    /\ \E class \in {"server", "http_request"} : Fail(class, TRUE)

Parse ==
    /\ callAt = "parse"
    /\ LET error == StreamError(Parsed) IN
       IF error = "none"
       THEN Proceed("parse", "price") /\ UNCHANGED <<format, serves, sent, parsed, calls, failure, outcome, action>>
       ELSE Fail(error, TRUE)
    /\ UNCHANGED ending

\* The measured usage is priced; here the try ends.
Price ==
    /\ callAt = "price"
    /\ IF parsed.usage = "beyond" THEN Fail("usage", TRUE)
       ELSE Proceed("price", "settle") /\ UNCHANGED <<format, serves, sent, parsed, calls, failure, outcome, action>>
    /\ UNCHANGED ending

\* settle_call; what it does to the money is CampaignLedger's.
Settle ==
    /\ Proceed("settle", "decode") /\ CloseCall("settled", TRUE)
    /\ UNCHANGED <<format, serves, sent, parsed, ending, failure, outcome, action>>

Decode ==
    /\ Proceed("decode", "end")
    /\ action' = Decoded(parsed)
    /\ outcome' = IF action' = <<>> THEN "no action" ELSE "action"
    /\ UNCHANGED <<format, serves, sent, parsed, ending, calls, failure>>

\* The deadline or an interrupt while the provider sends or is parsed.
Stopped ==
    /\ callAt \in {"stream", "parse"} /\ ending' = "stopped"
    /\ Fail("stopped", TRUE)

\* The same after send() has returned: only an LLMError is given the answer.
StoppedLate ==
    /\ callAt = "price" /\ ending' = "stopped"
    /\ Fail("late", FALSE)

\* The same between the reservation and the try, between the try and the
\* settlement, or in the handler that was to close the call: nothing closes it.
\* The text of its answer may be evidence already.
StoppedUnclosed ==
    /\ callAt \in {"try", "stream", "parse", "price", "settle"} /\ callAt' = "end" /\ outcome' = "error"
    /\ ending' = "stopped" /\ failure' = "unclosed"
    /\ \E kept \in BOOLEAN : (kept => callAt # "try") /\ CloseCall("pending", kept)
    /\ sent' = <<>> /\ parsed' = NothingParsed
    /\ UNCHANGED <<format, serves, action>>

\* The budget refuses an attempt; the deadline or an interrupt comes between
\* two, or when the call is settled.
StoppedBetween ==
    /\ callAt \in {"reserve", "sleep", "decode"} /\ callAt' = "end" /\ outcome' = "error"
    /\ UNCHANGED <<format, serves, sent, parsed, ending, calls, failure, action>>

Slept ==
    /\ Proceed("sleep", "reserve")
    /\ UNCHANGED <<format, serves, sent, parsed, ending, calls, failure, outcome, action>>

CallNext ==
    \/ ReserveCall \/ Try \/ SendEvent \/ StreamEnds \/ StreamBreaks \/ Refused \/ Parse \/ Price
    \/ Settle \/ Decode \/ Stopped \/ StoppedLate \/ StoppedUnclosed \/ StoppedBetween \/ Slept

CallSpec == CallInit /\ [][CallNext]_callVars

-----------------------------------------------------------------------------
(* Properties.                                                             *)

\* Where the events of a kind are among all.
Places(s, kind) == {i \in DOMAIN s : s[i].kind = kind}

\* What the text parts at these places are, one after the other, is Whole.
JoinToWhole(s, places) ==
    \/ \E i \in places : places = {i} /\ s[i].part = Whole
    \/ \E i, j \in places : i < j /\ places = {i, j} /\ s[i].part \o s[j].part = Whole

\* "Only a complete outer JSON action or one genuine native function may
\* execute": the action is all that the provider sent of it, in one attempt
\* that was complete, of the model that was asked and not cut by its length.
ExecutedAsSent ==
    outcome = "action" =>
        /\ ending \in {"closed", "cut"} /\ Len(sent) \in Places(sent, "done")
        /\ \E i \in Places(sent, "finish") : sent[i].reason # "length" /\ \A j \in Places(sent, "finish") : j <= i
        /\ Places(sent, "usage") # {} /\ Places(sent, "malformed") = {}
        /\ serves = "asked" /\ Places(sent, "renamed") = {}
        /\ LET fragments == Places(sent, IF format = "json_object" THEN "text" ELSE "tool") IN
           /\ action = Whole /\ JoinToWhole(sent, fragments)
           /\ format = "tool_calls" =>
                /\ \A i, j \in fragments : sent[i].index = sent[j].index
                /\ \E id \in {"a", "b"} : {sent[i].id : i \in fragments} \ {"none"} = {id}

\* At most three attempts are made, one after the other is closed. Only one that
\* a stop beyond the reach of complete()'s handlers came to stays open: it is the
\* last and nothing is executed. Only the last is settled, and only what is
\* settled is decoded. The evidence of an attempt that failed has all that was
\* seen of it, except when it was stopped after send().
AttemptsAreClosed ==
    /\ Len(calls) <= 3
    /\ \A i \in DOMAIN calls :
        /\ calls[i].state = "pending" =>
             /\ i = Len(calls)
             /\ callAt \in {"try", "stream", "parse", "price", "settle"} \/ (failure = "unclosed" /\ outcome = "error")
        /\ calls[i].state = "failed" => calls[i].kept \/ (i = Len(calls) /\ failure = "late")
        /\ calls[i].state = "settled" => i = Len(calls) /\ calls[i].kept
    /\ (callAt = "decode" \/ outcome \in {"action", "no action"}) =>
         Len(calls) > 0 /\ calls[Len(calls)].state = "settled"

\* The two together.
CallsAreSound == CallTypeOK /\ ExecutedAsSent /\ AttemptsAreClosed

\* "retain all observed text even on failure", "Deadline alarms/interruption
\* still retain the bytes already observed".
ObservedTextIsKept == \A i \in DOMAIN calls : calls[i].state = "failed" => calls[i].kept

\* No attempt is open once complete() is left.
NoCallLeftOpen == outcome # "none" => \A i \in DOMAIN calls : calls[i].state # "pending"
=============================================================================
