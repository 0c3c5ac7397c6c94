--------------------------------- MODULE ChatStream -----------------------------
(***************************************************************************)
(* One conversation with an API provider, as its client sees it: the       *)
(* request built from the messages so far, the reply that arrives in       *)
(* chunks cut anywhere, the tool calls put together from fragments, and    *)
(* the messages the next request is built from.                            *)
(*                                                                         *)
(* There are two dialects: chat completions (openai_chat.rs, which GLM,    *)
(* Kimi and custom providers share) and Gemini's interactions (gemini.rs). *)
(* A line of a stream is sent as four units: the first letters of "data:", *)
(* the rest of it with half of the value, the other half, and the newline; *)
(* a chunk is any number of units.  A text is named by the line that holds *)
(* it, and the arguments of a call are the two halves of them.             *)
(***************************************************************************)
EXTENDS Naturals, FiniteSets, SequencesExt, TLC

CONSTANTS
  MaxLines,   \* bound: lines of the first reply
  LaterLines, \* bound: lines of a later reply
  MaxUnits,   \* MAX_RESPONSE_BYTES, in units
  Replies     \* bound: requests of the conversation

VARIABLES
  dialect,  \* "openai" or "gemini"
  messages, \* the conversation
  at,       \* "send", "sent", "stream", "whole" or "over"
  body,     \* what the last request said
  response, \* what the provider sends: its lines, and whether whole or as a stream
  fed,      \* units received
  buffer,   \* units received that no newline has followed
  acc,      \* the accumulator of the response, its events included
  result    \* what the request came to

streamVars == <<dialect, messages, at, body, response, fed, buffer, acc, result>>

-------------------------------------------------------------------------------
(* What a provider may send.                                               *)
Line(k) == [k |-> k, call |-> 0, index |-> 0, half |-> 0, id |-> FALSE]

\* A half of the arguments of a call, said to belong to the call at an index.
Part(c, i, h, id) == [k |-> "part", call |-> c, index |-> i, half |-> h, id |-> id]
Call(c, id)       == [k |-> "call", call |-> c, index |-> c, half |-> 0, id |-> id]

CallNumbers == {0, 1}

\* A provider that sends no index has all its calls at index 0.  The id comes with the
\* first half, with both, or not at all.
Parts(ids) == {Part(c, i, h, ids = "each" \/ (ids = "first" /\ h = 1)) :
                 c \in CallNumbers, i \in CallNumbers, h \in {1, 2}}

Plain == {Line("text"), Line("thought"), Line("finish"), Line("comment"), Line("bad")}
WholeLines == {Line("text"), Line("thought")} \union {Call(c, id) : c \in CallNumbers, id \in BOOLEAN}
StreamLines(ids) ==
  IF dialect = "openai"
  THEN Plain \union {Line("done")} \union {p \in Parts(ids) : p.index \in {0, p.call}}
  ELSE Plain \union {Line("error")} \union WholeLines

Bound == IF Len(messages) = 2 THEN MaxLines ELSE LaterLines

\* A reply of three lines holds text and calls only, a longer one the halves of calls, each
\* of them once.
Once(s) == \A i, j \in DOMAIN s :
             i # j => s[i].k = "part" /\ <<s[i].call, s[i].half>> # <<s[j].call, s[j].half>>

Sendable(lines) ==
  LET ofLength(n) == {line \in lines : n < 3 \/ line.k \in {"text", "part", "call"}}
  IN UNION {{s \in [1..n -> ofLength(n)] : n > 3 => Once(s)} : n \in 0..Bound}

NoReply  == [lines |-> <<>>, whole |-> FALSE]
NoResult == [how |-> "none", text |-> <<>>, thoughts |-> <<>>, calls |-> <<>>]
Start(seq) == [text |-> <<>>, thoughts |-> <<>>, tools |-> <<>>, ok |-> TRUE, seq |-> seq,
               events |-> <<>>]

Message(role) == [role |-> role, says |-> role # "tool", calls |-> <<>>, id |-> <<>>]

StreamStart ==
  /\ dialect \in {"openai", "gemini"}
  /\ messages = <<Message("system"), Message("user")>>
  /\ at = "send" /\ body = <<>> /\ response = NoReply /\ fed = 0 /\ buffer = <<>>
  /\ acc = Start(0) /\ result = NoResult

-------------------------------------------------------------------------------
(* The request.                                                            *)
Item(t, id) == [t |-> t, id |-> id]

CallItems(m) == [i \in DOMAIN m.calls |-> Item("call", m.calls[i])]

\* One message holds what the model said, said or not, and its calls.
OpenAiMessage(m) ==
  IF m.role = "tool" THEN <<Item("result", m.id)>>
  ELSE <<Item(m.role, <<>>)>> \o CallItems(m)

OpenAiBody == FlattenSeq([i \in DOMAIN messages |-> OpenAiMessage(messages[i])])

\* What was said and each call are steps of their own; an empty text is left out.
GeminiStep(m) ==
  CASE m.role = "tool"   -> <<Item("result", m.id)>>
    [] m.role = "system" -> <<>>
    [] OTHER -> (IF m.says THEN <<Item(m.role, <<>>)>> ELSE <<>>) \o CallItems(m)

GeminiBody ==
  <<Item("system", <<>>)>> \o FlattenSeq([i \in DOMAIN messages |-> GeminiStep(messages[i])])

\* validate, for what a conversation can get wrong: a result must name its call.
RequestValid == \A i \in DOMAIN messages : messages[i].role = "tool" => messages[i].id # <<>>

Ends(how) ==
  /\ at' = "over" /\ result' = [NoResult EXCEPT !.how = how]

Emit(a, kind, lines, call) ==
  [a EXCEPT !.seq = @ + 1,
            !.events = Append(@, [seq |-> a.seq + 1, kind |-> kind, lines |-> lines,
                                  call |-> call])]

WholeOf(c) == <<<<c, 1>>, <<c, 2>>>>
NoCall == [id |-> <<>>, args |-> <<>>]

Ask ==
  /\ at = "send"
  /\ IF RequestValid
     THEN /\ at' = "sent" /\ acc' = Emit(Start(0), "started", <<>>, NoCall)
          /\ body' = IF dialect = "openai" THEN OpenAiBody ELSE GeminiBody
          /\ UNCHANGED result
     ELSE Ends("refused") /\ UNCHANGED <<acc, body>>
  /\ UNCHANGED <<dialect, messages, response, fed, buffer>>

\* Until the headers are there the request can be cancelled and has a time limit; or
\* there is no connection, or a status that is not a success.
Unanswered ==
  /\ at = "sent" /\ \E how \in {"cancelled", "timeout", "transport", "status"} : Ends(how)
  /\ UNCHANGED <<dialect, messages, body, response, fed, buffer, acc>>

RateLimits(a) == Emit(a, "limits", <<>>, NoCall)

Answered ==
  /\ at = "sent"
  /\ \E ids \in {"first", "each", "none"}, whole \in BOOLEAN :
       /\ (whole \/ dialect = "gemini") => ids = "first"
       /\ \E lines \in Sendable(IF whole THEN WholeLines ELSE StreamLines(ids)) :
            response' = [lines |-> lines, whole |-> whole]
       /\ at' = IF whole THEN "whole" ELSE "stream"
  /\ acc' \in IF dialect = "openai" THEN {acc, RateLimits(acc)} ELSE {acc}
  /\ fed' = 0 /\ buffer' = <<>>
  /\ UNCHANGED <<dialect, messages, body, result>>

-------------------------------------------------------------------------------
(* The stream.                                                             *)
Refuse(a) == [a EXCEPT !.ok = FALSE]

\* Mutant: a fragment takes the place of the one before.
Replaces(old, new) == new

Joins(old, new) == old \o new

\* A fragment of a call: its id, if there is one, and its arguments are appended to
\* those at its index.
AddPart(a, n, line) ==
  LET old == IF line.index \in DOMAIN a.tools THEN a.tools[line.index] ELSE NoCall
      new == [id |-> Joins(old.id, IF line.id THEN <<"id", line.call>> ELSE <<>>),
              args |-> Joins(old.args, <<<<line.call, line.half>>>>)]
  IN Emit([a EXCEPT !.tools = (line.index :> new) @@ @], "part", <<n>>, NoCall)

\* A step that is a call: whole, and named.
AddCall(a, line) ==
  LET call == [id |-> <<"id", line.call>>, args |-> WholeOf(line.call)]
  IN IF line.id THEN Emit([a EXCEPT !.tools = (line.call :> call) @@ @], "call", <<>>, call)
     ELSE Refuse(a)

AddText(a, n)    == Emit([a EXCEPT !.text = Append(@, n)], "text", <<n>>, NoCall)
AddThought(a, n) == Emit([a EXCEPT !.thoughts = Append(@, n)], "thought", <<n>>, NoCall)

OpenAiLine(a, n, line) ==
  CASE line.k = "text"    -> AddText(a, n)
    [] line.k = "thought" -> AddThought(a, n)
    [] line.k = "part"    -> AddPart(a, n, line)
    [] line.k \in {"finish", "done"} -> a
    [] OTHER              -> Refuse(a)

GeminiEvent(a, n, line) ==
  CASE line.k = "text"    -> AddText(a, n)
    [] line.k = "thought" -> AddThought(a, n)
    [] line.k = "call"    -> AddCall(a, line)
    [] line.k = "finish"  -> a
    [] OTHER              -> Refuse(a)

\* process_sse_line: an empty line, a comment, or what does not begin with "data:", is
\* nothing; half of a value is no JSON.
ProcessLine(a, units) ==
  LET n == units[1][1]  line == response.lines[n]
  IN CASE ~a.ok \/ Len(units) < 2 \/ line.k = "comment" -> a
       [] Len(units) = 2 -> Refuse(a)
       [] OTHER -> IF dialect = "openai" THEN OpenAiLine(a, n, line)
                   ELSE GeminiEvent(a, n, line)

Units == [i \in 1 .. 4 * Len(response.lines) |-> <<(i + 3) \div 4, (i - 1) % 4>>]
Newline(unit) == unit[2] = 3

\* The lines that the buffer and a chunk make, and what is left of it.
Drain(chunk) ==
  FoldLeft(LAMBDA st, u : IF Newline(u) THEN [left |-> <<>>, a |-> ProcessLine(st.a, st.left)]
                          ELSE [st EXCEPT !.left = Append(@, u)],
           [left |-> buffer, a |-> acc], chunk)

Chunk ==
  /\ at = "stream"
  /\ \E n \in fed + 1 .. Len(Units) :
       /\ fed' = n
       /\ LET drained == Drain(SubSeq(Units, fed + 1, n))
          IN IF n > MaxUnits THEN Ends("malformed") /\ UNCHANGED <<buffer, acc>>
             ELSE /\ acc' = drained.a /\ buffer' = drained.left
                  /\ IF drained.a.ok THEN UNCHANGED <<at, result>> ELSE Ends("malformed")
  /\ UNCHANGED <<dialect, messages, body, response>>

\* Nothing limits how long a stream takes, but it can be cancelled.
StreamBreaks ==
  /\ at = "stream" /\ \E how \in {"cancelled", "transport"} : Ends(how)
  /\ UNCHANGED <<dialect, messages, body, response, fed, buffer, acc>>

\* The arguments of a call are JSON if they are the two halves of one call's.
WholeArguments(args) ==
  Len(args) = 2 /\ args[1][1] = args[2][1] /\ args[1][2] = 1 /\ args[2][2] = 2

InOrder(tools) == SetToSortSeq(DOMAIN tools, <)

\* The calls in the order of their indices; one without an id is named by its index.
Named(tools, i) == [tools[i] EXCEPT !.id = IF @ = <<>> THEN <<"tool", i>> ELSE @]

ToolCalls(a) ==
  FoldLeft(LAMBDA b, i : CASE ~b.ok -> b
                           [] WholeArguments(a.tools[i].args) ->
                                Emit(b, "call", <<>>, Named(a.tools, i))
                           [] OTHER -> Refuse(b),
           a, InOrder(a.tools))

Completes(a, calls) ==
  IF a.ok
  THEN /\ at' = "over" /\ acc' = Emit(a, "completed", <<>>, NoCall)
       /\ result' = [how |-> "ok", text |-> a.text, thoughts |-> a.thoughts, calls |-> calls]
  ELSE Ends("malformed") /\ acc' = a

\* The connection is closed, whether or not the provider has said that it is done.
StreamCloses ==
  /\ at = "stream"
  /\ LET rest == IF buffer = <<>> THEN acc ELSE ProcessLine(acc, buffer)
     IN IF dialect = "openai" /\ rest.ok
        THEN Completes(ToolCalls(rest), [i \in 1 .. Cardinality(DOMAIN rest.tools) |->
                                           Named(rest.tools, InOrder(rest.tools)[i])])
        ELSE Completes(rest, [i \in 1 .. Cardinality(DOMAIN rest.tools) |->
                                rest.tools[InOrder(rest.tools)[i]]])
  /\ buffer' = <<>>
  /\ UNCHANGED <<dialect, messages, body, response, fed>>

-------------------------------------------------------------------------------
(* A reply that is not a stream: nothing is heard of it before it is there, nor can it *)
(* be cancelled.                                                           *)
LinesOf(k) == SelectSeq([n \in DOMAIN response.lines |-> n], LAMBDA n : response.lines[n].k = k)

\* A call without an id has the empty one.
PlainCall(n) ==
  LET line == response.lines[n]
  IN [id |-> IF line.id THEN <<"id", line.call>> ELSE <<>>,
      args |-> WholeOf(line.call)]

\* The events of a chat completion begin with the third.
OpenAiWhole ==
  LET calls == [i \in DOMAIN LinesOf("call") |-> PlainCall(LinesOf("call")[i])]
      begun == [acc EXCEPT !.seq = 2, !.text = LinesOf("text"), !.thoughts = LinesOf("thought")]
      told  == IF begun.text = <<>> THEN begun ELSE Emit(begun, "text", begun.text, NoCall)
  IN Completes(FoldLeft(LAMBDA a, c : Emit(a, "call", <<>>, c), told, calls), calls)

\* An interaction has no events but the first and the last; its calls are kept by their ids.
GeminiWhole ==
  LET named == \A n \in Range(LinesOf("call")) : response.lines[n].id
      tools == [c \in {response.lines[n].call : n \in Range(LinesOf("call"))} |->
                  [id |-> <<"id", c>>, args |-> WholeOf(c)]]
      begun == [acc EXCEPT !.text = LinesOf("text"), !.thoughts = LinesOf("thought"), !.ok = named]
  IN Completes(begun, [i \in 1 .. Cardinality(DOMAIN tools) |-> tools[InOrder(tools)[i]]])

WholeArrives ==
  /\ at = "whole"
  /\ IF 4 * Len(response.lines) > MaxUnits THEN Ends("malformed") /\ UNCHANGED acc
     ELSE IF dialect = "openai" THEN OpenAiWhole ELSE GeminiWhole
  /\ UNCHANGED <<dialect, messages, body, response, fed, buffer>>

WholeBreaks ==
  /\ at = "whole" /\ \E how \in {"transport", "malformed"} : Ends(how)
  /\ UNCHANGED <<dialect, messages, body, response, fed, buffer, acc>>

-------------------------------------------------------------------------------
\* run_agent_loop has carried out the calls and goes on with their results.
GoOn ==
  /\ at = "over" /\ result.how = "ok" /\ result.calls # <<>>
  /\ Cardinality({i \in DOMAIN messages : messages[i].role = "assistant"}) + 1 < Replies
  /\ messages' = messages
       \o <<[Message("assistant") EXCEPT !.says = result.text # <<>>,
                                         !.calls = [i \in DOMAIN result.calls |->
                                                      result.calls[i].id]]>>
       \o [i \in DOMAIN result.calls |-> [Message("tool") EXCEPT !.id = result.calls[i].id]]
  /\ at' = "send" /\ response' = NoReply /\ fed' = 0 /\ acc' = Start(0) /\ result' = NoResult
  /\ body' = <<>>
  /\ UNCHANGED <<dialect, buffer>>

StreamNext == \/ Ask \/ Unanswered \/ Answered \/ Chunk \/ StreamBreaks \/ StreamCloses
              \/ WholeArrives \/ WholeBreaks \/ GoOn

StreamSpec == StreamStart /\ [][StreamNext]_streamVars

-------------------------------------------------------------------------------
StreamTypeOK ==
  /\ dialect \in {"openai", "gemini"} /\ at \in {"send", "sent", "stream", "whole", "over"}
  /\ fed \in 0 .. Len(Units) /\ Len(buffer) < 4
  /\ buffer = SubSeq(Units, fed - Len(buffer) + 1, fed) \/ at = "over"
  /\ Len(messages) <= 2 + (Replies - 1) * (1 + MaxLines)
  /\ result.how \in {"none", "ok", "refused", "cancelled", "timeout", "transport", "status",
                     "malformed"}

\* What of a stream was there when the connection was closed, by counting: the lines whose
\* newline, or all but that, has come.
Heard == SubSeq(response.lines, 1, (fed + 1) \div 4)
CutOff == fed % 4 = 2 /\ response.lines[(fed + 2) \div 4].k # "comment"
HeardLines(k) == SelectSeq([n \in DOMAIN Heard |-> n], LAMBDA n : Heard[n].k = k)
AtIndex(i) == SelectSeq(Heard, LAMBDA line : line.k = "part" /\ line.index = i)
Indices == {Heard[n].index : n \in Range(HeardLines("part"))}
Args(i) == [j \in DOMAIN AtIndex(i) |-> <<AtIndex(i)[j].call, AtIndex(i)[j].half>>]

Senseless(line) == line.k \in {"bad", "error"} \/ (line.k = "call" /\ ~line.id)

\* However a stream is cut into chunks, and wherever it ends, its answer is the lines that
\* have come and no others: each text once and in order, each call with the whole of its own
\* arguments.  And there is an answer unless it is too long, or a line, or the arguments of a
\* call, came in part or made no sense.
AnswerIsWhatCame ==
  at = "over" /\ ~response.whole /\ result.how \in {"ok", "malformed"} =>
    /\ result.how = "ok"
         <=> /\ ~CutOff /\ fed <= MaxUnits
             /\ \A n \in DOMAIN Heard : ~Senseless(Heard[n])
             /\ \A i \in Indices : WholeArguments(Args(i))
    /\ result.how = "ok" =>
         /\ result.text = HeardLines("text") /\ result.thoughts = HeardLines("thought")
         /\ {result.calls[j].args : j \in DOMAIN result.calls}
              = IF dialect = "openai" THEN {Args(i) : i \in Indices}
                ELSE {WholeOf(Heard[n].call) : n \in Range(HeardLines("call"))}
         /\ dialect = "openai" => Len(result.calls) = Cardinality(Indices)
         /\ \A j \in DOMAIN result.calls : result.calls[j].id # <<>>

OfKind(kind) == SelectSeq(acc.events, LAMBDA e : e.kind = kind)

\* What the events have told is the answer: their numbers grow, the last says that it is
\* complete if and only if it is, and the texts and calls told are those of the answer.  Of a
\* Gemini reply that is no stream nothing is told.
ToldIsAnswer ==
  /\ \A i, j \in DOMAIN acc.events : i < j => acc.events[i].seq < acc.events[j].seq
  /\ \A i \in DOMAIN acc.events :
       acc.events[i].kind = "completed" => i = Len(acc.events) /\ result.how = "ok"
  /\ at = "over" /\ result.how = "ok" =>
       /\ acc.events[Len(acc.events)].kind = "completed"
       /\ (dialect = "openai" \/ ~response.whole) =>
            /\ FlattenSeq([i \in DOMAIN OfKind("text") |-> OfKind("text")[i].lines]) = result.text
            /\ {OfKind("call")[i].call : i \in DOMAIN OfKind("call")} = Range(result.calls)

\* In what a request says, each result follows the call that it answers with only calls and
\* results in between, and each call has its result.
RequestIsPaired ==
  LET between(i, j) == \A k \in i..j : body[k].t \in {"call", "result"}
      count(t, id) == Cardinality({k \in DOMAIN body : body[k] = Item(t, id)})
  IN /\ \A j \in DOMAIN body : body[j].t = "result" =>
          \E i \in 1 .. j - 1 : body[i] = Item("call", body[j].id) /\ between(i, j)
     /\ \A i \in DOMAIN body : body[i].t = "call" =>
          count("call", body[i].id) = count("result", body[i].id)

===============================================================================
