-------------------------------- MODULE AppServer ------------------------------
(***************************************************************************)
(* One connection to a Codex app server (crates/sentinel-codex): a caller  *)
(* that sends requests and waits for their answers, the dispatcher that    *)
(* reads the child's output, the watcher that waits for the child to exit, *)
(* and the worker that turns notifications into events of the task.        *)
(*                                                                         *)
(* The child may announce that a turn is over before it has answered the   *)
(* request that started it.  So the caller has the worker hold a thread's  *)
(* notifications back until it has stored that the turn has started, and   *)
(* the caller, the dispatcher and the worker share no lock over all that:  *)
(* only the order of a channel.  The child may answer late, twice or never,*)
(* and die with output unread.                                             *)
(***************************************************************************)
EXTENDS EventLog, SequencesExt, FiniteSets

CONSTANTS
  Turns,      \* bound: turns the caller starts
  Calls,      \* bound: requests it sends, interrupts included
  Frames,     \* bound: what the child writes
  Faults,     \* bound: events the store fails to take
  QueueLimit, \* room in the channel to the worker (128 in the code)
  MaxPending  \* MAX_PENDING_REQUESTS

ASSUME AppAssumption ==
  {Turns, Calls, Frames, Faults} \subseteq Nat /\ {QueueLimit, MaxPending} \subseteq Nat \ {0}

VARIABLES
  server,    \* "running" or "gone"
  pipe,     \* its output that the dispatcher has not read
  heard,    \* requests it has read
  told,     \*   and those it has answered, by outcome
  wrote,    \* frames it wrote
  eof,      \* dispatch_stdout: "reading", "drained" (its requests), "done"
  watch,    \* watch_child: "waiting", "drained", "done"
  pending,  \* requests with a sender in the map
  reply,    \* what the requests were settled with
  lastId,   \* next_id - 1
  caller,       \* where the caller is
  asking,   \*   and what for: to initialize, a turn or an interrupt
  turn,     \* the turn the caller last asked for
  started,  \* turns whose start was reported to the caller
  queue,    \* commands on their way to the worker
  held,     \* EventState.pending_turn: "thread" or "none"
  buffered, \* notifications held back
  seen,     \* and those handled before
  seq,      \* the connection's own count of events
  log,      \* v3_task_events
  failures, \* events the store failed to take
  passed    \* history: notifications of the thread the dispatcher passed on

serverVars  == <<server, pipe, heard, told, wrote>>
callVars   == <<pending, reply, lastId, caller, asking, turn, started>>
workVars   == <<held, buffered, seen, seq, log, failures>>
appVars == <<serverVars, eof, watch, callVars, queue, workVars, passed>>

-------------------------------------------------------------------------------
\* Notifications: of a turn of the thread, or about no thread at all.
Methods == {"turn/started", "item", "turn/completed"}
Notes == [thread : {"thread"}, method : Methods, turn : 1 .. Turns]
           \cup [thread : {"none"}, method : {"account"}, turn : {0}]
Completion(t) == [thread |-> "thread", method |-> "turn/completed", turn |-> t]
TurnStarted(t) == [thread |-> "thread", method |-> "turn_started", turn |-> t]
Cancelled(t)   == [thread |-> "thread", method |-> "cancelled", turn |-> t]
Diagnostic     == [thread |-> "none", method |-> "diagnostic", turn |-> 0]
Stored == {log[i].event : i \in 1 .. Len(log)}

Ids == 1 .. lastId
Room == Len(queue) < QueueLimit
Send(command) == Room /\ queue' = Append(queue, command)
Event(note) == [op |-> "event", note |-> note]
Command(op) == [op |-> op, note |-> Diagnostic]

\* emit_state: the count goes up first, and the store may fail.
Emit(event) ==
  /\ seq' = seq + 1
  /\ \/ log' = Offer(log, seq + 1, event) /\ UNCHANGED failures
     \/ failures < Faults /\ failures' = failures + 1 /\ UNCHANGED log

\* complete_all: every waiting request fails.
CompleteAll ==
  /\ reply' = [i \in DOMAIN reply |-> IF i \in pending THEN "exit" ELSE reply[i]]
  /\ pending' = {}

AppStart ==
  /\ server = "running" /\ pipe = <<>> /\ heard = {} /\ told = {}
  /\ eof = "reading" /\ watch = "waiting"
  /\ pending = {} /\ reply = <<>> /\ lastId = 0
  /\ started = {}
  /\ queue = <<>> /\ held = "none" /\ buffered = <<>> /\ seen = {}
  /\ seq = 0 /\ log = <<>> /\ passed = {}

\* start_with_timeouts has the child and its tasks running and asks it to initialize.
AppInit ==
  /\ AppStart /\ turn = 0 /\ wrote = 0 /\ failures = 0
  /\ caller = "ask" /\ asking = "initialize"

-------------------------------------------------------------------------------
(* The child.                                                              *)
\* Turns it was asked to start.
Asked == {r.turn : r \in {q \in heard : q.kind = "turn"}}

\* It answers a request it has read, perhaps again, or writes a notification, or
\* something that is no message.
ChildWrites ==
  /\ server = "running" /\ wrote < Frames /\ wrote' = wrote + 1
  /\ \/ \E r \in heard, ok \in BOOLEAN :
          /\ pipe' = Append(pipe, [type |-> "answer", id |-> r.id, ok |-> ok, note |-> Diagnostic])
          /\ told' = told \cup {[id |-> r.id, ok |-> ok]}
     \/ \E note \in Notes :
          /\ note.turn \in Asked \cup {0}
          /\ pipe' = Append(pipe, [type |-> "note", id |-> 0, ok |-> TRUE, note |-> note])
          /\ UNCHANGED told
     \/ /\ pipe' = Append(pipe, [type |-> "bad", id |-> 0, ok |-> TRUE, note |-> Diagnostic])
        /\ UNCHANGED told
  /\ UNCHANGED <<server, heard, eof, watch, callVars, queue, workVars, passed>>

ChildDies ==
  /\ server = "running" /\ server' = "gone"
  /\ UNCHANGED <<pipe, heard, told, wrote, eof, watch, callVars, queue, workVars, passed>>

-------------------------------------------------------------------------------
(* The dispatcher and the watcher.                                         *)
Frame == Head(pipe)

\* process_frame on a message with a method: on to the worker.
PassNote ==
  /\ eof = "reading" /\ pipe # <<>> /\ Frame.type = "note"
  /\ Send(Event(Frame.note)) /\ passed' = passed \cup {Frame.note}
  /\ pipe' = Tail(pipe)
  /\ UNCHANGED <<server, heard, told, wrote, eof, watch, callVars, workVars>>

\* process_frame on an answer: the entry goes before the caller hears of it.
Settle ==
  /\ eof = "reading" /\ pipe # <<>> /\ Frame.type = "answer" /\ Frame.id \in pending
  /\ pending' = pending \ {Frame.id}
  /\ reply' = [reply EXCEPT ![Frame.id] = IF Frame.ok THEN "ok" ELSE "error"]
  /\ pipe' = Tail(pipe)
  /\ UNCHANGED <<server, heard, told, wrote, eof, watch, lastId, caller, asking, turn, started,
                 queue, workVars, passed>>

\* process_frame on anything else, an answer nobody waits for included.
Complain ==
  /\ eof = "reading" /\ pipe # <<>>
  /\ Frame.type = "bad" \/ (Frame.type = "answer" /\ Frame.id \notin pending)
  /\ Send(Command("diagnostic"))
  /\ pipe' = Tail(pipe)
  /\ UNCHANGED <<server, heard, told, wrote, eof, watch, callVars, workVars, passed>>

\* dispatch_stdout at the end of the output.
ReadEnd ==
  /\ eof = "reading" /\ server = "gone" /\ pipe = <<>>
  /\ CompleteAll /\ eof' = "drained"
  /\ UNCHANGED <<serverVars, watch, lastId, caller, asking, turn, started, queue, workVars, passed>>

ReadEndClear ==
  /\ eof = "drained" /\ eof' = "done" /\ Send(Command("clear"))
  /\ UNCHANGED <<serverVars, watch, callVars, workVars, passed>>

\* watch_child: the same again, and it need not wait for the output to be read.
ExitSeen ==
  /\ watch = "waiting" /\ server = "gone"
  /\ CompleteAll /\ watch' = "drained"
  /\ UNCHANGED <<serverVars, eof, lastId, caller, asking, turn, started, queue, workVars, passed>>

ExitClear ==
  /\ watch = "drained" /\ watch' = "done" /\ Send(Command("clear"))
  /\ UNCHANGED <<serverVars, eof, callVars, workVars, passed>>

-------------------------------------------------------------------------------
(* The caller.                                                             *)
\* start_turn_with_policy.  The supervisor starts a turn when the events say that
\* the one before is over, or when it could not be started.
StartTurn ==
  /\ caller = "idle" /\ turn < Turns /\ lastId < Calls
  /\ turn \in started => Completion(turn) \in Stored
  /\ Send(Command("activate"))
  /\ turn' = turn + 1 /\ asking' = "turn" /\ caller' = "ask"
  /\ UNCHANGED <<serverVars, eof, watch, pending, reply, lastId, started, workVars, passed>>

\* interrupt_turn.
Interrupt ==
  /\ caller = "idle" /\ lastId < Calls
  /\ turn \in started /\ Cancelled(turn) \notin Stored
  /\ asking' = "interrupt" /\ caller' = "ask"
  /\ UNCHANGED <<serverVars, eof, watch, pending, reply, lastId, turn, started, queue,
                 workVars, passed>>

\* request: the entry is made before anything is written.
Register ==
  /\ caller = "ask" /\ lastId' = lastId + 1
  /\ IF Cardinality(pending) < MaxPending
       THEN /\ pending' = pending \cup {lastId'} /\ reply' = Append(reply, "none")
            /\ caller' = "write"
       ELSE /\ reply' = Append(reply, "capacity") /\ caller' = "failed"
            /\ UNCHANGED pending
  /\ UNCHANGED <<serverVars, eof, watch, asking, turn, started, queue, workVars, passed>>

Write ==
  /\ caller = "write"
  /\ \/ /\ server = "running" /\ caller' = "wait"
        /\ heard' = heard \cup {[id |-> lastId, kind |-> asking, turn |-> turn]}
        /\ UNCHANGED pending
     \/ /\ server = "gone" /\ caller' = "failed"
        /\ pending' = pending \ {lastId} /\ UNCHANGED heard
  /\ UNCHANGED <<server, pipe, told, wrote, eof, watch, reply, lastId, asking, turn, started,
                 queue, workVars, passed>>

\* Mutant: the entry of a request that timed out stays.
ForgetNothing == UNCHANGED pending

\* The entry of a request that timed out goes, unless the call around it timed out
\* first and took it along: initialize and interrupt_turn have limits of their own.
Forget == pending' = pending \ {lastId} \/ (asking # "turn" /\ UNCHANGED pending)

TimesOut ==
  /\ caller = "wait" /\ reply[lastId] = "none"
  /\ Forget /\ caller' = "failed"
  /\ UNCHANGED <<serverVars, eof, watch, reply, lastId, asking, turn, started, queue,
                 workVars, passed>>

Hears ==
  /\ caller = "wait" /\ reply[lastId] # "none"
  /\ IF reply[lastId] # "ok" THEN caller' = "failed"
     ELSE IF asking = "initialize" THEN caller' \in {"idle", "failed"}  \* its version
     ELSE caller' = "record"
  /\ UNCHANGED <<serverVars, eof, watch, pending, reply, lastId, asking, turn, started, queue,
                 workVars, passed>>

\* clear_turn after a start that failed; an interrupt that failed just returns; a
\* connection that could not be initialized is shut down.
GiveUp ==
  /\ caller = "failed" /\ asking' = "none"
  /\ caller' = IF asking = "initialize" THEN "stopping" ELSE "idle"
  /\ IF asking = "interrupt" THEN UNCHANGED queue ELSE Send(Command("clear"))
  /\ UNCHANGED <<serverVars, eof, watch, pending, reply, lastId, turn, started, workVars, passed>>

\* shutdown: the watcher closes the child's input, and kills it if that is not enough.
Shutdown ==
  /\ caller = "idle" /\ caller' = "stopping" /\ Send(Command("clear"))
  /\ UNCHANGED <<serverVars, eof, watch, pending, reply, lastId, asking, turn, started,
                 workVars, passed>>

\* The watcher and the dispatcher have ended, and the worker stops after the last command.
Closed ==
  /\ caller = "stopping" /\ watch = "done" /\ eof = "done" /\ queue = <<>>
  /\ caller' = "closed"
  /\ UNCHANGED <<serverVars, eof, watch, pending, reply, lastId, asking, turn, started, queue,
                 workVars, passed>>

\* The event is stored by the caller itself, past the channel.  If that fails the
\* call returns and the thread's notifications stay held back.
Record ==
  /\ caller = "record"
  /\ Emit(IF asking = "turn" THEN TurnStarted(turn) ELSE Cancelled(turn))
  /\ caller' = IF asking = "turn" /\ failures' = failures THEN "flush" ELSE "idle"
  /\ UNCHANGED <<serverVars, eof, watch, pending, reply, lastId, asking, turn, started, queue,
                 held, buffered, seen, passed>>

AskFlush ==
  /\ caller = "flush" /\ caller' = "flushing" /\ Send(Command("flush"))
  /\ UNCHANGED <<serverVars, eof, watch, pending, reply, lastId, asking, turn, started,
                 workVars, passed>>

-------------------------------------------------------------------------------
(* The worker.                                                             *)
Is(op) == queue # <<>> /\ Head(queue).op = op
Note == Head(queue).note

\* handle_notification holds back what is about the thread whose turn is being
\* started.  With none being started, that is what is about no thread.
HeldBack(note) == held = note.thread /\ note.method # "turn/started"

\* The rest of handle_notification: what was handled before is skipped.
Handle(note) ==
  IF note \in seen
  THEN UNCHANGED <<seen, seq, log, failures>>
  ELSE seen' = seen \cup {note} /\ Emit(note)

WorkNote ==
  /\ Is("event") /\ queue' = Tail(queue)
  /\ \/ /\ HeldBack(Note)
        /\ buffered' = Append(buffered, Note) /\ UNCHANGED <<seen, seq, log, failures>>
     \/ /\ ~HeldBack(Note)
        /\ Handle(Note) /\ UNCHANGED buffered
  /\ UNCHANGED <<serverVars, eof, watch, callVars, held, passed>>

WorkDiagnostic ==
  /\ Is("diagnostic") /\ queue' = Tail(queue)
  /\ Emit(Diagnostic)
  /\ UNCHANGED <<serverVars, eof, watch, callVars, held, buffered, seen, passed>>

WorkActivate ==
  /\ Is("activate") /\ queue' = Tail(queue)
  /\ held' = "thread" /\ buffered' = <<>>
  /\ UNCHANGED <<serverVars, eof, watch, callVars, seen, seq, log, failures, passed>>

WorkClear ==
  /\ Is("clear") /\ queue' = Tail(queue)
  /\ held' = "none" /\ buffered' = <<>>
  /\ UNCHANGED <<serverVars, eof, watch, callVars, seen, seq, log, failures, passed>>

\* Mutant: what was held back is dropped.
ReplayNothing == held' = "none" /\ buffered' = <<>> /\ caller' = "idle"
                 /\ started' = started \cup {turn} /\ UNCHANGED <<seen, seq, log, failures>>

\* flush_notifications: what was held back is handled in the order it came in, each
\* once, up to an event that cannot be stored; the caller hears how it went.
Replay ==
  LET mine  == IF held = "thread" THEN buffered ELSE <<>>
      fresh == {i \in 1 .. Len(mine) : /\ mine[i] \notin seen
                                       /\ \A j \in 1 .. i - 1 : mine[j] # mine[i]}
      size  == Cardinality(fresh)
  IN /\ held' = "none"
     /\ buffered' = IF held = "thread" THEN <<>> ELSE buffered
     /\ \E order \in Bijection(1 .. size, fresh), k \in 0 .. size :  \* the first k are stored
          LET handled == IF k < size THEN k + 1 ELSE k
          IN /\ \A i, j \in 1 .. size : i < j => order[i] < order[j]
             /\ k < size => failures < Faults
             /\ failures' = IF k < size THEN failures + 1 ELSE failures
             /\ seen' = seen \cup {mine[order[i]] : i \in 1 .. handled}
             /\ seq' = seq + handled
             /\ log' = log \o [i \in 1 .. k |-> [seq |-> seq + i, event |-> mine[order[i]]]]
             /\ started' = IF k < size THEN started ELSE started \cup {turn}
     /\ caller' = "idle"

WorkFlush ==
  /\ Is("flush") /\ queue' = Tail(queue)
  /\ Replay
  /\ UNCHANGED <<serverVars, eof, watch, pending, reply, lastId, asking, turn, passed>>

AppNext ==
  \/ ChildWrites \/ ChildDies
  \/ PassNote \/ Settle \/ Complain \/ ReadEnd \/ ReadEndClear \/ ExitSeen \/ ExitClear
  \/ StartTurn \/ Interrupt \/ Register \/ Write \/ TimesOut \/ Hears \/ GiveUp
  \/ Shutdown \/ Closed
  \/ Record \/ AskFlush
  \/ WorkNote \/ WorkDiagnostic \/ WorkActivate \/ WorkClear \/ WorkFlush

-------------------------------------------------------------------------------
(* Properties.                                                             *)
AppTypeOK ==
  /\ server \in {"running", "gone"}
  /\ pipe \in Seq([type : {"answer", "note", "bad"}, id : Ids \cup {0}, ok : BOOLEAN,
                    note : Notes \cup {Diagnostic}])
  /\ heard \subseteq [id : Ids, kind : {"initialize", "turn", "interrupt"},
                      turn : 0 .. Turns]
  /\ told \subseteq [id : Ids, ok : BOOLEAN] /\ wrote \in 0 .. Frames
  /\ eof \in {"reading", "drained", "done"} /\ watch \in {"waiting", "drained", "done"}
  /\ pending \subseteq Ids /\ Cardinality(pending) <= MaxPending
  /\ reply \in [Ids -> {"none", "ok", "error", "exit", "capacity"}]
  /\ caller \in {"idle", "ask", "write", "wait", "record", "failed", "flush", "flushing",
             "stopping", "closed"}
  /\ asking \in {"none", "initialize", "turn", "interrupt"} /\ turn \in 0 .. Turns
  /\ started \subseteq 1 .. turn /\ passed \subseteq Notes
  /\ Len(queue) <= QueueLimit
  /\ queue \in Seq([op : {"event", "diagnostic", "activate", "clear", "flush"},
                     note : Notes \cup {Diagnostic}])
  /\ held \in {"none", "thread"} /\ buffered \in Seq(Notes) /\ seen \subseteq Notes
  /\ seq \in Nat /\ failures \in 0 .. Faults
  /\ \A i \in 1 .. Len(log) : log[i].seq \in 1 .. seq

Before(a, b) == \E i, j \in 1 .. Len(log) : i < j /\ log[i].event = a /\ log[j].event = b

\* A turn whose start was reported is in the log.  Until the child dies, what it said of
\* the turn comes after that, however early it said it, and that the turn is over is never
\* lost on the way: only a store that fails may lose it.
TurnRecorded ==
  \A t \in started :
    /\ TurnStarted(t) \in Stored
    /\ watch = "waiting" /\ eof = "reading" =>
         /\ \A note \in Notes : note.turn = t /\ note.method # "turn/started"
               => ~Before(note, TurnStarted(t))
         /\ Completion(t) \in passed /\ failures = 0
               => Completion(t) \in Stored \/ Contains(queue, Event(Completion(t)))

\* A request is answered with what the child said to it, and a request nobody waits for
\* any more is forgotten, whichever of the answer, the time limit and the end of the
\* child comes first: only an interrupt that timed out leaves its entry behind, and a
\* connection that is closed leaves none.
RequestsSettled ==
  /\ \A i \in Ids :
       reply[i] \in {"ok", "error"} => [id |-> i, ok |-> reply[i] = "ok"] \in told
  /\ \A i \in pending :
       \/ i = lastId /\ caller \in {"write", "wait"}
       \/ \E r \in heard : r.id = i /\ r.kind # "turn"
  /\ caller = "closed" => pending = {}

===============================================================================
