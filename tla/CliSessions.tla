------------------------------- MODULE CliSessions -----------------------------
(***************************************************************************)
(* The Claude and OMP processes of one task (crates/sentinel-claude,       *)
(* crates/sentinel-omp).  Each has a child, a task that reads its output   *)
(* and a caller that starts it, prompts it, cancels it or waits for it,    *)
(* and all of them store events of the task under one count per process.   *)
(*                                                                         *)
(* Dropping a process neither kills the child nor stops its reader, so     *)
(* that a process may go on storing events after its owner has moved on to *)
(* the next one.                                                           *)
(***************************************************************************)
EXTENDS EventLog, FiniteSets

CONSTANTS
  Sessions,  \* the processes started for the task
  Lines      \* bound: lines a child writes

VARIABLES
  kind,      \* "claude", "resume" (Claude again, on a session on record) or "omp"
  process,   \* "none", "running", "good" or "bad": how it exited
  output,    \* lines the reader has not read
  written,   \* how many there were
  owner,     \* where the caller is
  rd,        \* where the reader is,
  line,      \*   and the line it works on
  ready,     \* initialized, ready: the child has said it is there
  record,    \* EventState.session: which of its ids has the session, or "none"
  rows,      \* sessions created in the store, for each id
  lock,      \* session_initialization: "free", "caller", "reader"
  prompt,    \* the prompt: "none", "pending", "yes", "no", "exit"
  completed, cancelling,  \* EventState
  count,     \* EventState.sequence
  events,    \* v3_task_events
  lost,      \* history: processes with an event the store refused
  overlapped \* history: processes that ran while another could store events

processVars == <<process, output, written>>
stateVars == <<ready, record, rows, lock, prompt, completed, cancelling>>
logVars   == <<count, events, lost>>
cliVars == <<kind, processVars, owner, rd, line, stateVars, logVars, overlapped>>

-------------------------------------------------------------------------------
IsOmp(s) == kind[s] = "omp"
Alphabet(s) == {"hello", "message", "result", "garbage"}
                 \cup (IF IsOmp(s) THEN {"yes", "no"} ELSE {"renamed"})
\* The id a line of Claude's is about: that of its first line, or another.
Names == {"own", "other"}
Named(s) == IF ~IsOmp(s) /\ line[s] = "renamed" THEN "other" ELSE "own"
Gone(s) == process[s] \in {"good", "bad"}
Over == {"over", "cancelled", "dropped"}
\* Processes that may still store events: their reader reads or their caller is not done.
Live(s) == owner[s] # "none" /\ ~(owner[s] \in Over /\ rd[s] = "stopped")

Goto(s, where)   == owner' = [owner EXCEPT ![s] = where]
ReaderAt(s, where) == rd' = [rd EXCEPT ![s] = where]

\* emit: the count and the insertion are under one lock.
Emit(s, what) ==
  /\ count' = [count EXCEPT ![s] = @ + 1]
  /\ events' = Offer(events, count[s] + 1, [s |-> s, what |-> what])
  /\ lost' = IF Fits(events, count[s] + 1) THEN lost ELSE lost \cup {s}

\* Nothing has been read of anyone's output, and no event has been refused.
CliStart ==
  /\ kind \in [Sessions -> {"claude", "resume", "omp"}]
  /\ output = [s \in Sessions |-> <<>>] /\ line = [s \in Sessions |-> "none"]
  /\ lock = [s \in Sessions |-> "free"] /\ prompt = [s \in Sessions |-> "none"]
  /\ completed = {} /\ cancelling = {} /\ lost = {} /\ overlapped = {}

\* No process has been started yet.
CliInit ==
  /\ CliStart
  /\ process = [s \in Sessions |-> "none"] /\ written = [s \in Sessions |-> 0]
  /\ owner = [s \in Sessions |-> "none"] /\ rd = [s \in Sessions |-> "none"]
  /\ ready = {} /\ record = [s \in Sessions |-> "none"]
  /\ rows = [s \in Sessions |-> [n \in Names |-> 0]]
  /\ count = [s \in Sessions |-> 0] /\ events = <<>>

-------------------------------------------------------------------------------
(* The child.                                                              *)
ChildWrites(s) ==
  /\ process[s] = "running" /\ written[s] < Lines
  /\ written' = [written EXCEPT ![s] = @ + 1]
  /\ \E l \in Alphabet(s) : output' = [output EXCEPT ![s] = Append(@, l)]
  /\ UNCHANGED <<kind, process, owner, rd, line, stateVars, logVars, overlapped>>

ChildExits(s) ==
  /\ process[s] = "running"
  /\ \E how \in {"good", "bad"} : process' = [process EXCEPT ![s] = how]
  /\ UNCHANGED <<kind, output, written, owner, rd, line, stateVars, logVars, overlapped>>

-------------------------------------------------------------------------------
(* Starting a process.                                                     *)
\* A new process goes on from the last event of the task.
CountFrom(s) == LastNumber(events)

Spawn(s) ==
  /\ owner[s] = "none"
  /\ process' = [process EXCEPT ![s] = "running"]
  /\ count' = [count EXCEPT ![s] = CountFrom(s)]
  /\ Goto(s, IF kind[s] = "resume" THEN "session" ELSE "init")
  /\ ReaderAt(s, IF kind[s] = "resume" THEN "none" ELSE "reading")
  /\ LET others == {r \in Sessions : r # s /\ Live(r)}
     IN overlapped' = IF others = {} THEN overlapped ELSE overlapped \cup others \cup {s}
  /\ UNCHANGED <<kind, output, written, line, stateVars, events, lost>>

\* The child has said that it is there; OMP is then sent the prompt.
Initialized(s) ==
  /\ owner[s] = "init" /\ s \in ready
  /\ Goto(s, IF IsOmp(s) THEN "session" ELSE "running")
  /\ UNCHANGED <<kind, processVars, rd, line, stateVars, logVars, overlapped>>

\* It has not in time, or its output has ended: the process is dropped as it is.
NotInitialized(s) ==
  /\ owner[s] = "init" /\ s \notin ready /\ Goto(s, "dropped")
  /\ UNCHANGED <<kind, processVars, rd, line, stateVars, logVars, overlapped>>

-------------------------------------------------------------------------------
(* ensure_session, by the reader or by the caller of OMP: a session that is *)
(* on record is used, and whoever creates it has the lock and looks again.  *)
(* Claude's is one of the id that its child names; it is looked up before   *)
(* it is created, by its reader and its caller in turn.                     *)
TakeLock(s, who) ==
  /\ lock[s] = "free"
  /\ lock' = [lock EXCEPT ![s] = who]

Create(s, n) ==
  /\ rows' = IF IsOmp(s) \/ rows[s][n] = 0 THEN [rows EXCEPT ![s][n] = @ + 1] ELSE rows
  /\ record' = [record EXCEPT ![s] = n]

Release(s, who) == lock' = [lock EXCEPT ![s] = "free"]

CallerSession(s) ==
  /\ owner[s] = "session"
  /\ \/ record[s] # "none" /\ Goto(s, "prompt") /\ UNCHANGED lock
     \/ record[s] = "none" /\ TakeLock(s, "caller") /\ Goto(s, "create")
  /\ UNCHANGED <<kind, processVars, rd, line, ready, record, rows, prompt, completed,
                 cancelling, logVars, overlapped>>

CallerCreates(s) ==
  /\ owner[s] = "create" /\ Create(s, "own") /\ Goto(s, "announce")
  /\ UNCHANGED <<kind, processVars, rd, line, ready, lock, prompt, completed, cancelling,
                 logVars, overlapped>>

\* The event of the session must be stored, or the call fails.  A session resumed is
\* there already, and its reader starts now.
CallerAnnounces(s) ==
  /\ owner[s] = "announce"
  /\ Emit(s, "started") /\ Release(s, "caller")
  /\ IF ~Fits(events, count[s] + 1)
       THEN Goto(s, "dropped") /\ UNCHANGED ready
            /\ IF IsOmp(s) THEN UNCHANGED rd ELSE ReaderAt(s, "stopped")
       ELSE IF IsOmp(s) THEN Goto(s, "prompt") /\ UNCHANGED <<rd, ready>>
            ELSE Goto(s, "running") /\ ReaderAt(s, "reading") /\ ready' = ready \cup {s}
  /\ UNCHANGED <<kind, processVars, line, record, rows, prompt, completed, cancelling,
                 overlapped>>

\* The reader comes here with a line in hand.
ReaderSession(s) ==
  /\ rd[s] = "session"
  /\ \/ record[s] = Named(s) /\ ReaderAt(s, "store") /\ UNCHANGED lock
     \/ record[s] # Named(s) /\ TakeLock(s, "reader") /\ ReaderAt(s, "create")
  /\ UNCHANGED <<kind, processVars, owner, line, ready, record, rows, prompt, completed,
                 cancelling, logVars, overlapped>>

ReaderCreates(s) ==
  /\ rd[s] = "create" /\ Create(s, Named(s)) /\ ReaderAt(s, "announce")
  /\ UNCHANGED <<kind, processVars, owner, line, ready, lock, prompt, completed, cancelling,
                 logVars, overlapped>>

\* Claude's reader gives up if the event cannot be stored, and OMP's goes on.
ReaderAnnounces(s) ==
  /\ rd[s] = "announce"
  /\ Emit(s, "started") /\ Release(s, "reader")
  /\ IF IsOmp(s) THEN ReaderAt(s, "store") /\ UNCHANGED ready
     ELSE IF Fits(events, count[s] + 1) THEN ReaderAt(s, "store") /\ ready' = ready \cup {s}
     ELSE ReaderAt(s, "stopped") /\ UNCHANGED ready
  /\ UNCHANGED <<kind, processVars, owner, line, record, rows, prompt, completed, cancelling,
                 overlapped>>

-------------------------------------------------------------------------------
(* The reader.                                                             *)
\* settle_response, settle_prompt_result: the first answer to the prompt counts.  What
\* comes after it is kept as an error that only a second prompt would read.
Settle(s, l) ==
  prompt' = IF l \in {"yes", "no"} /\ prompt[s] = "pending"
            THEN [prompt EXCEPT ![s] = l] ELSE prompt

\* OMP's first line is only noted; any other line of its needs the session, garbage
\* excepted.  Claude's needs it for a line that names the session.
ReadLine(s) ==
  /\ rd[s] = "reading" /\ output[s] # <<>>
  /\ output' = [output EXCEPT ![s] = Tail(@)]
  /\ LET l == Head(output[s])
     IN /\ line' = [line EXCEPT ![s] = l]
        /\ Settle(s, l)
        /\ completed' = IF l = "result" THEN completed \cup {s} ELSE completed
        /\ ready' = IF \/ l = "hello" /\ (IsOmp(s) \/ record[s] = "own")
                       \/ l = "renamed" /\ record[s] = "other" THEN ready \cup {s} ELSE ready
        /\ ReaderAt(s, IF l = "hello" /\ IsOmp(s) THEN "reading"
                       ELSE IF l \in {"hello", "renamed"} \/ (IsOmp(s) /\ l # "garbage")
                       THEN "session" ELSE "store")
  /\ UNCHANGED <<kind, process, written, owner, record, rows, lock, cancelling, logVars,
                 overlapped>>

\* Every line is stored.  OMP's reader stops at one that is no frame, after it has
\* stored that the session has failed; a prompt that is pending fails with it.
StoreLine(s) ==
  /\ rd[s] = "store"
  /\ LET fatal == IsOmp(s) /\ line[s] = "garbage"
     IN /\ Emit(s, IF fatal THEN "failed" ELSE IF line[s] = "result" THEN "result" ELSE "line")
        /\ ReaderAt(s, IF fatal THEN "stopped" ELSE "reading")
        /\ prompt' = IF fatal /\ prompt[s] = "pending"
                      THEN [prompt EXCEPT ![s] = "exit"] ELSE prompt
  /\ UNCHANGED <<kind, processVars, owner, line, ready, record, rows, lock, completed,
                 cancelling, overlapped>>

ReaderEnds(s) ==
  /\ rd[s] = "reading" /\ Gone(s) /\ output[s] = <<>>
  /\ ReaderAt(s, "stopped")
  /\ prompt' = IF prompt[s] = "pending" THEN [prompt EXCEPT ![s] = "exit"] ELSE prompt
  /\ UNCHANGED <<kind, processVars, owner, line, ready, record, rows, lock, completed,
                 cancelling, logVars, overlapped>>

-------------------------------------------------------------------------------
(* send_prompt, after the session is on record.                            *)
WritePrompt(s) ==
  /\ owner[s] = "prompt" /\ prompt' = [prompt EXCEPT ![s] = "pending"]
  /\ Goto(s, IF process[s] = "running" THEN "asked" ELSE "dropped")
  /\ UNCHANGED <<kind, processVars, rd, line, ready, record, rows, lock, completed,
                 cancelling, logVars, overlapped>>

PromptAnswered(s) ==
  /\ owner[s] = "asked" /\ prompt[s] # "pending"
  /\ Goto(s, IF prompt[s] = "yes" THEN "running" ELSE "dropped")
  /\ UNCHANGED <<kind, processVars, rd, line, stateVars, logVars, overlapped>>

PromptTimesOut(s) ==
  /\ owner[s] = "asked" /\ prompt[s] = "pending"
  /\ prompt' = [prompt EXCEPT ![s] = "none"] /\ Goto(s, "dropped")
  /\ UNCHANGED <<kind, processVars, rd, line, ready, record, rows, lock, completed,
                 cancelling, logVars, overlapped>>

-------------------------------------------------------------------------------
(* A process that runs.                                                    *)
\* Its owner lets go of it: a stage ran out of time, or the owner itself goes.
Drop(s) ==
  /\ owner[s] \in {"running", "waiting"} /\ Goto(s, "dropped")
  /\ UNCHANGED <<kind, processVars, rd, line, stateVars, logVars, overlapped>>

\* cancel: the child is killed and reaped; the reader is not waited for.
Kill(s) ==
  /\ owner[s] = "running"
  /\ cancelling' = cancelling \cup {s}
  /\ process' = IF Gone(s) THEN process ELSE [process EXCEPT ![s] = "bad"]
  /\ Goto(s, "killed")
  /\ UNCHANGED <<kind, output, written, rd, line, ready, record, rows, lock, prompt,
                 completed, logVars, overlapped>>

StoreCancelled(s) ==
  /\ owner[s] = "killed" /\ Emit(s, "cancelled") /\ Goto(s, "cancelled")
  /\ UNCHANGED <<kind, processVars, rd, line, stateVars, overlapped>>

\* Mutant: the output is not read to its end first.
NeverMindTheOutput(s) == TRUE

Drained(s) == rd[s] = "stopped"

\* wait_for_exit and poll_exit: the child is gone, and what it wrote is read first.
ReapChild(s) ==
  /\ owner[s] = "running" /\ Gone(s)
  /\ Goto(s, "waiting")
  /\ UNCHANGED <<kind, processVars, rd, line, stateVars, logVars, overlapped>>

Succeeded(s) == s \in completed /\ process[s] = "good"

\* wait_for_exit: how the process ended is derived from what was read and from its status.
StoreOutcome(s) ==
  /\ owner[s] = "waiting" /\ Drained(s)
  /\ Emit(s, IF Succeeded(s) THEN "completed" ELSE "failed")
  /\ Goto(s, "over")
  /\ UNCHANGED <<kind, processVars, rd, line, stateVars, overlapped>>

\* poll_exit: an exit proves nothing about the turn, only that none is to come.
PollOutcome(s) ==
  /\ IsOmp(s) /\ owner[s] = "waiting" /\ Drained(s)
  /\ IF s \in completed THEN UNCHANGED logVars ELSE Emit(s, "failed")
  /\ Goto(s, "over")
  /\ UNCHANGED <<kind, processVars, rd, line, stateVars, overlapped>>

CliNext ==
  \E s \in Sessions :
    \/ ChildWrites(s) \/ ChildExits(s)
    \/ Spawn(s) \/ Initialized(s) \/ NotInitialized(s)
    \/ CallerSession(s) \/ CallerCreates(s) \/ CallerAnnounces(s)
    \/ ReaderSession(s) \/ ReaderCreates(s) \/ ReaderAnnounces(s)
    \/ ReadLine(s) \/ StoreLine(s) \/ ReaderEnds(s)
    \/ WritePrompt(s) \/ PromptAnswered(s) \/ PromptTimesOut(s)
    \/ Drop(s) \/ Kill(s) \/ StoreCancelled(s) \/ ReapChild(s) \/ StoreOutcome(s) \/ PollOutcome(s)

-------------------------------------------------------------------------------
(* Properties.                                                             *)
CliTypeOK ==
  /\ kind \in [Sessions -> {"claude", "resume", "omp"}]
  /\ process \in [Sessions -> {"none", "running", "good", "bad"}]
  /\ \A s \in Sessions : output[s] \in Seq(Alphabet(s)) /\ written[s] \in 0 .. Lines
  /\ owner \in [Sessions -> {"none", "init", "session", "create", "announce", "prompt", "asked",
                          "running", "waiting", "killed"} \cup Over]
  /\ rd \in [Sessions -> {"none", "reading", "session", "create", "announce", "store", "stopped"}]
  /\ lock \in [Sessions -> {"free", "caller", "reader"}]
  /\ prompt \in [Sessions -> {"none", "pending", "yes", "no", "exit"}]
  /\ record \in [Sessions -> Names \cup {"none"}] /\ rows \in [Sessions -> [Names -> Nat]]
  /\ count \in [Sessions -> Nat]
  /\ ready \cup completed \cup cancelling \cup lost \cup overlapped \subseteq Sessions

\* A process is recorded as completed only when its output was read to the end with the
\* result in it, it exited well and nobody cancelled it; what it said of its result is
\* stored before, unless the store refused it, and it stores nothing after.  OMP's output
\* may end at a line that is no frame, and what comes after it is not read: then that the
\* session has failed is stored before as well.  Claude's is read to its end, unless the
\* store refused an event of it.
OutcomeHasEvidence ==
  \A i \in 1 .. Len(events) : events[i].event.what = "completed" =>
    LET s == events[i].event.s
        stored(what) == s \notin lost => \E j \in 1 .. i : events[j].event = [s |-> s, what |-> what]
    IN /\ Succeeded(s) /\ s \notin cancelling /\ rd[s] = "stopped" /\ stored("result")
       /\ output[s] # <<>> => IF IsOmp(s) THEN stored("failed") ELSE s \in lost
       /\ \A j \in i + 1 .. Len(events) : events[j].event.s # s

\* However its lines, its cancellation and its end race, a process loses no event unless
\* another process of the task could store events at the same time; and its reader and
\* its caller create one session between them for each id that it names.
LossNeedsOverlap ==
  /\ lost \subseteq overlapped
  /\ \A s \in Sessions, n \in Names : rows[s][n] <= 1

===============================================================================
