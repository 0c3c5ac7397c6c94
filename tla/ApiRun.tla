---------------------------------- MODULE ApiRun --------------------------------
(***************************************************************************)
(* The run of an API provider and the call that stops it.  Three actors    *)
(* share no lock: the loop that asks the provider and carries out its tool *)
(* calls (run_agent_loop, crates/sentinel-provider-api/src/agent.rs), the  *)
(* worker that talks to the provider, and SentinelSupervisor::stop, which  *)
(* marks the session, cancels, waits for five seconds and then aborts      *)
(* without waiting any longer.                                             *)
(*                                                                         *)
(* Cancelling is a flag and a wake-up of whoever waits at that moment.  A  *)
(* waiter looks at the flag before it begins to wait, so that a wake-up in *)
(* between is lost.  The session and the task are rows with a version: an  *)
(* update names the version it has read, and fails if that has changed.    *)
(***************************************************************************)
EXTENDS Naturals, Lifecycles

CONSTANTS
  Rounds,    \* max_rounds: 12 for an implementer, 8 for a repair
  MaxCalls,  \* MAX_TOOL_CALLS_PER_ROUND: 32
  StoreFaults \* bound: times the store fails

ASSUME ApiAssumption == {Rounds, MaxCalls} \subseteq Nat \ {0} /\ StoreFaults \in Nat

VARIABLES
  loop,      \* where the run is
  round,     \* provider requests so far
  calls,     \* tool calls of this round still to carry out
  outcome,   \* what run_agent_loop returned
  worker,    \* the request: "none", "busy", or what it came to
  flag, woken, \* CancellationHandle
  stop,      \* where the call of stop is
  aborted,   \* the run was told to end at its next await
  session, task, \* rows
  turnCompleted, \* is there a TurnCompleted event?
  mySession, myTask,     \* rows as the run has read them
  stopSession, stopTask, \*   and as stop has
  faults,
  lateRequests, lateCalls \* history: since cancel was called

runVars  == <<loop, round, calls, outcome, worker>>
flagVars == <<flag, woken>>
rowVars  == <<session, task, turnCompleted>>
readVars == <<mySession, myTask, stopSession, stopTask>>
lateVars == <<lateRequests, lateCalls>>
apiVars == <<runVars, flagVars, stop, aborted, rowVars, readVars, faults, lateVars>>

-------------------------------------------------------------------------------
Answers == {"text", "calls", "error"}
Row(life) == [life |-> life, version |-> 0]

\* The task is implementing, its session is active, and the run has been spawned.
ApiInit ==
  /\ loop = "check" /\ round = 0 /\ calls = 0 /\ outcome = "none" /\ worker = "none"
  /\ flag = FALSE /\ woken = FALSE
  /\ stop = "none" /\ aborted = FALSE
  /\ session = Row("Active") /\ task = Row("Implementing") /\ turnCompleted = FALSE
  /\ mySession = session /\ myTask = task /\ stopSession = session /\ stopTask = task
  /\ faults = 0 /\ lateRequests = 0 /\ lateCalls = 0

\* Mutant: the version is not compared.
AnyVersion(row, read) == TRUE

\* An update of a row that is not the one that was read fails.
SameVersion(row, read) == row.version = read.version

\* transition_session, transition_task: the lifecycle read must allow it as well.
Updates(row, read, allowed) == allowed /\ SameVersion(row, read)
Next1(row, life) == [life |-> life, version |-> row.version + 1]

StoreFault == faults < StoreFaults /\ faults' = faults + 1

-------------------------------------------------------------------------------
(* The loop.                                                               *)
Finish(how) == loop' = "settle" /\ outcome' = how
OthersStand == UNCHANGED <<flagVars, stop, aborted, rowVars, readVars, faults>>

\* Mutant: the flag is not looked at between rounds.
IgnoreFlag == TRUE

NotCancelled == ~flag

\* A round begins, or there has been a cancellation or a round too many.
BeginRound ==
  /\ loop = "check"
  /\ IF round = Rounds THEN Finish("failed")
     ELSE IF ~NotCancelled THEN Finish("cancelled")
     ELSE loop' = "start" /\ UNCHANGED outcome
  /\ UNCHANGED <<round, calls, worker, lateVars>> /\ OthersStand

\* ProviderRegistry::start: the provider must be enabled, the request in order and the
\* credential, read again for each request, still there.
StartRequest ==
  /\ loop = "start"
  /\ \/ /\ round' = round + 1 /\ worker' = "busy" /\ loop' = "look"
        /\ lateRequests' = IF flag THEN lateRequests + 1 ELSE lateRequests
        /\ UNCHANGED outcome
     \/ Finish("failed") /\ UNCHANGED <<round, worker, lateRequests>>
  /\ UNCHANGED <<calls, lateCalls>> /\ OthersStand

\* The worker comes to an end: with text, tool calls or an error.  Nobody may be left to
\* hear of it.
WorkerEnds ==
  /\ worker = "busy" /\ worker' \in Answers
  /\ UNCHANGED <<loop, round, calls, outcome, lateVars>> /\ OthersStand

\* select!: the flag is looked at first, or the worker.
LookAtFlag ==
  /\ loop = "look"
  /\ IF flag THEN Finish("cancelled") ELSE loop' = "register" /\ UNCHANGED outcome
  /\ UNCHANGED <<round, calls, worker, lateVars>> /\ OthersStand

\* From here on a wake-up is heard.
RegisterWaiter ==
  /\ loop = "register" /\ loop' = "wait"
  /\ UNCHANGED <<round, calls, outcome, worker, lateVars>> /\ OthersStand

WokenUp ==
  /\ loop = "wait" /\ woken /\ Finish("cancelled")
  /\ UNCHANGED <<round, calls, worker, lateVars>> /\ OthersStand

\* Mutant: one tool call too many is accepted.
TooManyByTwo(n) == n > MaxCalls + 1

TooMany(n) == n > MaxCalls

\* The worker may be heard although there has been a cancellation.
TakeAnswer ==
  /\ loop \in {"look", "wait"} /\ worker \in Answers
  /\ worker' = "none"
  /\ CASE worker = "text"  -> Finish("done") /\ UNCHANGED calls
       [] worker = "error" -> Finish("failed") /\ UNCHANGED calls
       [] OTHER -> \E n \in 1 .. MaxCalls + 1 :
            IF TooMany(n) THEN Finish("failed") /\ UNCHANGED calls
            ELSE loop' = "tools" /\ calls' = n /\ UNCHANGED outcome
  /\ UNCHANGED <<round, lateVars>> /\ OthersStand

\* The tool calls of a round are carried out one after the other.  That one fails is an
\* answer for the provider, and nothing looks at the flag or waits in between.
Execute ==
  /\ loop = "tools"
  /\ calls' = calls - 1
  /\ lateCalls' = IF flag THEN lateCalls + 1 ELSE lateCalls
  /\ \/ loop' = (IF calls' = 0 THEN "check" ELSE "tools") /\ UNCHANGED outcome
     \/ Finish("failed")  \* its result is too long
  /\ UNCHANGED <<round, worker, lateRequests>> /\ OthersStand

-------------------------------------------------------------------------------
(* persist_api_run_outcome.                                                *)
Persist(from, to) == loop = from /\ loop' = to
Same == UNCHANGED <<round, calls, outcome, worker, flagVars, stop, aborted, stopSession,
                    stopTask, lateVars>>
Target == CASE outcome = "done" -> "Completed" [] outcome = "failed" -> "Failed"
            [] OTHER -> IF mySession.life = "Cancelling" THEN "Cancelled" ELSE "Failed"
Rest == IF outcome = "done" THEN "event" ELSE IF Target = "Cancelled" THEN "ended" ELSE "artifact"

ReadSession ==
  /\ loop = "settle" /\ mySession' = session
  /\ loop' = IF session.life = "Active" \/ (outcome = "cancelled" /\ session.life = "Cancelling")
             THEN "session" ELSE IF outcome = "done" THEN "event" ELSE "artifact"
  /\ UNCHANGED <<rowVars, myTask, faults>> /\ Same

\* A conflict ends the run where it is.
SettleSession ==
  /\ loop = "session"
  /\ IF Updates(session, mySession, Target \in SessionSuccessors[mySession.life])
       THEN session' = Next1(session, Target) /\ loop' = Rest
       ELSE loop' = "ended" /\ UNCHANGED session
  /\ UNCHANGED <<task, turnCompleted, mySession, myTask, faults>> /\ Same

StoreTurn ==
  /\ Persist("event", "ended") /\ turnCompleted' = TRUE
  /\ UNCHANGED <<session, task, mySession, myTask, faults>> /\ Same

\* create_artifact, and then the task is read.
StoreFailure ==
  /\ loop = "artifact" /\ myTask' = task
  /\ loop' = IF task.life \in TaskTerminal THEN "ended" ELSE "task"
  /\ UNCHANGED <<rowVars, mySession, faults>> /\ Same

BlockTask ==
  /\ Persist("task", "ended")
  /\ IF Updates(task, myTask, "Blocked" \in TaskSuccessors[myTask.life])
       THEN task' = Next1(task, "Blocked") ELSE UNCHANGED task
  /\ UNCHANGED <<session, turnCompleted, mySession, myTask, faults>> /\ Same

Persisting == loop \in {"settle", "session", "event", "artifact", "task"}

PersistFails ==
  /\ Persisting /\ StoreFault /\ loop' = "ended"
  /\ UNCHANGED <<rowVars, mySession, myTask>> /\ Same

\* An abort takes effect where the run waits: on the worker or on the store.
DropRun ==
  /\ aborted /\ (loop = "wait" \/ Persisting) /\ loop' = "dropped"
  /\ UNCHANGED <<rowVars, mySession, myTask, faults>> /\ Same

-------------------------------------------------------------------------------
(* stop.                                                                   *)
StopGoes(from, to) == stop = from /\ stop' = to
Kept == UNCHANGED <<runVars, mySession, myTask, lateVars>>

\* The provider is no longer owned, whatever becomes of the call.
BeginStop ==
  /\ StopGoes("none", "mark") /\ stopSession' = session
  /\ UNCHANGED <<flagVars, aborted, rowVars, stopTask, faults>> /\ Kept

MarkCancelling ==
  /\ stop = "mark"
  /\ IF Updates(session, stopSession, "Cancelling" \in SessionSuccessors[stopSession.life])
       THEN session' = Next1(session, "Cancelling") /\ stop' = "cancel"
       ELSE stop' = "error" /\ UNCHANGED session
  /\ UNCHANGED <<flagVars, aborted, task, turnCompleted, stopSession, stopTask, faults>> /\ Kept

Cancel ==
  /\ StopGoes("cancel", "wait") /\ flag' = TRUE
  /\ UNCHANGED <<woken, aborted, rowVars, stopSession, stopTask, faults>> /\ Kept

\* notify_waiters wakes who waits now.  What is to come is not told.
Wake ==
  /\ stop = "wait" /\ stop' = "waiting" /\ woken' = (loop = "wait")
  /\ UNCHANGED <<flag, aborted, rowVars, stopSession, stopTask, faults>> /\ Kept

\* The run has ended, or five seconds have passed.
Waited ==
  /\ stop = "waiting"
  /\ aborted' = (loop # "ended")
  /\ stop' = "session" /\ stopSession' = session
  /\ UNCHANGED <<flagVars, rowVars, stopTask, faults>> /\ Kept

SettleStopped ==
  /\ stop = "session"
  /\ IF stopSession.life # "Cancelling" THEN stop' = "reread" /\ UNCHANGED session
     ELSE IF Updates(session, stopSession, TRUE)
       THEN session' = Next1(session, "Cancelled") /\ stop' = "reread"
       ELSE stop' = "error" /\ UNCHANGED session
  /\ UNCHANGED <<flagVars, aborted, task, turnCompleted, stopSession, stopTask, faults>> /\ Kept

ReadTask ==
  /\ stop = "reread" /\ stopTask' = task
  /\ stop' = IF task.life \in TaskTerminal THEN "ok" ELSE "task"
  /\ UNCHANGED <<flagVars, aborted, rowVars, stopSession, faults>> /\ Kept

CancelTask ==
  /\ stop = "task"
  /\ IF Updates(task, stopTask, "Cancelled" \in TaskSuccessors[stopTask.life])
       THEN task' = Next1(task, "Cancelled") /\ stop' = "ok"
       ELSE stop' = "error" /\ UNCHANGED task
  /\ UNCHANGED <<flagVars, aborted, session, turnCompleted, stopSession, stopTask, faults>> /\ Kept

StopFails ==
  /\ stop \in {"mark", "session", "reread", "task"} /\ StoreFault /\ stop' = "error"
  /\ UNCHANGED <<flagVars, aborted, rowVars, stopSession, stopTask>> /\ Kept

ApiNext ==
  \/ BeginRound \/ StartRequest \/ WorkerEnds \/ LookAtFlag \/ RegisterWaiter \/ WokenUp
  \/ TakeAnswer \/ Execute
  \/ ReadSession \/ SettleSession \/ StoreTurn \/ StoreFailure \/ BlockTask \/ PersistFails
  \/ DropRun
  \/ BeginStop \/ MarkCancelling \/ Cancel \/ Wake \/ Waited \/ SettleStopped \/ ReadTask
  \/ CancelTask \/ StopFails

ApiSpec == ApiInit /\ [][ApiNext]_apiVars

-------------------------------------------------------------------------------
(* Properties.                                                             *)
ControlType ==
  /\ loop \in {"check", "start", "look", "register", "wait", "tools", "settle", "session",
               "event", "artifact", "task", "ended", "dropped"}
  /\ round \in 0 .. Rounds /\ calls \in 0 .. MaxCalls
  /\ outcome \in {"none", "done", "failed", "cancelled"} /\ worker \in Answers \cup {"none", "busy"}
  /\ stop \in {"none", "mark", "cancel", "wait", "waiting", "session", "reread", "task", "ok",
               "error"}
  /\ faults \in 0 .. StoreFaults /\ lateRequests \in Nat /\ lateCalls \in Nat

FlagType == /\ flag \in BOOLEAN /\ woken \in BOOLEAN
            /\ aborted \in BOOLEAN /\ turnCompleted \in BOOLEAN

SessionRow == [life : SessionLifecycle, version : Nat]
TaskRow    == [life : TaskLifecycle, version : Nat]
RowType ==
  /\ session \in SessionRow /\ mySession \in SessionRow /\ stopSession \in SessionRow
  /\ task \in TaskRow /\ myTask \in TaskRow /\ stopTask \in TaskRow

ApiTypeOK == ControlType /\ FlagType /\ RowType

\* Once a run is cancelled it asks its provider at most once more, carries out at most the
\* tool calls of one answer, and does so even where the wake-up was lost.
CancelBounds == lateRequests <= 1 /\ lateCalls <= MaxCalls

\* After a stop that went well the session is cancelled and the task is over, and no late
\* write of the run changes that.  A run that has ended by itself has left the task with a
\* completed turn or at an end, unless the store failed or it was aborted.
RunSettles ==
  /\ stop = "ok" => session.life = "Cancelled" /\ task.life \in {"Cancelled", "Blocked"}
  /\ loop = "ended" /\ stop \in {"none", "error"} /\ faults = 0 /\ ~aborted
       => turnCompleted \/ task.life \in TaskTerminal

===============================================================================
