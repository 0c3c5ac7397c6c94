----------------------------- MODULE RunLifecycle -----------------------------
(***************************************************************************)
(* One run of an agent in the desktop application: crates/sentinel-runtime *)
(* (the orchestrator and its runner task), crates/sentinel-process (the    *)
(* child's process group), the runs and run_events tables, and the task    *)
(* that forwards the run's events to the window.                           *)
(*                                                                         *)
(* The runner writes every event before it publishes it, collects evidence *)
(* and ends the run once.  Meanwhile the child writes, exits and leaves    *)
(* descendants, the user cancels, the store refuses a write, the forwarder *)
(* lags behind, and the application may die.                               *)
(***************************************************************************)
EXTENDS Naturals, Sequences, SequencesExt

CONSTANTS
  Kinds,      \* of runs: "fake" (the built-in agent), "codex", "claude"; "none"
  Capacity,   \* of the broadcast channel of live events
  MaxLines,   \* bound: lines the child writes
  MaxFaults   \* bound: refused writes of the store, failed waits of the system

ASSUME KindsAssumption == Kinds \subseteq {"none", "fake", "codex", "claude"}
ASSUME BoundAssumption == Capacity \in Nat \ {0} /\ {MaxLines, MaxFaults} \subseteq Nat

VARIABLES
  kind,     \* of the run, or "none": nothing runs
  status,   \* its row: a RunStatus, or "none"
  events,   \* its rows of run_events, in order
  faults,   \* faults so far
  seq,      \* the runner: the last sequence number it used,
  rpc,      \*   where it is,
  ev,       \*   and what it has seen (RunOutcomeEvidence)
  entry,    \* the active map: "none", "active", "requested", "finalizing"
  command,  \* a Cancel in the runner's channel?
  outcome,  \* what waiters are told: "pending", "ok", "error"
  parent,   \* the child: "none", "live", "exited",
  code,     \*   its exit code: "none" (no exit yet, or a signal), "zero", "other"
  kids,     \*   descendants in its group: "none", "quiet", "holding" its output
  output,   \* lines the runner has not read
  lines,    \* lines written so far
  fw,       \* the forwarder: "none", "replay", "late", "live", "done"
  live,     \* what its receiver buffers
  lagged,   \* has its receiver lost events?
  shown,    \* events the window got
  host      \* "up", "down", "boot": starting again

storeVars   == <<status, events, faults>>
runnerVars  == <<seq, rpc, ev>>
activeVars  == <<entry, command, outcome>>
childVars   == <<parent, code, kids, output, lines>>
forwardVars == <<fw, live, lagged, shown>>
runVars == <<kind, storeVars, runnerVars, activeVars, childVars, forwardVars,
             host>>

-------------------------------------------------------------------------------
\* The run's row and its events.

Terminal == {"cancelled", "completed", "failed"}
Open     == {"queued", "preparing", "running", "cancelling"}

\* RunStatus::transition
Successors ==
  [s \in {"none"} \union Open \union Terminal |->
     CASE s = "queued"     -> {"preparing", "cancelled"}
       [] s = "preparing"  -> {"running", "failed", "cancelled"}
       [] s = "running"    -> {"cancelling", "completed", "failed"}
       [] s = "cancelling" -> {"cancelled", "failed"}
       [] OTHER            -> {}]

AgentLines == {"event", "failed", "garbage", "broken", "oversized"}
EventTypes == {"preparing", "running", "cancelling", "event", "agent_failed",
               "parser_error"} \union Terminal
Winners    == {"none", "failure", "cancel", "exit"}

NoEvidence == [failed |-> FALSE, malformed |-> FALSE, store |-> FALSE,
               term |-> FALSE, fatal |-> FALSE, linger |-> FALSE,
               exit |-> "none", winner |-> "none"]

\* A live event reaches the receiver's buffer; a full one loses its oldest.
Publish(e) ==
  IF fw \in {"replay", "live"}
  THEN /\ live' = Append(IF Len(live) < Capacity THEN live ELSE Tail(live), e)
       /\ lagged' = (lagged \/ Len(live) >= Capacity)
  ELSE UNCHANGED <<live, lagged>>

\* The next event, written and then published.
Record(t) ==
  LET e == [n |-> seq + 1, type |-> t]
  IN /\ seq' = seq + 1
     /\ events' = Append(events, e)
     /\ Publish(e)
     /\ UNCHANGED <<faults, fw, shown>>

\* transition_with_event: the row and the event, or neither.
Persist(s) == s \in Successors[status] /\ status' = s /\ Record(s)
\* append_event
Append1(t) == Record(t) /\ UNCHANGED status

\* A refused write has used its number.
Lost ==
  /\ seq' = seq + 1
  /\ UNCHANGED <<status, events, forwardVars>>
StoreFault == faults < MaxFaults /\ faults' = faults + 1 /\ Lost

-------------------------------------------------------------------------------
RunInit ==
  /\ kind \in Kinds
  /\ status = "none" /\ events = <<>> /\ faults = 0
  /\ seq = 0 /\ rpc = "none" /\ ev = NoEvidence
  /\ entry = "none" /\ command = FALSE /\ outcome = "pending"
  /\ parent = "none" /\ code = "none" /\ kids = "none" /\ output = <<>> /\ lines = 0
  /\ fw = "none" /\ live = <<>> /\ lagged = FALSE /\ shown = <<>>
  /\ host = "up"

\* submit_run, and submit_existing_codex_run for a row that is queued: the run
\* is registered and its runner started.
Register ==
  /\ entry' = "active" /\ command' = FALSE /\ outcome' = "pending"
  /\ rpc' = "prepare" /\ seq' = 0 /\ ev' = NoEvidence

SubmitRun ==
  /\ host = "up" /\ kind = "fake" /\ status = "none"
  /\ status' = "queued"
  /\ Register
  /\ UNCHANGED <<kind, events, faults, childVars, forwardVars, host>>

\* cancel_run; every other state of the entry is answered and left alone.
CancelRun ==
  /\ host = "up" /\ entry = "active"
  /\ entry' = "requested" /\ command' = TRUE
  /\ UNCHANGED <<kind, storeVars, runnerVars, outcome, childVars, forwardVars, host>>

-------------------------------------------------------------------------------
\* The runner.

Preparing ==
  /\ rpc = "prepare"
  /\ \/ Persist("preparing") /\ rpc' = "spawn" /\ UNCHANGED ev
     \/ StoreFault /\ rpc' = "finalize" /\ ev' = [ev EXCEPT !.store = TRUE]
  /\ UNCHANGED <<kind, activeVars, childVars, host>>

\* The built-in agent's runner looks for a cancellation before it spawns.
CancelBeforeSpawn ==
  /\ rpc = "spawn" /\ kind = "fake" /\ command
  /\ command' = FALSE
  /\ ev' = [ev EXCEPT !.winner = "cancel"] /\ rpc' = "finalize"
  /\ UNCHANGED <<kind, storeVars, seq, entry, outcome, childVars, forwardVars, host>>

Spawn ==
  /\ rpc = "spawn" /\ (kind = "fake" => ~command)
  /\ parent' = "live" /\ rpc' = "start"
  /\ UNCHANGED <<kind, storeVars, seq, ev, activeVars, code, kids, output, lines,
                 forwardVars, host>>

SpawnFails ==
  /\ rpc = "spawn" /\ (kind = "fake" => ~command)
  /\ ev' = [ev EXCEPT !.fatal = TRUE] /\ rpc' = "finalize"
  /\ UNCHANGED <<kind, storeVars, seq, activeVars, childVars, forwardVars, host>>

Running ==
  /\ rpc = "start"
  /\ \/ Persist("running") /\ rpc' = "loop" /\ UNCHANGED <<ev, entry>>
     \/ /\ StoreFault /\ rpc' = "abort"
        /\ ev' = [ev EXCEPT !.store = TRUE]
        /\ entry' = IF kind = "fake" THEN "finalizing" ELSE entry
  /\ UNCHANGED <<kind, command, outcome, childVars, host>>

\* A failure the agent reports is evidence before its event is written.
SeesFailure(h) ==
  IF h = "failed"
  THEN [ev EXCEPT !.failed = TRUE,
                  !.winner = IF @ = "none" THEN "failure" ELSE @]
  ELSE IF h \in {"garbage", "broken"} THEN [ev EXCEPT !.malformed = TRUE]
  ELSE ev

\* Mutant: the line itself becomes the event.
RawEvent(h) == h

EventOf(h) == CASE h = "failed" -> "agent_failed"
                [] h = "event"  -> "event"
                [] OTHER        -> "parser_error"

\* A line is recorded; an oversized event is refused by the store's own check.
Recorded(h)  == h # "oversized" /\ Append1(EventOf(h))
Unrecorded(h) == IF h = "oversized" THEN Lost /\ UNCHANGED faults ELSE StoreFault

\* The loop and, after the exit, the bounded drain of the built-in agent's
\* runner: the first event that cannot be stored ends it.
Line ==
  /\ rpc \in {"loop", "drain"} /\ kind = "fake" /\ output # <<>>
  /\ output' = Tail(output)
  /\ \/ Recorded(Head(output)) /\ ev' = SeesFailure(Head(output))
        /\ UNCHANGED <<rpc, entry>>
     \/ Unrecorded(Head(output))
        /\ ev' = [SeesFailure(Head(output)) EXCEPT !.store = TRUE]
        /\ rpc' = "stop" /\ entry' = "finalizing"
  /\ UNCHANGED <<kind, command, outcome, parent, code, kids, lines, host>>

\* Codex: a line that is no event ends the run, recorded or not; a broken pipe
\* ends the reading and leaves the child alone.
CodexLine ==
  /\ rpc = "loop" /\ kind = "codex" /\ output # <<>>
  /\ output' = Tail(output)
  /\ LET h == Head(output)
     IN \/ /\ Recorded(h) /\ ev' = SeesFailure(h)
           /\ rpc' = CASE h = "garbage" -> "stop"
                       [] h = "broken"  -> "wait"
                       [] OTHER         -> rpc
        \/ /\ Unrecorded(h)
           /\ ev' = IF h \in {"garbage", "broken"} THEN SeesFailure(h)
                    ELSE [SeesFailure(h) EXCEPT !.store = TRUE]
           /\ rpc' = IF h = "broken" THEN "wait" ELSE "stop"
  /\ UNCHANGED <<kind, activeVars, parent, code, kids, lines, host>>

CancelWins == [ev EXCEPT !.winner = IF @ = "none" THEN "cancel" ELSE @]

\* The command is taken; then the group is terminated.
CancelSeen ==
  /\ rpc = "loop" /\ command
  /\ command' = FALSE /\ rpc' = "kill"
  /\ \/ Persist("cancelling") /\ ev' = CancelWins
     \/ /\ StoreFault
        /\ ev' = IF kind = "fake" THEN [ev EXCEPT !.store = TRUE] ELSE CancelWins
  /\ UNCHANGED <<kind, entry, outcome, childVars, host>>

\* SupervisedProcess::cancel: the group is signalled, then killed; the child is
\* reaped, and what it returns is its code if it exited by itself.
Reaped ==
  /\ parent' = "exited" /\ kids' = "none"
  /\ code' \in IF parent = "exited" THEN {code} ELSE {"none", "zero"}
\* A descendant survives both signals.
GroupStillAlive == parent' = "exited" /\ UNCHANGED <<code, kids>> /\ kids # "none"

AfterKill == IF kind = "fake" THEN "finalize" ELSE "wait"

Kill ==
  /\ rpc = "kill"
  /\ \/ Reaped /\ ev' = [ev EXCEPT !.exit = code']
     \/ GroupStillAlive /\ ev' = [ev EXCEPT !.term = TRUE]
  /\ rpc' = IF kind = "codex" /\ ev'.exit # "none" THEN "finalize" ELSE AfterKill
  /\ UNCHANGED <<kind, storeVars, seq, activeVars, output, lines, forwardVars, host>>

\* After an event that could not be stored or, for Codex, understood.
Stop ==
  /\ rpc = "stop"
  /\ \/ Reaped /\ ev' = IF kind = "fake" THEN [ev EXCEPT !.exit = code'] ELSE ev
     \/ GroupStillAlive /\ ev' = IF kind = "fake" THEN [ev EXCEPT !.term = TRUE] ELSE ev
  /\ rpc' = AfterKill
  /\ UNCHANGED <<kind, storeVars, seq, activeVars, output, lines, forwardVars, host>>

\* After a running state that could not be stored.
Abort ==
  /\ rpc = "abort"
  /\ \/ Reaped /\ UNCHANGED ev
     \/ GroupStillAlive /\ ev' = IF kind = "fake" THEN [ev EXCEPT !.term = TRUE] ELSE ev
  /\ rpc' = "finalize"
  /\ UNCHANGED <<kind, storeVars, seq, activeVars, output, lines, forwardVars, host>>

\* try_wait finds the child gone; its output may not have been read yet.
ObserveExit ==
  /\ rpc = "loop" /\ kind = "fake" /\ parent = "exited"
  /\ ev' = [ev EXCEPT !.exit = code, !.winner = IF @ = "none" THEN "exit" ELSE @]
  /\ rpc' = "settle"
  /\ UNCHANGED <<kind, storeVars, seq, activeVars, childVars, forwardVars, host>>

CannotWait ==
  /\ rpc = "loop" /\ kind = "fake" /\ faults < MaxFaults
  /\ faults' = faults + 1
  /\ ev' = [ev EXCEPT !.fatal = TRUE] /\ rpc' = "finalize"
  /\ UNCHANGED <<kind, status, events, seq, activeVars, childVars, forwardVars, host>>

\* Mutant: only the child is looked at, not its group.
SettleChildOnly ==
  /\ rpc = "settle"
  /\ entry' = "finalizing" /\ rpc' = "drain"
  /\ UNCHANGED <<kind, storeVars, seq, ev, command, outcome, childVars, forwardVars, host>>

\* The capability to cancel ends; a group that outlived its child is killed.
Settle ==
  /\ rpc = "settle"
  /\ entry' = "finalizing" /\ rpc' = "drain"
  /\ \/ kids = "none" /\ UNCHANGED <<ev, kids>>
     \/ kids # "none" /\ kids' = "none" /\ ev' = [ev EXCEPT !.linger = TRUE]
     \/ kids # "none" /\ UNCHANGED kids
        /\ ev' = [ev EXCEPT !.linger = TRUE, !.term = TRUE]
  /\ UNCHANGED <<kind, storeVars, seq, command, outcome, parent, code, output, lines,
                 forwardVars, host>>

\* A command that comes now is taken and changes nothing.
DrainCommand ==
  /\ rpc = "drain" /\ command
  /\ command' = FALSE
  /\ UNCHANGED <<kind, storeVars, runnerVars, entry, outcome, childVars, forwardVars,
                 host>>

\* The output is closed, or the deadline has passed.
DrainEnds ==
  /\ rpc = "drain"
  /\ rpc' = "finalize"
  /\ UNCHANGED <<kind, storeVars, seq, ev, activeVars, childVars, forwardVars, host>>

\* Codex reads until nobody can write any more, then waits for the child.
OutputClosed ==
  /\ rpc = "loop" /\ kind = "codex"
  /\ output = <<>> /\ parent = "exited" /\ kids # "holding"
  /\ rpc' = "wait"
  /\ UNCHANGED <<kind, storeVars, seq, ev, activeVars, childVars, forwardVars, host>>

WaitForExit ==
  /\ rpc = "wait"
  /\ \/ /\ parent = "exited"
        /\ ev' = [ev EXCEPT !.exit = code, !.winner = IF @ = "none" THEN "exit" ELSE @]
        /\ UNCHANGED childVars
     \/ /\ parent = "live"
        /\ ev' = [ev EXCEPT !.term = TRUE]
        /\ Reaped \/ GroupStillAlive
        /\ UNCHANGED <<output, lines>>
  /\ rpc' = "finalize"
  /\ UNCHANGED <<kind, storeVars, seq, activeVars, forwardVars, host>>

\* Mutant: what was seen last decides.
LastEvidence(e) ==
  IF e.store \/ e.term \/ e.fatal \/ e.linger \/ e.malformed THEN "failed"
  ELSE IF e.exit = "zero" THEN "completed"
  ELSE IF e.winner = "cancel" THEN "cancelled"
  ELSE "failed"

\* resolve_terminal_outcome
Resolve(e) ==
  IF e.store \/ e.term \/ e.fatal \/ e.linger THEN "failed"
  ELSE IF e.winner = "cancel" THEN "cancelled"
  ELSE IF e.failed \/ e.malformed \/ e.exit # "zero" THEN "failed"
  ELSE IF e.winner = "exit" THEN "completed"
  ELSE "failed"

\* finalize: the marker, the terminal row with its event, the waiters, the map.
Finalize ==
  /\ rpc = "finalize"
  /\ entry' = "finalizing" /\ rpc' = "finish"
  /\ UNCHANGED <<kind, storeVars, seq, ev, command, outcome, childVars, forwardVars, host>>

\* Mutant: a terminal row that cannot be stored ends the runner.
FinishOrReturn ==
  /\ rpc = "finish" /\ status # "queued"
  /\ \/ Persist(Resolve(ev)) /\ outcome' = "ok" /\ rpc' = "leave"
     \/ StoreFault /\ rpc' = "done" /\ UNCHANGED outcome
  /\ UNCHANGED <<kind, ev, entry, command, childVars, host>>

Finish ==
  /\ rpc = "finish" /\ status # "queued"
  /\ \/ /\ Persist(Resolve(ev))
        /\ outcome' = IF ev.store \/ ev.term THEN "error" ELSE "ok"
     \/ Resolve(ev) \notin Successors[status] /\ Lost /\ UNCHANGED faults
        /\ outcome' = "error"
     \/ StoreFault /\ outcome' = "error"
  /\ rpc' = "leave"
  /\ UNCHANGED <<kind, ev, entry, command, childVars, host>>

\* The first state was never stored: nothing is.
FinishUnstored ==
  /\ rpc = "finish" /\ status = "queued"
  /\ outcome' = "error" /\ rpc' = "leave"
  /\ UNCHANGED <<kind, storeVars, seq, ev, entry, command, childVars, forwardVars, host>>

Leave ==
  /\ rpc = "leave"
  /\ entry' = "none" /\ rpc' = "done"
  /\ UNCHANGED <<kind, storeVars, seq, ev, command, outcome, childVars, forwardVars, host>>

-------------------------------------------------------------------------------
\* The child.

AgentWrites(l) ==
  /\ parent = "live" /\ lines < MaxLines /\ host = "up"
  /\ l = "oversized" => kind = "fake"
  /\ output' = Append(output, l) /\ lines' = lines + 1
  /\ UNCHANGED <<kind, storeVars, runnerVars, activeVars, parent, code, kids,
                 forwardVars, host>>

AgentExits ==
  /\ parent = "live"
  /\ parent' = "exited"
  /\ code' \in {"zero", "other"}
  /\ kids' \in {"none", "quiet", "holding"}
  /\ UNCHANGED <<kind, storeVars, runnerVars, activeVars, output, lines, forwardVars,
                 host>>

KidsExit ==
  /\ parent = "exited" /\ kids # "none"
  /\ kids' = "none"
  /\ UNCHANGED <<kind, storeVars, runnerVars, activeVars, parent, code, output, lines,
                 forwardVars, host>>

-------------------------------------------------------------------------------
\* The forwarder of the run's events to the window.

LastShown == IF shown = <<>> THEN 0 ELSE shown[Len(shown)].n
Ended(s)  == \E i \in DOMAIN s : s[i].type \in Terminal

\* Mutant: a run that has left the map is not forwarded.
SubscribeIfActive ==
  /\ host = "up" /\ kind = "fake" /\ fw = "none" /\ status # "none"
  /\ fw' = IF entry = "none" THEN "done" ELSE "replay"
  /\ UNCHANGED <<kind, storeVars, runnerVars, activeVars, childVars, live, lagged, shown,
                 host>>

\* submit_fake_run: subscribe first.  A fast run may have left the map.
SubscribeRun ==
  /\ host = "up" /\ kind = "fake" /\ fw = "none" /\ status # "none"
  /\ fw' = IF entry = "none" THEN "late" ELSE "replay"
  /\ UNCHANGED <<kind, storeVars, runnerVars, activeVars, childVars, live, lagged, shown,
                 host>>

\* replay_persisted_events: the rows with a number above the last one shown; they
\* are read in the order of their numbers, which is that of the history.
ShowStored ==
  \E k \in 0..Len(events) :
    /\ \A i \in 1..k : events[i].n <= LastShown
    /\ \A i \in (k + 1)..Len(events) : events[i].n > LastShown
    /\ shown' = shown \o SubSeq(events, k + 1, Len(events))

Replay ==
  /\ host = "up" /\ fw \in {"replay", "late"}
  /\ ShowStored
  /\ fw' = IF fw = "late" \/ Ended(shown') THEN "done" ELSE "live"
  /\ UNCHANGED <<kind, storeVars, runnerVars, activeVars, childVars, live, lagged, host>>

ReplayFails ==
  /\ host = "up" /\ faults < MaxFaults
  /\ fw \in {"replay", "late"} \/ (fw = "live" /\ lagged)
  /\ faults' = faults + 1 /\ fw' = "done"
  /\ UNCHANGED <<kind, status, events, runnerVars, activeVars, childVars, live, lagged,
                 shown, host>>

\* A receiver that lost events is told so before it gets the next one.
ReplayLagged ==
  /\ host = "up" /\ fw = "live" /\ lagged
  /\ lagged' = FALSE
  /\ ShowStored
  /\ fw' = IF Ended(shown') THEN "done" ELSE fw
  /\ UNCHANGED <<kind, storeVars, runnerVars, activeVars, childVars, live, host>>

\* Mutant: what the replay has shown is shown again.
ForwardAll ==
  /\ host = "up" /\ fw = "live" /\ ~lagged /\ live # <<>>
  /\ live' = Tail(live)
  /\ shown' = Append(shown, Head(live))
  /\ fw' = IF Ended(shown') THEN "done" ELSE fw
  /\ UNCHANGED <<kind, storeVars, runnerVars, activeVars, childVars, lagged, host>>

ForwardLive ==
  /\ host = "up" /\ fw = "live" /\ ~lagged /\ live # <<>>
  /\ live' = Tail(live)
  /\ shown' = IF Head(live).n > LastShown THEN Append(shown, Head(live)) ELSE shown
  /\ fw' = IF Ended(shown') THEN "done" ELSE fw
  /\ UNCHANGED <<kind, storeVars, runnerVars, activeVars, childVars, lagged, host>>

\* The run has dropped its sender.
ForwardClosed ==
  /\ host = "up" /\ fw = "live" /\ ~lagged /\ live = <<>> /\ rpc = "done"
  /\ ShowStored
  /\ fw' = "done"
  /\ UNCHANGED <<kind, storeVars, runnerVars, activeVars, childVars, live, lagged, host>>

-------------------------------------------------------------------------------
\* The application dies: the rows stay, and so does the child's group.
Vanish ==
  /\ entry' = "none" /\ command' = FALSE /\ rpc' = "none" /\ fw' = "none"
  /\ live' = <<>> /\ lagged' = FALSE /\ shown' = <<>> /\ output' = <<>>
  /\ seq' = 0 /\ ev' = NoEvidence /\ outcome' = "pending" /\ code' = "none"
  /\ host' = "down"
  /\ UNCHANGED <<kind, storeVars, parent, kids, lines>>

Runner == \/ Preparing \/ CancelBeforeSpawn \/ Spawn \/ SpawnFails \/ Running
          \/ Line \/ CodexLine \/ CancelSeen \/ Kill \/ Stop \/ Abort
          \/ ObserveExit \/ CannotWait \/ Settle \/ DrainCommand \/ DrainEnds
          \/ OutputClosed \/ WaitForExit \/ Finalize \/ Finish \/ FinishUnstored
          \/ Leave
Child == AgentExits \/ KidsExit \/ \E l \in AgentLines : AgentWrites(l)
Forwarder == SubscribeRun \/ Replay \/ ReplayFails \/ ReplayLagged \/ ForwardLive
             \/ ForwardClosed

-------------------------------------------------------------------------------
RunTypeOK ==
  /\ kind \in Kinds
  /\ status \in DOMAIN Successors /\ events \in Seq([n: Nat, type: EventTypes])
  /\ faults \in 0..MaxFaults
  /\ seq \in Nat
  /\ rpc \in {"none", "prepare", "spawn", "start", "loop", "kill", "stop", "abort",
              "settle", "drain", "wait", "finalize", "finish", "leave", "done"}
  /\ ev \in [failed: BOOLEAN, malformed: BOOLEAN, store: BOOLEAN, term: BOOLEAN,
             fatal: BOOLEAN, linger: BOOLEAN, exit: {"none", "zero", "other"},
             winner: Winners]
  /\ entry \in {"none", "active", "requested", "finalizing"}
  /\ command \in BOOLEAN /\ outcome \in {"pending", "ok", "error"}
  /\ parent \in {"none", "live", "exited"} /\ code \in {"none", "zero", "other"}
  /\ kids \in {"none", "quiet", "holding"}
  /\ output \in Seq(AgentLines) /\ lines \in 0..MaxLines
  /\ fw \in {"none", "replay", "late", "live", "done"}
  /\ live \in Seq([n: Nat, type: EventTypes]) /\ lagged \in BOOLEAN
  /\ shown \in Seq([n: Nat, type: EventTypes]) /\ host \in {"up", "boot", "down"}

Types(s) == {s[i].type : i \in DOMAIN s}

\* The row and the history agree on how the run ended: one terminal event, the
\* last one, of the row's status.
RowIsHistory ==
  /\ \A i \in DOMAIN events : events[i].type \in Terminal => i = Len(events)
  /\ (status \in Terminal \/ Ended(events)) =>
       events # <<>> /\ events[Len(events)].type = status

\* A cancellation that was recorded before any failure of the agent stands, and
\* one that came after it does not, whatever the child's exit says later.
FirstEvidenceDecides ==
  rpc # "none" /\ status \in Terminal /\ "cancelling" \in Types(events)
  /\ ~(ev.store \/ ev.term \/ ev.fatal) =>
    LET at(t) == {i \in DOMAIN events : events[i].type = t}
    IN status = "cancelled"
       <=> \A i \in at("agent_failed"), j \in at("cancelling") : j < i

\* A run nobody works on any more has ended, unless the store refused a write:
\* no order of cancellation, failure and exit asks the row for a step it cannot
\* take.
OnlyFaultsStrand == rpc = "done" /\ status \notin Terminal => faults > 0

\* A run ends once and for the reason that came first, and none is left open but by
\* a store that refused.
OneEnding == RowIsHistory /\ FirstEvidenceDecides /\ OnlyFaultsStrand

\* The window has seen the beginning of the history, without gaps, repetitions
\* or anything out of order.
ShownIsHistory == IsPrefix(shown, events)

\* A run that is over and did not report that it failed to clean up has no
\* process left; a completed one, also after a restart, reported no failure and
\* no garbage either, and nobody's cancellation was recorded.  The runner of
\* Codex looks at the child only.
NothingLeftRunning ==
  /\ rpc = "done" /\ ~ev.term /\ ~ev.fatal =>
       parent # "live" /\ (kind = "fake" => kids = "none")
  /\ status = "completed" =>
       /\ Types(events) \intersect {"agent_failed", "parser_error", "cancelling"} = {}
       /\ kind = "fake" => parent = "exited" /\ kids = "none"

\* A cancelled or ending run leaves the map, and with it every waiter is told.
CancelSettles == []<>(entry \notin {"requested", "finalizing"})

\* The window gets the end of the run, unless the store could not be read.
EndIsShown ==
  []<>(\/ Ended(events) /\ fw # "none" => Ended(shown)
       \/ faults > 0 \/ host = "down")

===============================================================================
