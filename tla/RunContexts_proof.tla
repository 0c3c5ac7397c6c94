--------------------------- MODULE RunContexts_proof --------------------------
(***************************************************************************)
(* What a run of the desktop application, its context and its approvals    *)
(* agree on, for every kind of run, any output of the child, any number of *)
(* windows, cancellations, restarts and writes the store refuses.          *)
(*                                                                         *)
(* ContextInv relates the context's row to the run and to the rows that    *)
(* its commands hold.  RunInv relates the runner's place and evidence to   *)
(* the run's row, its history, the child and what the window was shown.    *)
(* With the types they are inductive.                                      *)
(***************************************************************************)
EXTENDS RunContexts, SequenceTheorems, TLAPS

\* The rows of the context, as they are and as somebody has read them.
RowTypes == ctx \in Row /\ watched \in Row /\ cancelled \in Row

\* The runner and the map: a run that is off the map is over, and its waiters
\* have been told by the time it is about to leave.
MapInv ==
  /\ entry \in {"none", "active", "requested", "finalizing"}
  /\ entry = "none" => rpc \in {"none", "done"}
  /\ rpc \in {"leave", "done"} => outcome # "pending"
  /\ host # "up" => rpc = "none" /\ start = "done"

\* Who may have started a run, and how far the context is by then.
StartInv ==
  /\ kind \notin {"codex", "claude"} => ctx.lc = "none"
  /\ start \in {"starting", "submitted", "giveup"} => kind = "codex"
  /\ kind # "fake" /\ rpc # "none" =>
       /\ kind = "codex" /\ ctx.lc \notin {"none", "created"}
       /\ start \in {"submitted", "giveup", "done"}
  /\ start = "starting" => ctx.lc \in {"starting", "cancelling"}
  /\ start = "giveup" => entry # "active"

\* What the watcher and a cancellation hold: the version tells whether the row
\* is still the one that was read.
HeldInv ==
  /\ watch \in {"waiting", "read"} => start = "done" /\ ctx.lc # "none"
  /\ watch = "read" =>
       /\ outcome # "pending" \/ rpc = "none"
       /\ watched.ver <= ctx.ver
       /\ watched.ver = ctx.ver => watched = ctx
  /\ cancel = "write" => cancelled.lc \in Active

\* An approval that is being created is not there yet.
AskInv == DecidedOnce /\ (asking => ask = "none")

ContextInv ==
  /\ RowTypes /\ MapInv /\ StartInv /\ HeldInv /\ AskInv
  /\ EndedContextEndsRun

-------------------------------------------------------------------------------
\* What the table says, and what a guarded update does to the context.
LEMMA RowFollows ==
  /\ \A s \in Over : Follows[s] = {}
  /\ Follows["none"] = {}
  /\ \A s \in Active : Follows[s] \subseteq Active \union Over
  /\ \A s \in Active : "succeeded" \in Follows[s] => s = "running"
  /\ "running" \notin Follows["cancelling"]
  /\ "none" \notin Active \union Over /\ Active \intersect Over = {}
BY DEF Follows, Active, Over

LEMMA UpdateMoves ==
  ASSUME RowTypes, NEW row \in Row, NEW next, Update(row, next)
  PROVE  /\ ctx.lc \in Active /\ ctx' \in Row /\ ctx'.lc = next
         /\ next \in Follows[ctx.lc] /\ next # "none"
         /\ ctx'.req = ctx.req /\ ctx'.ver = ctx.ver + 1
<1>1. /\ ctx = [lc |-> ctx.lc, req |-> ctx.req, ver |-> ctx.ver]
      /\ ctx.lc \in {"none"} \union Active \union Over
      /\ ctx.req \in BOOLEAN /\ ctx.ver \in Nat
  BY DEF RowTypes, Row
<1>2. next \in Follows[ctx.lc]
  BY DEF Update
<1>3. ctx.lc \in Active /\ next \in Active \union Over
  BY <1>1, <1>2, RowFollows
<1>4. ctx' = [lc |-> next, req |-> ctx.req, ver |-> ctx.ver + 1]
  BY <1>1 DEF Update
<1>5. QED
  BY <1>1, <1>2, <1>3, <1>4, RowFollows DEF Row

LEMMA HeldRows == \A lc \in {"created", "starting"} : Held(lc) \in Row
BY DEF Held, Row, Active

LEMMA RunEnds == \A s \in Terminal : Successors[s] = {}
BY DEF Terminal, Successors, Open

\* What the parts of a run leave alone.
LEMMA RunnerMoves ==
  ASSUME Runner
  PROVE  /\ kind' = kind /\ host' = host /\ rpc # "none" /\ rpc' # "none"
         /\ status' = status \/ status' \in Successors[status]
         /\ outcome' = outcome \/ outcome' # "pending"
         /\ entry' = entry \/ entry' = "finalizing" \/ rpc = "leave"
         /\ rpc # "done"
         /\ rpc' = "leave" => outcome' # "pending"
         /\ rpc' = "done" => rpc = "leave"
         /\ rpc = "leave" => rpc' = "done" /\ entry' = "none"
<1> USE DEF storeVars, runnerVars, activeVars, childVars, forwardVars, Persist,
            Append1, Record, StoreFault, Lost, AfterKill
<1>1. CASE Preparing \/ CancelBeforeSpawn \/ Spawn \/ SpawnFails \/ Running
  BY <1>1 DEF Preparing, CancelBeforeSpawn, Spawn, SpawnFails, Running
<1>2. CASE Line \/ CodexLine
  BY <1>2 DEF Line, CodexLine, Recorded, Unrecorded
<1>3. CASE CancelSeen \/ Kill \/ Stop \/ Abort
  BY <1>3 DEF CancelSeen, Kill, Stop, Abort
<1>4. CASE ObserveExit \/ CannotWait \/ Settle \/ DrainCommand \/ DrainEnds
           \/ OutputClosed \/ WaitForExit
  BY <1>4
  DEF ObserveExit, CannotWait, Settle, DrainCommand, DrainEnds, OutputClosed,
      WaitForExit
<1>5. CASE Finalize \/ Finish \/ FinishUnstored \/ Leave
  BY <1>5 DEF Finalize, Finish, FinishUnstored, Leave
<1>6. QED
  BY <1>1, <1>2, <1>3, <1>4, <1>5 DEF Runner

LEMMA OthersLeave ==
  ASSUME Child \/ Forwarder
  PROVE  UNCHANGED <<kind, status, events, rpc, entry, outcome, host, seq, ev>>
BY DEF Child, AgentExits, KidsExit, AgentWrites, Forwarder, SubscribeRun, Replay,
       ReplayFails, ReplayLagged, ForwardLive, ForwardClosed, storeVars,
       runnerVars, activeVars, childVars, forwardVars

\* The steps of the run keep the invariant.
LEMMA RunKeeps ==
  ASSUME ContextInv, RunStep
  PROVE  ContextInv'
<1> USE DEF ContextInv, RowTypes, MapInv, StartInv, HeldInv, AskInv,
            DecidedOnce, EndedContextEndsRun, aside, contextVars, approvalVars
<1>1. UNCHANGED aside
  BY DEF RunStep
<1>2. CASE Runner
  <2>1. status = "completed" => status' = "completed"
    BY <1>2, RunnerMoves, RunEnds DEF Terminal
  <2>2. QED
    BY <1>1, <1>2, <2>1, RunnerMoves
<1>3. CASE Child \/ Forwarder
  BY <1>1, <1>3, OthersLeave
<1>4. CASE SubmitRun
  BY <1>1, <1>4 DEF SubmitRun, Register, Over, runVars
<1>5. CASE CancelRun
  BY <1>1, <1>5 DEF CancelRun, storeVars, runnerVars
<1>6. QED
  BY <1>2, <1>3, <1>4, <1>5 DEF RunStep

\* The steps that start a run keep it.
LEMMA StartKeeps ==
  ASSUME ContextInv,
         CreateContext \/ MarkStarting \/ SubmitExisting \/ MarkRunning
         \/ GiveUp \/ ClaudeUnavailable
  PROVE  ContextInv'
<1> USE DEF ContextInv, RowTypes, MapInv, StartInv, HeldInv, AskInv,
            DecidedOnce, EndedContextEndsRun, approvalVars, storeVars,
            runnerVars, activeVars
<1>1. Held("created") \in Row /\ Held("starting") \in Row
      /\ Held("created").lc = "created" /\ Held("starting").lc = "starting"
  BY HeldRows DEF Held
<1>2. CASE CreateContext
  <2>1. ctx' \in Row /\ ctx'.lc = "created" /\ ctx'.ver = 0 /\ ~ctx'.req
    BY <1>2 DEF CreateContext, Row, Active
  <2>2. rpc = "none" \/ kind = "fake"
    BY <1>2 DEF CreateContext
  <2>3. QED
    BY <1>2, <2>1, <2>2 DEF CreateContext, Over
<1>3. CASE MarkStarting
  <2>1. CASE Update(Held("created"), "starting")
    <3>1. ctx'.lc = "starting" /\ ctx' \in Row /\ ctx.lc \in Active
          /\ ctx.lc = "created"
      BY <1>1, <2>1, UpdateMoves DEF Update
    <3>2. QED
      BY <1>3, <3>1 DEF MarkStarting, Over, runVars, CommandFault
  <2>2. CASE ctx' = ctx /\ start' = "done"
    BY <1>3, <2>2 DEF MarkStarting, runVars, CommandFault
  <2>3. QED
    BY <1>3, <2>1, <2>2 DEF MarkStarting
<1>a. ASSUME NEW lc \in {"created", "starting"}, NEW next,
             Update(Held(lc), next)
      PROVE  /\ ctx.lc = lc /\ ctx' \in Row /\ ctx'.lc = next
             /\ ctx'.ver = ctx.ver + 1 /\ ctx'.req = ctx.req
             /\ ctx.ver \in Nat
  BY <1>1, <1>a, UpdateMoves DEF Update, Row
<1>4. CASE SubmitExisting
  <2>1. start = "starting" /\ watch \notin {"waiting", "read"}
        /\ ctx.lc \notin Over
    BY <1>4 DEF SubmitExisting, Over
  <2>2. CASE ctx' = ctx
    BY <1>4, <2>1, <2>2 DEF SubmitExisting, Register, CommandFault
  <2>3. CASE Update(Held("starting"), "failed") /\ ~(ctx' = ctx)
    <3>1. ctx' \in Row /\ ctx'.lc = "failed" /\ ctx'.req = ctx.req
      BY <1>a, <2>3
    <3>2. start' = "done" /\ UNCHANGED activeVars /\ CommandFault
      BY <1>4, <2>3 DEF SubmitExisting
    <3>3. rpc = "none"
      BY <2>1
    <3>4. QED
      BY <1>4, <2>1, <3>1, <3>2, <3>3
      DEF SubmitExisting, CommandFault, Over
  <2>4. QED
    BY <1>4, <2>2, <2>3 DEF SubmitExisting
<1>5. CASE MarkRunning
  <2>1. start = "submitted" /\ watch \notin {"waiting", "read"}
    BY <1>5 DEF MarkRunning
  <2>2. CASE Update(Held("starting"), "running") /\ UNCHANGED runVars
             /\ start' = "done" /\ watch' = "waiting"
    <3>1. ctx' \in Row /\ ctx'.lc = "running"
      BY <1>a, <2>2
    <3>2. QED
      BY <1>5, <2>1, <2>2, <3>1 DEF MarkRunning, Over, runVars
  <2>3. CASE ctx' = ctx
    <3>1. /\ UNCHANGED <<kind, status, rpc, outcome, host, watched, cancel,
                         cancelled, asking, ask, audits>>
          /\ entry' = entry \/ (entry = "active" /\ entry' = "requested")
      BY <1>5 DEF MarkRunning, SignalRunner, CommandFault, runVars
    <3>2. start' = "giveup" => entry' # "active"
      BY <1>5 DEF MarkRunning, SignalRunner, CommandFault
    <3>3. \/ start' = "giveup" /\ watch' = watch
          \/ start' = "done" /\ ctx.lc = "starting"
      BY <1>5, <1>a DEF MarkRunning
    <3>4. watch' # "read"
      BY <1>5, <2>1 DEF MarkRunning
    <3>5. QED
      BY <2>1, <2>3, <3>1, <3>2, <3>3, <3>4
  <2>4. QED
    BY <1>5, <2>2, <2>3 DEF MarkRunning
<1>6. CASE GiveUp
  <2>1. start = "giveup" /\ watch \notin {"waiting", "read"}
        /\ entry # "active" /\ UNCHANGED runVars
    BY <1>6 DEF GiveUp
  <2>2. CASE ctx' = ctx
    BY <1>6, <2>1, <2>2 DEF GiveUp, runVars
  <2>3. CASE Update(Held("starting"), "failed")
    <3>1. ctx' \in Row /\ ctx'.lc = "failed" /\ ctx'.req = ctx.req
      BY <1>a, <2>3
    <3>2. outcome # "pending" \/ rpc = "none"
          \/ entry \in {"requested", "finalizing"}
      BY <2>1
    <3>3. QED
      BY <1>6, <2>1, <3>1, <3>2 DEF GiveUp, Over, runVars
  <2>4. QED
    BY <1>6, <2>2, <2>3 DEF GiveUp
<1>7. CASE ClaudeUnavailable
  <2>1. start = "created" /\ watch \notin {"waiting", "read"}
        /\ rpc = "none"
    BY <1>7 DEF ClaudeUnavailable
  <2>2. CASE ctx' = ctx
    BY <1>7, <2>1, <2>2 DEF ClaudeUnavailable, CommandFault, runVars
  <2>3. CASE Update(Held("created"), "failed") /\ UNCHANGED runVars
    <3>1. ctx' \in Row /\ ctx'.lc = "failed" /\ ctx'.req = ctx.req
      BY <1>a, <2>3
    <3>2. QED
      BY <1>7, <2>1, <2>3, <3>1 DEF ClaudeUnavailable, Over, runVars
  <2>4. QED
    BY <1>7, <2>2, <2>3 DEF ClaudeUnavailable
<1>8. QED
  BY <1>2, <1>3, <1>4, <1>5, <1>6, <1>7

\* So do the watcher and a cancellation.
LEMMA WatchKeeps ==
  ASSUME ContextInv, WatchReturns \/ WatchWrites
  PROVE  ContextInv'
<1> USE DEF ContextInv, RowTypes, MapInv, StartInv, HeldInv, AskInv,
            DecidedOnce, EndedContextEndsRun, approvalVars, storeVars,
            runnerVars, activeVars, runVars
<1>1. CASE WatchReturns
  <2>1. ctx.ver \in Nat
    BY DEF Row
  <2>2. QED
    BY <1>1, <2>1 DEF WatchReturns
<1>2. CASE WatchWrites
  <2>1. NoContext \in Row
    BY DEF NoContext, Row
  <2>2. CASE ctx' = ctx
    BY <1>2, <2>1, <2>2 DEF WatchWrites
  <2>3. CASE Update(watched, ContextEnd)
    <3>1. /\ ctx' \in Row /\ ctx'.lc = ContextEnd /\ ctx'.lc # "none"
          /\ ctx'.req = ctx.req /\ ctx.lc \in Active
      BY <2>3, UpdateMoves
    <3>2. watched = ctx /\ watch = "read"
      BY <1>2, <2>3 DEF WatchWrites, Update
    <3>3. ContextEnd \in Over
      BY DEF ContextEnd, Over
    <3>4. ContextEnd = "succeeded" => ~watched.req /\ status = "completed"
      BY DEF ContextEnd
    <3>5. start = "done"
      BY <3>2
    <3>6. QED
      BY <1>2, <2>1, <3>1, <3>2, <3>3, <3>4, <3>5, RowFollows
      DEF WatchWrites, Over
  <2>4. QED
    BY <1>2, <2>2, <2>3 DEF WatchWrites
<1>3. QED
  BY <1>1, <1>2

LEMMA CancelKeeps ==
  ASSUME ContextInv, CancelReads \/ CancelWrites \/ CancelSignals
  PROVE  ContextInv'
<1> USE DEF ContextInv, RowTypes, MapInv, StartInv, HeldInv, AskInv,
            DecidedOnce, EndedContextEndsRun, approvalVars, storeVars,
            runnerVars, activeVars, runVars
<1>1. CASE CancelReads
  BY <1>1 DEF CancelReads
<1>2. CASE CancelWrites
  <2>a. NoContext \in Row
    BY DEF NoContext, Row
  <2>b. CancelGoes(cancelled.lc) =
          IF cancelled.lc = "created" THEN "cancelled" ELSE "cancelling"
    BY DEF CancelGoes
  <2>1. CASE ctx' = ctx
    BY <1>2, <2>a, <2>1 DEF CancelWrites
  <2>2. CASE /\ ctx.lc = cancelled.lc
             /\ ctx' \in Row /\ ctx'.ver = ctx.ver + 1
             /\ ctx'.lc = CancelGoes(cancelled.lc)
    <3>1. ctx.lc \in Active /\ ctx.ver \in Nat
      BY <1>2, <2>2 DEF CancelWrites, Row
    <3>2. ctx.lc = "created" => rpc = "none" \/ kind = "fake"
      OBVIOUS
    <3>3. /\ ctx'.lc \in {"cancelled", "cancelling"}
          /\ ctx'.lc = "cancelled" => ctx.lc = "created"
          /\ ctx.lc \in {"starting", "cancelling"} => ctx'.lc = "cancelling"
      BY <2>b, <2>2
    <3>4. /\ UNCHANGED <<runVars, start, watch, watched, approvalVars>>
          /\ cancel' # "write" /\ cancelled' = NoContext
          /\ host = "up"
      BY <1>2, <2>b DEF CancelWrites
    <3>5. kind \in {"codex", "claude"} /\ ctx.lc # "none"
      BY <3>1, RowFollows
    <3>6. QED
      <4> HIDE DEF DecidedOnce
      <4>1. RowTypes' /\ MapInv' /\ AskInv'
        BY <2>a, <2>2, <3>4 DEF DecidedOnce
      <4>2. StartInv'
        BY <3>2, <3>3, <3>4, <3>5
      <4>3. HeldInv'
        <5>1. watched.ver \in Nat
          BY DEF Row
        <5>2. watched.ver <= ctx.ver => watched.ver <= ctx'.ver
                                        /\ watched.ver # ctx'.ver
          BY <2>2, <3>1, <5>1
        <5>3. QED
          BY <2>2, <3>1, <3>3, <3>4, <3>5, <5>2 DEF runVars
      <4>4. EndedContextEndsRun'
        BY <3>2, <3>3, <3>4, <3>5 DEF Over
      <4>5. QED
        BY <4>1, <4>2, <4>3, <4>4
  <2>3. ctx' = ctx \/ (/\ ctx.lc = cancelled.lc
                       /\ ctx' \in Row /\ ctx'.ver = ctx.ver + 1
                       /\ ctx'.lc = CancelGoes(cancelled.lc))
    <3>1. ctx.ver \in Nat
      BY DEF Row
    <3>2. CASE Update(cancelled, CancelGoes(cancelled.lc))
      BY <3>2, UpdateMoves DEF Update
    <3>3. CASE ctx.lc = cancelled.lc
               /\ ctx' = [lc |-> CancelGoes(cancelled.lc), req |-> TRUE,
                          ver |-> ctx.ver + 1]
      BY <3>1, <3>3, <2>b DEF Row, Active, Over
    <3>4. QED
      BY <1>2, <3>2, <3>3 DEF CancelWrites
  <2>4. QED
    BY <2>1, <2>2, <2>3
<1>3. CASE CancelSignals
  BY <1>3 DEF CancelSignals, SignalRunner
<1>4. QED
  BY <1>1, <1>2, <1>3

LEMMA ApprovalsKeep ==
  ASSUME ContextInv, Approvals
  PROVE  ContextInv'
<1> USE DEF ContextInv, RowTypes, MapInv, StartInv, HeldInv, AskInv,
            DecidedOnce, EndedContextEndsRun, contextVars, runVars, storeVars,
            runnerVars, activeVars
<1>1. CASE AskBegins
  BY <1>1 DEF AskBegins
<1>2. CASE AskWritten
  BY <1>2 DEF AskWritten
<1>3. ASSUME NEW d \in Deciders, DecideReads(d) \/ DecideWrites(d)
      PROVE  ContextInv'
  BY <1>3 DEF DecideReads, DecideWrites
<1>4. QED
  BY <1>1, <1>2, <1>3 DEF Approvals

LEMMA RestartKeeps ==
  ASSUME ContextInv, Restart
  PROVE  ContextInv'
<1> USE DEF ContextInv, RowTypes, MapInv, StartInv, HeldInv, AskInv,
            DecidedOnce, EndedContextEndsRun, contextVars, approvalVars,
            storeVars, runnerVars, activeVars
<1>1. CASE Crash
  BY <1>1 DEF Crash, Vanish, NoContext, Row
<1>2. CASE ReconcileContexts
  <2>1. UNCHANGED <<kind, status, rpc, entry, outcome, start, watch, watched,
                    cancel, cancelled, asking, ask, audits>>
        /\ host' = "boot" /\ host = "down"
    BY <1>2 DEF ReconcileContexts, Reboots
  <2>2. CASE ctx' = ctx
    BY <2>1, <2>2
  <2>3. CASE ctx.lc \in Active
             /\ ctx' = [ctx EXCEPT !.lc = "failed", !.ver = ctx.ver + 1]
    <3>1. ctx' \in Row /\ ctx'.lc = "failed" /\ ctx'.ver = ctx.ver + 1
          /\ ctx'.req = ctx.req /\ ctx.lc # "none" /\ ctx.ver \in Nat
      <4>1. /\ ctx' = [lc |-> "failed", req |-> ctx.req, ver |-> ctx.ver + 1]
            /\ ctx.req \in BOOLEAN /\ ctx.ver \in Nat
        BY <2>3 DEF Row
      <4>2. QED
        BY <2>3, <4>1, RowFollows DEF Row, Over
    <3>2. rpc = "none" /\ start = "done" /\ watched.ver \in Nat
      BY <2>1 DEF Row
    <3>3. watched.ver <= ctx.ver => watched.ver <= ctx'.ver
                                    /\ watched.ver # ctx'.ver
      BY <3>1, <3>2
    <3>4. QED
      BY <2>1, <3>1, <3>2, <3>3
  <2>4. QED
    BY <1>2, <2>2, <2>3 DEF ReconcileContexts
<1>3. CASE ReconcileApprovals
  BY <1>3 DEF ReconcileApprovals, Reboots
<1>4. QED
  BY <1>1, <1>2, <1>3 DEF Restart

LEMMA ContextInit == Init => ContextInv
<1>1. NoContext \in Row /\ NoContext.lc = "none"
  BY DEF NoContext, Row
<1>2. QED
  BY <1>1, RowFollows
  DEF Init, RunInit, ContextInv, RowTypes, MapInv, StartInv, HeldInv, AskInv,
      DecidedOnce, EndedContextEndsRun, Over

LEMMA ContextStep == ContextInv /\ [Next]_vars => ContextInv'
<1> SUFFICES ASSUME ContextInv, [Next]_vars PROVE ContextInv'
  OBVIOUS
<1>1. CASE RunStep
  BY <1>1, RunKeeps
<1>2. CASE Commands
  BY <1>2, StartKeeps, WatchKeeps, CancelKeeps DEF Commands
<1>3. CASE Approvals \/ Restart
  BY <1>3, ApprovalsKeep, RestartKeeps
<1>4. CASE UNCHANGED vars
  BY <1>4
  DEF vars, runVars, contextVars, approvalVars, storeVars, runnerVars,
      activeVars, ContextInv, RowTypes, MapInv, StartInv, HeldInv, AskInv,
      DecidedOnce, EndedContextEndsRun
<1>5. QED
  BY <1>1, <1>2, <1>3, <1>4 DEF Next

\* What the context, the run and the approval have to do with one another
\* holds in every reachable state.
LEMMA ContextInvariance == Spec => []ContextInv
BY ContextInit, ContextStep, PTL DEF Spec

-------------------------------------------------------------------------------
\* The types of the run.

Event    == [n: Nat, type: EventTypes]
Evidence == [failed: BOOLEAN, malformed: BOOLEAN, store: BOOLEAN,
             term: BOOLEAN, fatal: BOOLEAN, linger: BOOLEAN,
             exit: {"none", "zero", "other"}, winner: Winners]

\* What Resolve may say, and what the table allows.
LEMMA RowSteps ==
  /\ Successors["none"] = {} /\ Successors["queued"] = {"preparing", "cancelled"}
  /\ Successors["preparing"] = {"running", "failed", "cancelled"}
  /\ Successors["running"] = {"cancelling", "completed", "failed"}
  /\ Successors["cancelling"] = {"cancelled", "failed"}
  /\ \A s \in Terminal : Successors[s] = {}
  /\ \A e : Resolve(e) \in Terminal
BY DEF Successors, Open, Terminal, Resolve

\* What the runner does to the row and its history: nothing but perhaps use a
\* number, or one more event, with its row when it is one of the row's.
Silent == /\ UNCHANGED <<status, events, fw, live, lagged, shown>>
          /\ seq' \in {seq, seq + 1}
Appended(t) == Record(t) /\ status' = status
Moved(t) == Record(t) /\ status' = t /\ t \in Successors[status]
StoreStep == \/ Silent
             \/ /\ rpc \in {"loop", "drain"} /\ rpc' # "none"
                /\ \E t \in {"event", "agent_failed", "parser_error"} :
                     Appended(t)
             \/ \E t \in {"preparing", "running", "cancelling"} \union Terminal :
                  Moved(t)

LEMMA RunnerStore == Runner => StoreStep
<1> USE DEF storeVars, runnerVars, activeVars, childVars, forwardVars, Lost,
            StoreFault, StoreStep, Silent, Moved, Appended
<1>1. CASE Preparing \/ Running \/ CancelSeen
  BY <1>1 DEF Preparing, Running, CancelSeen, Persist
<1>2. CASE Line \/ CodexLine
  BY <1>2 DEF Line, CodexLine, Recorded, Unrecorded, Append1, EventOf
<1>3. CASE Finish
  BY <1>3, RowSteps DEF Finish, Persist
<1>4. CASE CancelBeforeSpawn \/ Spawn \/ SpawnFails \/ Kill \/ Stop \/ Abort
  BY <1>4 DEF CancelBeforeSpawn, Spawn, SpawnFails, Kill, Stop, Abort
<1>5. CASE ObserveExit \/ CannotWait \/ Settle \/ DrainCommand \/ DrainEnds
           \/ OutputClosed \/ WaitForExit \/ Finalize \/ FinishUnstored \/ Leave
  BY <1>5 DEF ObserveExit, CannotWait, Settle, DrainCommand, DrainEnds,
              OutputClosed, WaitForExit, Finalize, FinishUnstored, Leave
<1>6. QED
  BY <1>1, <1>2, <1>3, <1>4, <1>5 DEF Runner

\* The evidence stays evidence, whatever of it is set.
LEMMA SetEvidence ==
  ASSUME NEW e \in Evidence, NEW w \in Winners,
         NEW c \in {"none", "zero", "other"}
  PROVE  /\ [e EXCEPT !.store = TRUE] \in Evidence
         /\ [e EXCEPT !.term = TRUE] \in Evidence
         /\ [e EXCEPT !.fatal = TRUE] \in Evidence
         /\ [e EXCEPT !.linger = TRUE] \in Evidence
         /\ [e EXCEPT !.linger = TRUE, !.term = TRUE] \in Evidence
         /\ [e EXCEPT !.malformed = TRUE] \in Evidence
         /\ [e EXCEPT !.winner = w] \in Evidence
         /\ [e EXCEPT !.failed = TRUE, !.winner = w] \in Evidence
         /\ [e EXCEPT !.exit = c] \in Evidence
         /\ [e EXCEPT !.exit = c, !.winner = w] \in Evidence
BY DEF Evidence
LEMMA SeenEvidence ==
  ASSUME NEW h, ev \in Evidence
  PROVE  SeesFailure(h) \in Evidence /\ CancelWins \in Evidence
<1>1. (IF ev.winner = "none" THEN "failure" ELSE ev.winner) \in Winners
      /\ (IF ev.winner = "none" THEN "cancel" ELSE ev.winner) \in Winners
  BY DEF Evidence, Winners
<1>2. QED
  BY <1>1, SetEvidence DEF SeesFailure, CancelWins
LEMMA RunnerEvidence ==
  ASSUME Runner, ev \in Evidence, code \in {"none", "zero", "other"}
  PROVE  ev' \in Evidence
<1> USE DEF storeVars, runnerVars, activeVars, childVars, forwardVars
<1>1. CASE Preparing \/ Running \/ SpawnFails \/ CannotWait
  BY <1>1, SetEvidence DEF Preparing, Running, SpawnFails, CannotWait, Winners
<1>2. CASE Line
  BY <1>2, SetEvidence, SeenEvidence DEF Line, Winners
<1>3. CASE CodexLine
  BY <1>3, SetEvidence, SeenEvidence DEF CodexLine, Winners
<1>4. CASE CancelBeforeSpawn \/ CancelSeen
  BY <1>4, SetEvidence, SeenEvidence DEF CancelBeforeSpawn, CancelSeen, Winners
<1>5. CASE Kill \/ Stop \/ Abort
  <2>1. Reaped => code' \in {"none", "zero", "other"}
    BY DEF Reaped
  <2>2. QED
    BY <1>5, <2>1, SetEvidence DEF Kill, Stop, Abort, Winners
<1>6. CASE ObserveExit \/ WaitForExit
  <2>1. (IF ev.winner = "none" THEN "exit" ELSE ev.winner) \in Winners
    BY DEF Evidence, Winners
  <2>2. [ev EXCEPT !.exit = code,
                   !.winner = IF @ = "none" THEN "exit" ELSE @] \in Evidence
    BY <2>1, SetEvidence
  <2>3. CASE ObserveExit
    BY <2>2, <2>3 DEF ObserveExit
  <2>4. CASE WaitForExit
    BY <2>2, <2>4, SetEvidence DEF WaitForExit, Winners
  <2>5. QED
    BY <1>6, <2>3, <2>4
<1>7. CASE Settle
  BY <1>7, SetEvidence DEF Settle, Winners
<1>8. CASE Spawn \/ DrainCommand \/ DrainEnds \/ OutputClosed
           \/ Finalize \/ Finish \/ FinishUnstored \/ Leave
  BY <1>8 DEF Spawn, DrainCommand, DrainEnds, OutputClosed, Finalize, Finish,
              FinishUnstored, Leave
<1>9. QED
  BY <1>1, <1>2, <1>3, <1>4, <1>5, <1>6, <1>7, <1>8 DEF Runner

\* The types of the run but for its history, its evidence and the child's output.
ControlTypes ==
  /\ kind \in Kinds /\ status \in {"none"} \union Open \union Terminal
  /\ faults \in 0..MaxFaults /\ seq \in Nat
  /\ rpc \in {"none", "prepare", "spawn", "start", "loop", "kill", "stop",
              "abort", "settle", "drain", "wait", "finalize", "finish",
              "leave", "done"}
  /\ entry \in {"none", "active", "requested", "finalizing"}
  /\ command \in BOOLEAN /\ outcome \in {"pending", "ok", "error"}
  /\ parent \in {"none", "live", "exited"}
  /\ code \in {"none", "zero", "other"}
  /\ kids \in {"none", "quiet", "holding"}
  /\ lines \in 0..MaxLines
  /\ fw \in {"none", "replay", "late", "live", "done"}
  /\ lagged \in BOOLEAN /\ host \in {"up", "boot", "down"}

SequenceTypes ==
  /\ events \in Seq(Event) /\ live \in Seq(Event) /\ shown \in Seq(Event)
  /\ output \in Seq(AgentLines)

LEMMA RunTypeParts == RunTypeOK <=> ControlTypes /\ ev \in Evidence /\ SequenceTypes
BY DEF RunTypeOK, ControlTypes, SequenceTypes, Event, Evidence, Successors

LEMMA RunnerControl ==
  ASSUME Runner, ControlTypes
  PROVE  ControlTypes'
<1> USE DEF storeVars, runnerVars, activeVars, childVars, forwardVars, AfterKill
<1>1. status' \in {"none"} \union Open \union Terminal
  BY RunnerStore DEF StoreStep, Silent, Appended, Moved, Open, ControlTypes
<1>2. seq' \in Nat /\ fw' = fw
  <2>1. seq \in Nat
    BY DEF ControlTypes
  <2>2. \A t : Record(t) => seq' = seq + 1 /\ fw' = fw
    BY DEF Record
  <2>3. QED
    BY <2>1, <2>2, RunnerStore DEF StoreStep, Silent, Appended, Moved
<1>3. lagged' \in BOOLEAN
  <2>1. CASE lagged' = lagged
    BY <2>1 DEF ControlTypes
  <2>2. CASE lagged' = (lagged \/ Len(live) >= Capacity)
    BY <2>2
  <2>3. QED
    BY <2>1, <2>2, RunnerStore
    DEF StoreStep, Silent, Appended, Moved, Record, Publish
<1>4. faults' \in 0..MaxFaults
  <2>1. faults' = faults \/ (faults < MaxFaults /\ faults' = faults + 1)
    <3> USE DEF Persist, Record, StoreFault
    <3>1. CASE Preparing \/ Running \/ CancelSeen \/ Finish \/ CannotWait
      BY <3>1 DEF Preparing, Running, CancelSeen, Finish, CannotWait
    <3>2. CASE Line \/ CodexLine
      BY <3>2 DEF Line, CodexLine, Recorded, Unrecorded, Append1
    <3>3. CASE CancelBeforeSpawn \/ Spawn \/ SpawnFails \/ Kill \/ Stop
               \/ Abort \/ ObserveExit \/ Settle \/ DrainCommand \/ DrainEnds
               \/ OutputClosed \/ WaitForExit \/ Finalize \/ FinishUnstored
               \/ Leave
      BY <3>3 DEF CancelBeforeSpawn, Spawn, SpawnFails, Kill, Stop, Abort,
         ObserveExit, Settle, DrainCommand, DrainEnds, OutputClosed,
         WaitForExit, Finalize, FinishUnstored, Leave
    <3>4. QED
      BY <3>1, <3>2, <3>3 DEF Runner
  <2>2. QED
    BY <2>1, BoundAssumption DEF ControlTypes
<1>5. /\ rpc' \in {"none", "prepare", "spawn", "start", "loop", "kill", "stop",
                   "abort", "settle", "drain", "wait", "finalize", "finish",
                   "leave", "done"}
      /\ entry' \in {"none", "active", "requested", "finalizing"}
      /\ command' \in BOOLEAN /\ outcome' \in {"pending", "ok", "error"}
      /\ parent' \in {"none", "live", "exited"}
      /\ code' \in {"none", "zero", "other"}
      /\ kids' \in {"none", "quiet", "holding"}
      /\ lines' = lines /\ kind' = kind /\ host' = host
  <2> USE DEF ControlTypes
  <2>1. CASE Preparing \/ CancelBeforeSpawn \/ Spawn \/ SpawnFails \/ Running
    BY <2>1 DEF Preparing, CancelBeforeSpawn, Spawn, SpawnFails, Running
  <2>2. CASE Line \/ CodexLine
    BY <2>2 DEF Line, CodexLine
  <2>3. CASE CancelSeen \/ Kill \/ Stop \/ Abort
    BY <2>3 DEF CancelSeen, Kill, Stop, Abort, Reaped, GroupStillAlive
  <2>4. CASE ObserveExit \/ CannotWait \/ Settle \/ DrainCommand
             \/ DrainEnds \/ OutputClosed
    BY <2>4 DEF ObserveExit, CannotWait, Settle, DrainCommand, DrainEnds,
                OutputClosed
  <2>5. CASE WaitForExit \/ Finalize \/ Finish \/ FinishUnstored \/ Leave
    BY <2>5 DEF WaitForExit, Finalize, Finish, FinishUnstored, Leave, Reaped,
                GroupStillAlive
  <2>6. QED
    BY <2>1, <2>2, <2>3, <2>4, <2>5 DEF Runner
<1>6. QED
  BY <1>1, <1>2, <1>3, <1>4, <1>5 DEF ControlTypes

\* An event that is recorded.
LEMMA RecordAppends ==
  ASSUME SequenceTypes, seq \in Nat, NEW t \in EventTypes, Record(t)
  PROVE  /\ events' = Append(events, [n |-> seq + 1, type |-> t])
         /\ events' \in Seq(Event) /\ Len(events') = Len(events) + 1
         /\ \A i \in 1..Len(events) : events'[i] = events[i]
         /\ events'[Len(events) + 1] = [n |-> seq + 1, type |-> t]
         /\ seq' = seq + 1 /\ seq' \in Nat
         /\ live' \in Seq(Event)
         /\ UNCHANGED <<faults, fw, shown>>
<1>1. [n |-> seq + 1, type |-> t] \in Event
  BY DEF Event
<1>2. live' \in Seq(Event)
  <2>1. CASE live' = live
    BY <2>1 DEF SequenceTypes
  <2>2. CASE live' = Append(live, [n |-> seq + 1, type |-> t])
    BY <1>1, <2>2 DEF SequenceTypes
  <2>3. CASE live' = Append(Tail(live), [n |-> seq + 1, type |-> t])
             /\ Len(live) >= Capacity
    <3>1. Tail(live) \in Seq(Event)
      <4>1. live # <<>>
        BY <2>3, BoundAssumption DEF SequenceTypes
      <4>2. QED
        BY <4>1, HeadTailProperties DEF SequenceTypes
    <3>2. QED
      BY <1>1, <2>3, <3>1
  <2>4. QED
    BY <2>1, <2>2, <2>3, BoundAssumption DEF Record, Publish, SequenceTypes
<1>4. events \in Seq(Event)
  BY DEF SequenceTypes
<1>5. QED
  BY <1>1, <1>2, <1>4, AppendProperties DEF Record

LEMMA RunnerSequences ==
  ASSUME Runner, SequenceTypes, seq \in Nat
  PROVE  SequenceTypes'
<1>1. events' \in Seq(Event) /\ live' \in Seq(Event) /\ shown' \in Seq(Event)
  <2>1. CASE Silent
    BY <2>1 DEF Silent, SequenceTypes
  <2>2. ASSUME NEW t \in EventTypes, Record(t)
        PROVE  events' \in Seq(Event) /\ live' \in Seq(Event)
               /\ shown' \in Seq(Event)
    BY <2>2, RecordAppends DEF SequenceTypes
  <2>3. QED
    BY <2>1, <2>2, RunnerStore DEF StoreStep, Appended, Moved, EventTypes
<1>2. output' \in Seq(AgentLines)
  <2> USE DEF storeVars, runnerVars, activeVars, childVars, forwardVars
  <2>1. CASE Line \/ CodexLine
    <3>1. output # <<>> /\ output' = Tail(output)
      BY <2>1 DEF Line, CodexLine
    <3>2. QED
      BY <3>1, HeadTailProperties DEF SequenceTypes
  <2>2. CASE output' = output
    BY <2>2 DEF SequenceTypes
  <2>3. CASE Preparing \/ CancelBeforeSpawn \/ Spawn \/ SpawnFails \/ Running
             \/ CancelSeen \/ Kill \/ Stop \/ Abort
    BY <2>2, <2>3 DEF Preparing, CancelBeforeSpawn, Spawn, SpawnFails, Running,
                      CancelSeen, Kill, Stop, Abort
  <2>4. CASE ObserveExit \/ CannotWait \/ Settle \/ DrainCommand
             \/ DrainEnds \/ OutputClosed
    BY <2>2, <2>4 DEF ObserveExit, CannotWait, Settle, DrainCommand, DrainEnds,
                OutputClosed
  <2>5. CASE WaitForExit \/ Finalize \/ Finish \/ FinishUnstored \/ Leave
    BY <2>2, <2>5 DEF WaitForExit, Finalize, Finish, FinishUnstored, Leave
  <2>6. QED
    BY <2>1, <2>3, <2>4, <2>5 DEF Runner
<1>3. QED
  BY <1>1, <1>2 DEF SequenceTypes

LEMMA OtherTypes ==
  ASSUME ControlTypes, SequenceTypes, Child \/ Forwarder
  PROVE  ControlTypes' /\ SequenceTypes'
<1> USE DEF storeVars, runnerVars, activeVars, childVars, forwardVars
<1>1. CASE AgentExits \/ KidsExit
  BY <1>1 DEF AgentExits, KidsExit, ControlTypes, SequenceTypes
<1>2. ASSUME NEW l \in AgentLines, AgentWrites(l)
      PROVE  ControlTypes' /\ SequenceTypes'
  <2>1. Append(output, l) \in Seq(AgentLines)
    BY <1>2 DEF SequenceTypes
  <2>2. lines' \in 0..MaxLines
    BY <1>2, BoundAssumption DEF AgentWrites, ControlTypes
  <2>3. QED
    BY <1>2, <2>1, <2>2 DEF AgentWrites, ControlTypes, SequenceTypes
<1>a. ShowStored => shown' \in Seq(Event)
  <2>1. ASSUME NEW k \in 0..Len(events)
        PROVE  SubSeq(events, k + 1, Len(events)) \in Seq(Event)
    <3>1. events \in Seq(Event)
      BY DEF SequenceTypes
    <3>2. \A i \in (k + 1)..Len(events) : events[i] \in Event
      BY <3>1
    <3>3. QED
      BY <3>1, SubSeqProperties
  <2>2. QED
    BY <2>1, ConcatProperties DEF ShowStored, SequenceTypes
<1>3. CASE SubscribeRun
  BY <1>3 DEF SubscribeRun, ControlTypes, SequenceTypes
<1>4. CASE Replay \/ ReplayLagged \/ ForwardClosed
  BY <1>4, <1>a DEF Replay, ReplayLagged, ForwardClosed, ControlTypes, SequenceTypes
<1>5. CASE ReplayFails
  BY <1>5, BoundAssumption DEF ReplayFails, ControlTypes, SequenceTypes
<1>6. CASE ForwardLive
  <2>1. Head(live) \in Event /\ Tail(live) \in Seq(Event)
    BY <1>6, HeadTailProperties DEF ForwardLive, SequenceTypes
  <2>2. shown' \in Seq(Event)
    BY <1>6, <2>1, AppendProperties DEF ForwardLive, SequenceTypes
  <2>3. QED
    BY <1>6, <2>1, <2>2 DEF ForwardLive, ControlTypes, SequenceTypes
<1>7. QED
  BY <1>1, <1>2, <1>3, <1>4, <1>5, <1>6 DEF Child, Forwarder

\* The types of what stands beside the run; a crash has left a restart to come.
BesideTypes ==
  /\ start \in {"none", "created", "starting", "submitted", "giveup", "done"}
  /\ watch \in {"none", "waiting", "read", "done"}
  /\ cancel \in {"none", "write", "signal"} /\ cancels \in 0..MaxCancels
  /\ asking \in BOOLEAN
  /\ ask \in {"none", "pending", "allowed_once", "allowed_for_task", "denied",
              "hard_denied"}
  /\ audits \in Seq({"allowed_once", "allowed_for_task", "denied",
                     "hard_denied"})
  /\ deciding \subseteq Deciders /\ boots \in 0..Boots
  /\ host = "down" => boots < Boots

TypeInv == ControlTypes /\ ev \in Evidence /\ SequenceTypes /\ BesideTypes

LEMMA BesideRun ==
  ASSUME BesideTypes, UNCHANGED aside, host' = host
  PROVE  BesideTypes'
BY DEF BesideTypes, aside, contextVars, approvalVars

LEMMA RunStepTypes == TypeInv /\ RunStep => TypeInv'
<1> SUFFICES ASSUME TypeInv, RunStep PROVE TypeInv'
  OBVIOUS
<1> USE DEF TypeInv
<1>1. CASE Runner
  <2>1. ControlTypes' /\ ev' \in Evidence /\ SequenceTypes'
    BY <1>1, RunnerControl, RunnerEvidence, RunnerSequences DEF ControlTypes
  <2>2. QED
    BY <1>1, <2>1, BesideRun, RunnerMoves DEF RunStep
<1>2. CASE Child \/ Forwarder
  BY <1>2, OtherTypes, OthersLeave, BesideRun DEF RunStep
<1>3. CASE SubmitRun
  <2>1. NoEvidence \in Evidence
    BY DEF NoEvidence, Evidence, Winners
  <2>2. ControlTypes' /\ SequenceTypes' /\ ev' = NoEvidence /\ host' = host
    BY <1>3 DEF SubmitRun, Register, ControlTypes, SequenceTypes, Open, childVars,
                forwardVars
  <2>3. QED
    BY <2>1, <2>2, BesideRun DEF RunStep
<1>4. CASE CancelRun
  <2>1. ControlTypes' /\ SequenceTypes' /\ ev' = ev /\ host' = host
    BY <1>4 DEF CancelRun, ControlTypes, SequenceTypes, storeVars, runnerVars, childVars,
                forwardVars
  <2>2. QED
    BY <2>1, BesideRun DEF RunStep
<1>5. QED
  BY <1>1, <1>2, <1>3, <1>4 DEF RunStep

LEMMA CommandTypes == TypeInv /\ Commands => TypeInv'
<1> SUFFICES ASSUME TypeInv, Commands PROVE TypeInv'
  OBVIOUS
<1> USE DEF storeVars, runnerVars, activeVars, childVars, forwardVars
<1>1. SequenceTypes' /\ ControlTypes' /\ ev' \in Evidence
  <2>1. /\ UNCHANGED <<kind, events, childVars, forwardVars, host>>
        /\ status' = status \/ status' = "queued"
        /\ faults' = faults \/ (faults < MaxFaults /\ faults' = faults + 1)
        /\ UNCHANGED <<seq, rpc, ev>> \/ Register
        /\ UNCHANGED <<entry, command, outcome>> \/ Register
           \/ (entry' = "requested" /\ command' = TRUE /\ outcome' = outcome)
    <3> USE DEF runVars, CommandFault, SignalRunner
    <3>1. CASE CreateContext \/ MarkStarting
      BY <3>1 DEF CreateContext, MarkStarting
    <3>2. CASE SubmitExisting
      BY <3>2 DEF SubmitExisting
    <3>3. CASE MarkRunning
      BY <3>3 DEF MarkRunning
    <3>4. CASE GiveUp \/ ClaudeUnavailable \/ WatchReturns \/ WatchWrites
      BY <3>4 DEF GiveUp, ClaudeUnavailable, WatchReturns, WatchWrites
    <3>5. CASE CancelReads \/ CancelWrites \/ CancelSignals
      BY <3>5 DEF CancelReads, CancelWrites, CancelSignals
    <3>6. QED
      BY <3>1, <3>2, <3>3, <3>4, <3>5 DEF Commands
  <2>2. SequenceTypes'
    BY <2>1 DEF TypeInv, SequenceTypes
  <2>3. faults' \in 0..MaxFaults
    BY <2>1, BoundAssumption DEF TypeInv, ControlTypes
  <2>4. ControlTypes'
    <3>1. status' \in {"none"} \union Open \union Terminal
      BY <2>1 DEF TypeInv, ControlTypes, Open
    <3>2. seq' \in Nat
      BY <2>1 DEF TypeInv, ControlTypes, Register
    <3>3. QED
      BY <2>1, <2>3, <3>1, <3>2 DEF TypeInv, ControlTypes, Register
  <2>5. NoEvidence \in Evidence
    BY DEF NoEvidence, Evidence, Winners
  <2>6. QED
    BY <2>1, <2>2, <2>4, <2>5 DEF TypeInv, Register
<1>2. BesideTypes'
  <2> USE DEF TypeInv, BesideTypes, approvalVars, runVars, CommandFault
  <2>1. CASE CreateContext \/ MarkStarting
    BY <2>1 DEF CreateContext, MarkStarting
  <2>2. CASE SubmitExisting
    BY <2>2 DEF SubmitExisting
  <2>3. CASE MarkRunning
    BY <2>3 DEF MarkRunning
  <2>4. CASE GiveUp \/ ClaudeUnavailable \/ WatchReturns \/ WatchWrites
    BY <2>4 DEF GiveUp, ClaudeUnavailable, WatchReturns, WatchWrites
  <2>5. CASE CancelReads
    BY <2>5, LimitsAssumption DEF CancelReads
  <2>6. CASE CancelWrites
    BY <2>6 DEF CancelWrites
  <2>7. CASE CancelSignals
    BY <2>7 DEF CancelSignals
  <2>8. QED
    BY <2>1, <2>2, <2>3, <2>4, <2>5, <2>6, <2>7 DEF Commands
<1>3. QED
  BY <1>1, <1>2 DEF TypeInv

LEMMA ApprovalTypes == TypeInv /\ Approvals => TypeInv'
<1> SUFFICES ASSUME TypeInv, Approvals PROVE TypeInv'
  OBVIOUS
<1> USE DEF storeVars, runnerVars, activeVars, childVars, forwardVars
<1>1. UNCHANGED <<runVars, contextVars, boots>>
  BY DEF Approvals, AskBegins, AskWritten, DecideReads, DecideWrites
<1>2. SequenceTypes' /\ ControlTypes' /\ ev' \in Evidence
  BY <1>1 DEF TypeInv, SequenceTypes, ControlTypes, runVars
<1>3. /\ asking' \in BOOLEAN
      /\ ask' \in {"none", "pending", "allowed_once", "allowed_for_task",
                   "denied", "hard_denied"}
      /\ audits' \in Seq({"allowed_once", "allowed_for_task", "denied",
                          "hard_denied"})
      /\ deciding' \subseteq Deciders
  <2> USE DEF TypeInv, BesideTypes
  <2>1. CASE AskBegins
    BY <2>1 DEF AskBegins
  <2>2. CASE AskWritten
    <3>1. Append(audits, "hard_denied") \in
            Seq({"allowed_once", "allowed_for_task", "denied", "hard_denied"})
      OBVIOUS
    <3>2. QED
      BY <2>2, <3>1 DEF AskWritten
  <2>3. ASSUME NEW d \in Deciders, DecideReads(d) \/ DecideWrites(d)
        PROVE  <1>3!:
    <3>1. CASE DecideReads(d)
      BY <3>1 DEF DecideReads
    <3>2. CASE DecideWrites(d)
      <4>1. \A s \in {"allowed_once", "allowed_for_task", "denied"} :
              Append(audits, s) \in Seq({"allowed_once", "allowed_for_task",
                                         "denied", "hard_denied"})
        OBVIOUS
      <4>2. QED
        BY <3>2, <4>1 DEF DecideWrites
    <3>3. QED
      BY <2>3, <3>1, <3>2
  <2>4. QED
    BY <2>1, <2>2, <2>3 DEF Approvals
<1>4. QED
  BY <1>1, <1>2, <1>3 DEF TypeInv, BesideTypes, contextVars, runVars

LEMMA RestartTypes == TypeInv /\ Restart => TypeInv'
<1> SUFFICES ASSUME TypeInv, Restart PROVE TypeInv'
  OBVIOUS
<1> USE DEF TypeInv, storeVars, runnerVars, activeVars, childVars, forwardVars
<1>1. CASE Crash
  <2>1. ControlTypes' /\ ev' \in Evidence
    BY <1>1 DEF Crash, Vanish, ControlTypes, NoEvidence, Evidence, Winners
  <2>2. SequenceTypes'
    BY <1>1 DEF Crash, Vanish, SequenceTypes
  <2>3. BesideTypes'
    BY <1>1 DEF Crash, BesideTypes
  <2>4. QED
    BY <2>1, <2>2, <2>3
<1>2. CASE ReconcileContexts
  <2>1. ControlTypes' /\ ev' \in Evidence /\ SequenceTypes'
    BY <1>2 DEF ReconcileContexts, Reboots, ControlTypes, SequenceTypes
  <2>2. BesideTypes'
    BY <1>2, LimitsAssumption DEF ReconcileContexts, Reboots, BesideTypes, approvalVars
  <2>3. QED
    BY <2>1, <2>2
<1>3. CASE ReconcileApprovals
  <2>1. ControlTypes' /\ ev' \in Evidence /\ SequenceTypes'
    BY <1>3 DEF ReconcileApprovals, Reboots, ControlTypes, SequenceTypes
  <2>2. BesideTypes'
    BY <1>3 DEF ReconcileApprovals, Reboots, BesideTypes, contextVars
  <2>3. QED
    BY <2>1, <2>2
<1>4. QED
  BY <1>1, <1>2, <1>3 DEF Restart

LEMMA TypeInit == Init => TypeInv
<1> SUFFICES ASSUME Init PROVE TypeInv
  OBVIOUS
<1>1. ev \in Evidence
  BY DEF Init, RunInit, NoEvidence, Evidence, Winners
<1>2. ControlTypes
  <2>1. 0 \in 0..MaxFaults /\ 0 \in 0..MaxLines
    BY BoundAssumption
  <2>2. QED
    BY <2>1 DEF Init, RunInit, ControlTypes
<1>3. SequenceTypes
  BY DEF Init, RunInit, SequenceTypes
<1>4. BesideTypes
  <2>1. 0 \in 0..MaxCancels /\ 0 \in 0..Boots
    BY LimitsAssumption
  <2>2. <<>> \in Seq({"allowed_once", "allowed_for_task", "denied",
                     "hard_denied"})
    OBVIOUS
  <2>3. host = "up" /\ boots = 0 /\ deciding = {} /\ asking = FALSE
    BY DEF Init, RunInit
  <2>4. QED
    BY <2>1, <2>2, <2>3 DEF Init, BesideTypes
<1>5. QED
  BY <1>1, <1>2, <1>3, <1>4 DEF TypeInv

LEMMA TypeStep == TypeInv /\ [Next]_vars => TypeInv'
<1>1. TypeInv /\ UNCHANGED vars => TypeInv'
  BY DEF vars, runVars, contextVars, approvalVars, storeVars, runnerVars,
      activeVars, childVars, forwardVars, TypeInv, ControlTypes, SequenceTypes, BesideTypes
<1>2. QED
  BY <1>1, RunStepTypes, CommandTypes, ApprovalTypes, RestartTypes DEF Next

\* Every variable of the run, of its context and of its approvals has its type;
\* the evidence and the history are never more than what the runner writes.
THEOREM TypesHold == Spec => []TypeOK
<1>1. TypeInv /\ ContextInv => TypeOK
  BY RunTypeParts DEF TypeInv, ContextInv, RowTypes, BesideTypes, TypeOK
<1>2. QED
  BY <1>1, TypeInit, TypeStep, ContextInvariance, PTL DEF Spec

-------------------------------------------------------------------------------
\* What holds of a run at every stage of it.

\* Where the runner is, by what the row says.
StageInv ==
  /\ rpc # "none" => kind \in {"fake", "codex"}
  /\ rpc = "prepare" => status = "queued"
  /\ rpc \in {"spawn", "start", "abort"} => status = "preparing"
  /\ rpc \in {"loop", "settle", "drain", "stop"} => status = "running"
  /\ rpc \in {"kill", "wait"} => status \in {"running", "cancelling"}
  /\ rpc \in {"finalize", "finish"} => status \in Open
  /\ rpc \in {"leave", "done"} => status # "none"
  /\ rpc \in {"settle", "drain"} => kind = "fake"
  /\ rpc = "wait" => kind = "codex"
  /\ kind # "fake" /\ ctx.lc = "none" => status = "none"

\* The rows of the run: numbered upwards, one terminal event, the last, of the
\* row's status.
HistoryInv ==
  /\ status \in {"none", "queued"} => events = <<>>
  /\ \A i \in 1..Len(events) :
       /\ events[i].type \in Terminal => i = Len(events) /\ status = events[i].type
       /\ events[i].n > 0 /\ (rpc # "none" => events[i].n <= seq)
       /\ \A j \in (i + 1)..Len(events) : events[i].n < events[j].n
  /\ status \in Terminal =>
       events # <<>> /\ events[Len(events)].type = status

\* What the runner has seen is what it has written, and who was first.
EvidenceInv ==
  rpc # "none" =>
    /\ "agent_failed" \in Types(events) => ev.failed
    /\ "parser_error" \in Types(events) => ev.malformed
    /\ ev.failed => ev.winner # "none"
    /\ ev.winner = "failure" => ev.failed
    /\ ev.winner = "cancel" =>
         status \in {"preparing", "cancelling"} \union Terminal \/ faults > 0
    /\ ev.winner = "exit" => status \notin {"queued", "preparing"}
    /\ rpc \in {"prepare", "spawn", "start", "abort"} =>
         ev.winner = "none" /\ ~ev.linger
    /\ rpc = "loop" =>
         /\ ev.winner \in {"none", "failure"} /\ ~ev.linger
         /\ ev.failed => "agent_failed" \in Types(events)

\* A cancellation that is on record came after the failures that are, and the
\* first of them is what the runner remembers.
CancelledInv ==
  /\ status = "cancelling" => "cancelling" \in Types(events)
  /\ "cancelling" \in Types(events) =>
       /\ status \in {"cancelling"} \union Terminal
       /\ rpc # "none" =>
            /\ rpc \in {"kill", "wait", "finalize", "finish", "leave", "done"}
            /\ ~ev.linger
            /\ IF "agent_failed" \in Types(events)
               THEN ev.winner = "failure" ELSE ev.winner = "cancel"
            /\ \A i, j \in 1..Len(events) :
                 events[i].type = "agent_failed"
                 /\ events[j].type = "cancelling" => i < j

\* A run that is over has the status its evidence calls for, or the store
\* refused a write.
OutcomeInv ==
  /\ rpc \in {"finalize", "finish"} /\ status = "queued" => faults > 0
  /\ rpc \in {"leave", "done"} =>
       status = Resolve(ev) \/ (status \notin Terminal /\ faults > 0)

\* The child and its group.
ProcessInv ==
  /\ status \in {"none", "queued"} \/ rpc \in {"prepare", "spawn"} =>
       parent = "none"
  /\ parent # "exited" => kids = "none"
  /\ rpc \in {"settle", "drain"} => parent = "exited"
  /\ rpc # "none" /\ ev.winner = "exit" => parent = "exited"
  /\ rpc = "drain" /\ ~ev.term => kids = "none"
  /\ rpc \in {"finalize", "finish", "leave", "done"} /\ ~ev.term /\ ~ev.fatal =>
       parent # "live" /\ (kind = "fake" => kids = "none")
  /\ status = "completed" =>
       /\ Types(events) \intersect
            {"agent_failed", "parser_error", "cancelling"} = {}
       /\ kind = "fake" => parent = "exited" /\ kids = "none"

\* The window has seen the beginning of the history, the receiver buffers its
\* end, and unless it lost events nothing is missing in between.
ShownInv ==
  /\ fw = "none" => live = <<>>
  /\ Len(shown) <= Len(events)
  /\ \A i \in 1..Len(shown) : shown[i] = events[i]
  /\ fw \in {"replay", "live"} =>
       /\ Len(live) <= Len(events)
       /\ \A i \in 1..Len(live) :
            live[i] = events[Len(events) - Len(live) + i]
  /\ fw = "live" /\ ~lagged => Len(live) + Len(shown) >= Len(events)


RunInv == /\ StageInv /\ HistoryInv /\ EvidenceInv /\ CancelledInv
          /\ OutcomeInv /\ ProcessInv /\ ShownInv

AllInv == TypeInv /\ ContextInv /\ RunInv

\* A context once created stays one.
LEMMA ContextStays ==
  ASSUME RowTypes, Commands, ctx.lc # "none"
  PROVE  ctx'.lc # "none"
<1>1. Held("created") \in Row /\ Held("starting") \in Row
  BY HeldRows
<1>2. CASE \E row \in Row, next \in Active \union Over : Update(row, next)
  BY <1>2, UpdateMoves
<1>3. CASE ctx' = ctx \/ ctx'.lc \in {"created", "cancelled", "cancelling"}
  BY <1>3
<1> USE <1>1, <1>2, <1>3 DEF RowTypes, Active, Over
<1>4. CASE CreateContext \/ MarkStarting \/ SubmitExisting \/ MarkRunning
  BY <1>4 DEF CreateContext, MarkStarting, SubmitExisting, MarkRunning
<1>5. CASE GiveUp \/ ClaudeUnavailable \/ WatchReturns \/ CancelReads
           \/ CancelSignals
  BY <1>5 DEF GiveUp, ClaudeUnavailable, WatchReturns, CancelReads, CancelSignals
<1>6. CASE WatchWrites
  <2>1. ContextEnd \in Over
    BY DEF ContextEnd, Over
  <2>2. QED
    BY <1>6, <2>1 DEF WatchWrites
<1>7. CASE CancelWrites
  <2>1. CancelGoes(cancelled.lc) \in {"cancelled", "cancelling"}
    BY DEF CancelGoes
  <2>2. QED
    BY <1>7, <2>1 DEF CancelWrites
<1>8. QED
  BY <1>4, <1>5, <1>6, <1>7 DEF Commands

\* What a command does to the run.
LEMMA CommandMoves ==
  ASSUME Commands
  PROVE  /\ UNCHANGED <<kind, events, childVars, forwardVars, host>>
         /\ status' = status \/ CreateContext
         /\ faults' = faults \/ faults' = faults + 1
         /\ \/ UNCHANGED <<seq, rpc, ev, outcome>>
            \/ /\ Register /\ start = "starting" /\ status = "queued"
               /\ entry = "none" /\ UNCHANGED <<status, faults>>
<1> USE DEF runVars, CommandFault, SignalRunner, storeVars, runnerVars,
            activeVars
<1>1. CASE CreateContext \/ MarkStarting
  BY <1>1 DEF CreateContext, MarkStarting
<1>2. CASE SubmitExisting
  BY <1>2 DEF SubmitExisting
<1>3. CASE MarkRunning
  BY <1>3 DEF MarkRunning
<1>4. CASE GiveUp \/ ClaudeUnavailable \/ WatchReturns \/ WatchWrites
  BY <1>4 DEF GiveUp, ClaudeUnavailable, WatchReturns, WatchWrites
<1>5. CASE CancelReads \/ CancelWrites \/ CancelSignals
  BY <1>5 DEF CancelReads, CancelWrites, CancelSignals
<1>6. QED
  BY <1>1, <1>2, <1>3, <1>4, <1>5 DEF Commands

\* A context is created for a run that has no row and no runner.
LEMMA CreatedFresh ==
  ASSUME AllInv, CreateContext
  PROVE  /\ status = "none" /\ rpc = "none" /\ kind # "fake"
         /\ status' = "queued" /\ ctx'.lc = "created"
BY DEF CreateContext, AllInv, RunInv, StageInv, ContextInv, StartInv

\* A restart takes only what was in the application's memory.
LEMMA RestartMoves ==
  ASSUME Restart
  PROVE  /\ UNCHANGED <<kind, status, events, faults, parent, kids>>
         /\ UNCHANGED <<seq, rpc, ev, code, outcome, forwardVars>>
            \/ (rpc' = "none" /\ fw' = "none" /\ shown' = <<>> /\ live' = <<>>
                /\ lagged' = FALSE)
<1> USE DEF storeVars, runnerVars, activeVars, childVars, forwardVars
<1>1. CASE Crash
  BY <1>1 DEF Crash, Vanish
<1>2. CASE ReconcileContexts \/ ReconcileApprovals
  BY <1>2 DEF ReconcileContexts, ReconcileApprovals, Reboots
<1>3. QED
  BY <1>1, <1>2 DEF Restart

LEMMA RestartContext ==
  ASSUME Restart, RowTypes, ctx.lc # "none"
  PROVE  ctx'.lc # "none"
<1>1. CASE Crash \/ ReconcileApprovals
  BY <1>1 DEF Crash, ReconcileApprovals, contextVars
<1>2. CASE ReconcileContexts
  BY <1>2 DEF ReconcileContexts, RowTypes, Row
<1>3. QED
  BY <1>1, <1>2 DEF Restart

LEMMA StageRunner == AllInv /\ RunStep => StageInv'
<1> SUFFICES ASSUME AllInv, RunStep PROVE StageInv'
  OBVIOUS
<1>1. StageInv /\ StartInv /\ ctx' = ctx
  BY DEF AllInv, RunInv, ContextInv, RunStep, aside, contextVars
<1> USE DEF StageInv, storeVars, runnerVars, activeVars, childVars, forwardVars,
            Persist, Lost, StoreFault, Append1
<1>2. CASE Preparing \/ Running
  BY <1>1, <1>2 DEF Preparing, Running, Open
<1>3. CASE CancelBeforeSpawn \/ Spawn \/ SpawnFails
  BY <1>1, <1>3 DEF CancelBeforeSpawn, Spawn, SpawnFails, Open
<1>4. CASE Line \/ CodexLine
  BY <1>1, <1>4 DEF Line, CodexLine, Recorded, Unrecorded
<1>5. CASE CancelSeen \/ Kill
  BY <1>1, <1>5 DEF CancelSeen, Kill, AfterKill, Open
<1>6. CASE Stop \/ Abort
  BY <1>1, <1>6 DEF Stop, Abort, AfterKill, Open
<1>7. CASE ObserveExit \/ CannotWait \/ Settle \/ DrainCommand \/ DrainEnds
           \/ OutputClosed \/ WaitForExit \/ Finalize
  BY <1>1, <1>7
  DEF ObserveExit, CannotWait, Settle, DrainCommand, DrainEnds, OutputClosed,
      WaitForExit, Finalize, Open
<1>8. CASE Finish
  BY <1>1, <1>8, RowSteps DEF Finish, Open, Terminal
<1>9. CASE FinishUnstored \/ Leave
  BY <1>1, <1>9 DEF FinishUnstored, Leave
<1>10. CASE Child \/ Forwarder
  BY <1>1, <1>10, OthersLeave
<1>11. CASE SubmitRun
  BY <1>1, <1>11 DEF SubmitRun, Register
<1>12. CASE CancelRun
  BY <1>1, <1>12 DEF CancelRun
<1>13. QED
  BY <1>2, <1>3, <1>4, <1>5, <1>6, <1>7, <1>8, <1>9, <1>10, <1>11, <1>12
  DEF RunStep, Runner

LEMMA StageCommands == AllInv /\ Commands => StageInv'
<1> SUFFICES ASSUME AllInv, Commands PROVE StageInv'
  OBVIOUS
<1>1. StageInv /\ StartInv
  BY DEF AllInv, RunInv, ContextInv
<1>2. CASE CreateContext
  <2>1. UNCHANGED <<kind, rpc>>
    BY <1>2 DEF CreateContext, runnerVars
  <2>2. QED
    BY <1>1, <1>2, <2>1, CreatedFresh DEF StageInv
<1>3. CASE status' = status
  <2>1. ctx.lc # "none" => ctx'.lc # "none"
    BY ContextStays DEF AllInv, ContextInv
  <2>2. kind' = kind
    BY CommandMoves
  <2>3. rpc' = rpc \/ (rpc' = "prepare" /\ status = "queued" /\ kind = "codex")
    BY <1>1, CommandMoves DEF Register, StartInv
  <2>4. QED
    BY <1>1, <1>3, <2>1, <2>2, <2>3 DEF StageInv
<1>4. QED
  BY <1>2, <1>3, CommandMoves

LEMMA StageOthers == AllInv /\ (Approvals \/ Restart) => StageInv'
<1> SUFFICES ASSUME AllInv, Approvals \/ Restart PROVE StageInv'
  OBVIOUS
<1>1. StageInv /\ RowTypes
  BY DEF AllInv, RunInv, ContextInv
<1>2. CASE Approvals
  BY <1>1, <1>2 DEF Approvals, AskBegins, AskWritten, DecideReads, DecideWrites,
     StageInv, runVars, storeVars, runnerVars, contextVars
<1>3. CASE Restart
  BY <1>1, <1>3, RestartMoves, RestartContext DEF StageInv
<1>4. QED
  BY <1>2, <1>3

-------------------------------------------------------------------------------
\* The history.

\* What a step of the system does to the row and its history.
Unwritten == /\ UNCHANGED <<status, events>>
             /\ rpc' = "none" \/ events = <<>>
                \/ (rpc # "none" /\ seq' \in {seq, seq + 1})
Created   == status = "none" /\ status' = "queued" /\ UNCHANGED events
HistoryStep == \/ Unwritten \/ Created
               \/ rpc # "none" /\ rpc' # "none" /\ StoreStep

LEMMA StepHistory == AllInv /\ [Next]_vars => HistoryStep
<1> SUFFICES ASSUME AllInv, [Next]_vars PROVE HistoryStep
  OBVIOUS
<1> USE DEF HistoryStep
<1>1. StageInv /\ HistoryInv
  BY DEF AllInv, RunInv
<1>2. CASE Runner
  BY <1>2, RunnerStore, RunnerMoves
<1>3. CASE UNCHANGED <<status, events, rpc, seq>>
  BY <1>3 DEF Unwritten
<1>4. CASE Child \/ Forwarder
  BY <1>3, <1>4, OthersLeave
<1>5. CASE SubmitRun
  BY <1>1, <1>5 DEF SubmitRun, Created
<1>6. CASE CancelRun \/ Approvals \/ UNCHANGED vars
  BY <1>3, <1>6 DEF CancelRun, Approvals, AskBegins, AskWritten, DecideReads,
     DecideWrites, vars, runVars, storeVars, runnerVars
<1>7. CASE Commands
  <2>1. CASE CreateContext
    BY <2>1, CreatedFresh, CommandMoves, <1>7 DEF Created
  <2>2. CASE status' = status
    BY <1>1, <1>7, <2>2, <1>3, CommandMoves DEF HistoryInv, Unwritten
  <2>3. QED
    BY <1>7, <2>1, <2>2, CommandMoves
<1>8. CASE Restart
  BY <1>3, <1>8, RestartMoves DEF Unwritten
<1>9. QED
  BY <1>2, <1>4, <1>5, <1>6, <1>7, <1>8 DEF Next, RunStep

\* The history after one more event.
LEMMA LongerHistory ==
  ASSUME AllInv, NEW t \in EventTypes, Record(t)
  PROVE  /\ events \in Seq(Event) /\ events' \in Seq(Event) /\ seq \in Nat
         /\ Len(events) \in Nat /\ Len(events') = Len(events) + 1
         /\ \A i \in 1..Len(events) : events'[i] = events[i]
         /\ events'[Len(events')].n = seq + 1
         /\ events'[Len(events')].type = t
         /\ seq' = seq + 1
<1>1. SequenceTypes /\ seq \in Nat /\ events \in Seq(Event)
  BY DEF AllInv, TypeInv, SequenceTypes, ControlTypes
<1>2. /\ events' \in Seq(Event) /\ Len(events') = Len(events) + 1
      /\ \A i \in 1..Len(events) : events'[i] = events[i]
      /\ events'[Len(events) + 1] = [n |-> seq + 1, type |-> t]
      /\ seq' = seq + 1
  BY <1>1, RecordAppends
<1>3. Len(events) \in Nat
  BY <1>1, LenProperties
<1>4. QED
  BY <1>1, <1>2, <1>3

LEMMA HistoryKept == AllInv /\ [Next]_vars => HistoryInv'
<1> SUFFICES ASSUME AllInv, [Next]_vars PROVE HistoryInv'
  OBVIOUS
<1>1. StageInv /\ HistoryInv /\ events \in Seq(Event) /\ seq \in Nat
  BY DEF AllInv, RunInv, TypeInv, ControlTypes, SequenceTypes
<1>2. \A i \in 1..Len(events) : events[i].n \in Nat
  <2>1. \A i \in 1..Len(events) : events[i] \in Event
    BY <1>1
  <2>2. QED
    BY <2>1 DEF Event
<1>3. CASE Unwritten \/ (rpc # "none" /\ Silent)
  BY <1>1, <1>2, <1>3 DEF Unwritten, Silent, HistoryInv
<1>4. CASE Created
  BY <1>1, <1>4 DEF Created, HistoryInv, Terminal
<1>5. ASSUME NEW t \in EventTypes, Record(t), rpc # "none",
             status' \notin {"none", "queued"},
             status' \in Terminal => t = status',
             t \in Terminal => t = status',
             status \notin Terminal
      PROVE  HistoryInv'
  <2>1. \A i \in 1..Len(events) : events[i].type \notin Terminal
    BY <1>1, <1>5 DEF HistoryInv
  <2>2. ASSUME NEW i \in 1..Len(events')
        PROVE  /\ events'[i].type \in Terminal =>
                    i = Len(events') /\ status' = events'[i].type
               /\ events'[i].n > 0 /\ events'[i].n <= seq'
               /\ \A j \in (i + 1)..Len(events') : events'[i].n < events'[j].n
    <3>1. CASE i = Len(events')
      BY <1>5, <3>1, LongerHistory
    <3>2. CASE i \in 1..Len(events)
      <4>1. events'[i] = events[i] /\ events[i].n > 0 /\ events[i].n <= seq
        BY <1>1, <1>5, <3>2, LongerHistory DEF HistoryInv
      <4>2. ASSUME NEW j \in (i + 1)..Len(events')
            PROVE  events'[i].n < events'[j].n
        <5>1. CASE j = Len(events')
          BY <1>2, <1>5, <3>2, <4>1, <5>1, LongerHistory
        <5>2. CASE j \in (i + 1)..Len(events)
          <6>1. j \in 1..Len(events)
            BY <3>2, <5>2, <1>5, LongerHistory
          <6>2. QED
            BY <1>1, <1>5, <3>2, <4>1, <5>2, <6>1, LongerHistory DEF HistoryInv
        <5>3. QED
          BY <1>5, <5>1, <5>2, LongerHistory
      <4>3. QED
        BY <1>2, <1>5, <2>1, <3>2, <4>1, <4>2, LongerHistory
    <3>3. QED
      BY <1>5, <3>1, <3>2, LongerHistory
  <2>3. events' # <<>>
    BY <1>5, LongerHistory
  <2>4. QED
    BY <1>5, <2>2, <2>3, LongerHistory DEF HistoryInv
<1>6. ASSUME rpc # "none", StoreStep, ~Silent
      PROVE  HistoryInv'
  <2>1. CASE rpc \in {"loop", "drain"} /\
             \E t \in {"event", "agent_failed", "parser_error"} : Appended(t)
    <3>1. status = "running" /\ status' = "running"
      BY <1>1, <2>1 DEF StageInv, Appended
    <3>2. PICK t \in {"event", "agent_failed", "parser_error"} : Appended(t)
      BY <2>1
    <3>3. QED
      BY <1>5, <1>6, <3>1, <3>2 DEF Appended, EventTypes, Terminal
  <2>2. ASSUME NEW t \in {"preparing", "running", "cancelling"} \union Terminal,
               Moved(t)
        PROVE  HistoryInv'
    <3>1. status \notin Terminal
      BY <2>2, RowSteps DEF Moved
    <3>2. QED
      BY <1>5, <1>6, <2>2, <3>1 DEF Moved, EventTypes, Terminal
  <2>3. QED
    BY <1>6, <2>1, <2>2 DEF StoreStep
<1>7. QED
  BY <1>3, <1>4, <1>6, StepHistory DEF HistoryStep

-------------------------------------------------------------------------------
\* The evidence.

LEMMA LongerTypes ==
  ASSUME AllInv, NEW t \in EventTypes, Record(t)
  PROVE  Types(events') = Types(events) \union {t}
<1>1. DOMAIN events = 1..Len(events) /\ DOMAIN events' = 1..Len(events')
      /\ 1..Len(events') = 1..Len(events) \union {Len(events')}
  BY LongerHistory
<1>2. ASSUME NEW x
      PROVE  x \in Types(events') <=> x \in Types(events) \union {t}
  <2>1. x \in Types(events') <=> \E i \in 1..Len(events') : x = events'[i].type
    BY <1>1 DEF Types
  <2>2. x \in Types(events) <=> \E i \in 1..Len(events) : x = events[i].type
    BY <1>1 DEF Types
  <2>3. QED
    BY <1>1, <2>1, <2>2, LongerHistory
<1>3. QED
  BY <1>2

\* The same for the ways the runner records something.
LEMMA Recordings ==
  ASSUME AllInv
  PROVE  /\ \A s \in {"preparing", "running", "cancelling"} \union Terminal :
              Persist(s) => /\ Types(events') = Types(events) \union {s}
                            /\ status' = s /\ s \in Successors[status]
                            /\ UNCHANGED faults
         /\ \A h \in AgentLines : Recorded(h) =>
              /\ Types(events') = Types(events) \union {EventOf(h)}
              /\ h # "oversized" /\ UNCHANGED <<status, faults>>
         /\ \A h : Unrecorded(h) => UNCHANGED <<status, events>>
              /\ Types(events') = Types(events)
         /\ StoreFault => /\ UNCHANGED <<status, events>> /\ faults' = faults + 1
                          /\ Types(events') = Types(events)
         /\ Lost => UNCHANGED <<status, events>>
                    /\ Types(events') = Types(events)
<1>1. ASSUME NEW s \in {"preparing", "running", "cancelling"} \union Terminal,
             Persist(s)
      PROVE  /\ Types(events') = Types(events) \union {s} /\ status' = s
             /\ s \in Successors[status] /\ UNCHANGED faults
  <2>1. s \in EventTypes /\ Record(s)
    BY <1>1 DEF Persist, EventTypes
  <2>2. QED
    BY <1>1, <2>1, LongerTypes DEF Persist, Record
<1>2. ASSUME NEW h \in AgentLines, Recorded(h)
      PROVE  /\ Types(events') = Types(events) \union {EventOf(h)}
             /\ h # "oversized" /\ UNCHANGED <<status, faults>>
  <2>1. EventOf(h) \in EventTypes /\ Record(EventOf(h))
    BY <1>2 DEF Recorded, Append1, EventOf, EventTypes
  <2>2. QED
    BY <1>2, <2>1, LongerTypes DEF Recorded, Append1, Record
<1>3. (Lost \/ StoreFault \/ \E h : Unrecorded(h)) =>
        UNCHANGED <<status, events>> /\ Types(events') = Types(events)
  <2>1. (Lost \/ StoreFault \/ \E h : Unrecorded(h)) =>
          UNCHANGED <<status, events>>
    BY DEF Lost, StoreFault, Unrecorded
  <2>2. QED
    BY <2>1
<1>4. QED
  BY <1>1, <1>2, <1>3 DEF StoreFault

LEMMA HeadIsLine == ASSUME AllInv, output # <<>> PROVE Head(output) \in AgentLines
BY HeadTailProperties DEF AllInv, TypeInv, SequenceTypes

LEMMA SeenFields ==
  ASSUME NEW h, NEW e, ev \in Evidence,
         e = SeesFailure(h) \/ e = [SeesFailure(h) EXCEPT !.store = TRUE]
  PROVE  /\ e.failed = (ev.failed \/ h = "failed")
         /\ e.malformed = (ev.malformed \/ h \in {"garbage", "broken"})
         /\ e.winner = IF h = "failed" /\ ev.winner = "none" THEN "failure"
                       ELSE ev.winner
         /\ e.linger = ev.linger /\ e.term = ev.term /\ e.fatal = ev.fatal
         /\ e.exit = ev.exit
<1>1. CASE h = "failed"
  BY <1>1 DEF SeesFailure, Evidence
<1>2. CASE h \in {"garbage", "broken"}
  BY <1>2 DEF SeesFailure, Evidence
<1>3. CASE h \notin {"failed", "garbage", "broken"}
  BY <1>3 DEF SeesFailure, Evidence
<1>4. QED
  BY <1>1, <1>2, <1>3

LEMMA EvidenceRunner ==
  ASSUME AllInv, Runner
  PROVE  EvidenceInv'
<1>1. /\ StageInv /\ EvidenceInv /\ ev \in Evidence
      /\ status \in {"none"} \union Open \union Terminal
      /\ faults \in Nat /\ rpc # "none"
  BY RunnerMoves DEF AllInv, RunInv, TypeInv, ControlTypes
<1>2. /\ \A h : SeesFailure(h) =
           IF h = "failed"
           THEN [ev EXCEPT !.failed = TRUE,
                   !.winner = IF ev.winner = "none" THEN "failure" ELSE ev.winner]
           ELSE IF h \in {"garbage", "broken"} THEN [ev EXCEPT !.malformed = TRUE]
           ELSE ev
      /\ CancelWins = [ev EXCEPT !.winner =
                         IF ev.winner = "none" THEN "cancel" ELSE ev.winner]
  BY DEF SeesFailure, CancelWins
<1>3. UNCHANGED events => Types(events') = Types(events)
  OBVIOUS
<1> USE <1>1 DEF storeVars, runnerVars, activeVars, childVars, forwardVars,
                 StageInv, EvidenceInv, Evidence
<1>4. CASE Preparing
  BY <1>4, Recordings DEF Preparing, Terminal
<1>5. CASE CancelBeforeSpawn \/ Spawn \/ SpawnFails
  <2>1. CASE CancelBeforeSpawn
    BY <1>3, <2>1 DEF CancelBeforeSpawn
  <2>2. CASE Spawn
    BY <1>3, <2>2 DEF Spawn
  <2>3. CASE SpawnFails
    BY <1>3, <2>3 DEF SpawnFails
  <2>4. QED
    BY <1>5, <2>1, <2>2, <2>3
<1>6. CASE Running
  <2>1. CASE Persist("running")
    BY <1>6, <2>1, Recordings DEF Running, Terminal
  <2>2. CASE StoreFault
    BY <1>6, <2>2, Recordings DEF Running
  <2>3. QED
    BY <1>6, <2>1, <2>2 DEF Running
<1>7. CASE Line
  <2>1. Head(output) \in AgentLines
    BY <1>7, HeadIsLine DEF Line
  <2>2. CASE Recorded(Head(output)) /\ ev' = SeesFailure(Head(output))
             /\ UNCHANGED rpc
    <3>1. /\ Types(events') = Types(events) \union {EventOf(Head(output))}
          /\ UNCHANGED <<status, faults>> /\ status = "running"
          /\ Head(output) # "oversized"
      BY <1>7, <2>1, <2>2, Recordings DEF Line
    <3>a. /\ ev'.failed = (ev.failed \/ Head(output) = "failed")
          /\ ev'.malformed = (ev.malformed \/ Head(output) \in {"garbage", "broken"})
          /\ ev'.winner = IF Head(output) = "failed" /\ ev.winner = "none"
                          THEN "failure" ELSE ev.winner
          /\ ev'.linger = ev.linger
      BY <2>2, SeenFields
    <3>2. QED
      <4>1. /\ EventOf(Head(output)) = "agent_failed" <=> Head(output) = "failed"
            /\ EventOf(Head(output)) = "parser_error" =>
                 Head(output) \in {"garbage", "broken"}
        BY <2>1, <3>1 DEF EventOf, AgentLines
      <4>2. QED
        BY <2>2, <3>1, <3>a, <4>1
  <2>3. CASE Unrecorded(Head(output)) /\ rpc' = "stop"
             /\ ev' = [SeesFailure(Head(output)) EXCEPT !.store = TRUE]
    <3>1. Types(events') = Types(events) /\ status' = "running"
          /\ status = "running"
      BY <1>7, <2>3, Recordings DEF Line
    <3>2. faults > 0 => faults' > 0
      BY <2>3 DEF Unrecorded, StoreFault
    <3>a. /\ ev'.failed = (ev.failed \/ Head(output) = "failed")
          /\ ev'.malformed = (ev.malformed \/ Head(output) \in {"garbage", "broken"})
          /\ ev'.winner = IF Head(output) = "failed" /\ ev.winner = "none"
                          THEN "failure" ELSE ev.winner
          /\ ev'.linger = ev.linger
      BY <2>3, SeenFields
    <3>3. /\ "agent_failed" \in Types(events) => ev.failed
          /\ "parser_error" \in Types(events) => ev.malformed
          /\ ev.failed => ev.winner # "none"
          /\ ev.winner = "failure" => ev.failed
          /\ ev.winner = "cancel" => faults > 0
      BY <3>1 DEF Terminal
    <3>4. /\ ev'.failed => ev'.winner # "none"
          /\ ev'.winner = "failure" => ev'.failed
          /\ ev'.winner = "cancel" => faults' > 0
      BY <3>2, <3>3, <3>a
    <3>5. /\ "agent_failed" \in Types(events') => ev'.failed
          /\ "parser_error" \in Types(events') => ev'.malformed
      BY <3>1, <3>3, <3>a
    <3>6. QED
      BY <2>3, <3>1, <3>4, <3>5
  <2>4. QED
    BY <1>7, <2>2, <2>3 DEF Line
<1>8. CASE CodexLine
  <2>1. Head(output) \in AgentLines
    BY <1>8, HeadIsLine DEF CodexLine
  <2>2. CASE Recorded(Head(output)) /\ ev' = SeesFailure(Head(output))
             /\ rpc' \in {"stop", "wait", rpc}
    <3>1. /\ Types(events') = Types(events) \union {EventOf(Head(output))}
          /\ UNCHANGED <<status, faults>> /\ status = "running"
          /\ Head(output) # "oversized"
          /\ rpc = "loop"
      BY <1>8, <2>1, <2>2, Recordings DEF CodexLine
    <3>a. /\ ev'.failed = (ev.failed \/ Head(output) = "failed")
          /\ ev'.malformed = (ev.malformed \/ Head(output) \in {"garbage", "broken"})
          /\ ev'.winner = IF Head(output) = "failed" /\ ev.winner = "none"
                          THEN "failure" ELSE ev.winner
          /\ ev'.linger = ev.linger
      BY <2>2, SeenFields
    <3>2. QED
      <4>1. /\ EventOf(Head(output)) = "agent_failed" <=> Head(output) = "failed"
            /\ EventOf(Head(output)) = "parser_error" =>
                 Head(output) \in {"garbage", "broken"}
        BY <2>1, <3>1 DEF EventOf, AgentLines
      <4>2. QED
        BY <2>2, <3>1, <3>a, <4>1
  <2>3. CASE Unrecorded(Head(output)) /\ rpc' \in {"stop", "wait"}
             /\ ev' \in {SeesFailure(Head(output)),
                        [SeesFailure(Head(output)) EXCEPT !.store = TRUE]}
    <3>1. Types(events') = Types(events) /\ status' = "running"
          /\ status = "running" /\ rpc = "loop"
      BY <1>8, <2>3, Recordings DEF CodexLine
    <3>2. faults > 0 => faults' > 0
      BY <2>3 DEF Unrecorded, StoreFault
    <3>a. /\ ev'.failed = (ev.failed \/ Head(output) = "failed")
          /\ ev'.malformed = (ev.malformed \/ Head(output) \in {"garbage", "broken"})
          /\ ev'.winner = IF Head(output) = "failed" /\ ev.winner = "none"
                          THEN "failure" ELSE ev.winner
          /\ ev'.linger = ev.linger
      <4>1. CASE ev' = SeesFailure(Head(output))
        BY <4>1, SeenFields
      <4>2. CASE ev' = [SeesFailure(Head(output)) EXCEPT !.store = TRUE]
        BY <4>2, SeenFields
      <4>3. QED
        BY <2>3, <4>1, <4>2
    <3>3. QED
      BY <2>3, <3>1, <3>2, <3>a
  <2>4. QED
    BY <1>8, <2>2, <2>3 DEF CodexLine
<1>9. CASE CancelSeen
  BY <1>2, <1>9, Recordings DEF CancelSeen, Winners, Terminal
<1>10. CASE Kill
  BY <1>3, <1>10 DEF Kill, Winners, AfterKill
<1>11. CASE Stop \/ Abort
  BY <1>3, <1>11 DEF Stop, Abort, Winners, AfterKill
<1>12. CASE ObserveExit \/ WaitForExit
  BY <1>3, <1>12 DEF ObserveExit, WaitForExit, Winners
<1>13. CASE CannotWait \/ Settle
  BY <1>3, <1>13 DEF CannotWait, Settle, Winners
<1>14. CASE DrainCommand \/ DrainEnds \/ OutputClosed
  BY <1>3, <1>14 DEF DrainCommand, DrainEnds, OutputClosed
<1>15. CASE Finalize \/ FinishUnstored \/ Leave
  BY <1>3, <1>15 DEF Finalize, FinishUnstored, Leave
<1>16. CASE Finish
  BY <1>16, Recordings, RowSteps DEF Finish, Terminal
<1>17. QED
  BY <1>4, <1>5, <1>6, <1>7, <1>8, <1>9, <1>10, <1>11, <1>12, <1>13, <1>14,
     <1>15, <1>16 DEF Runner

-------------------------------------------------------------------------------
\* The other steps, and the outcome.

\* What the others do to the run: nothing the runner would see, or they start it,
\* or create its row, or the application dies with it.
Beneath == /\ UNCHANGED <<kind, status, events, rpc, ev, outcome>>
           /\ faults > 0 => faults' > 0
           /\ UNCHANGED <<parent, code, kids>> \/ Child
Begins  == /\ Register /\ UNCHANGED <<kind, parent, kids, events, faults>>
           /\ status \in {"none", "queued"} /\ status' = "queued"
           /\ events = <<>> /\ rpc \in {"none", "done"}
Opens   == /\ rpc = "none" /\ rpc' = "none" /\ status = "none"
           /\ status' = "queued" /\ events = <<>>
           /\ UNCHANGED <<kind, events, parent, kids, faults>>
Dies    == rpc' = "none" /\ UNCHANGED <<kind, status, events, parent, kids, faults>>

LEMMA OthersMove ==
  ASSUME AllInv, [Next]_vars, ~Runner
  PROVE  Beneath \/ Begins \/ Opens \/ Dies
<1>1. /\ StageInv /\ HistoryInv /\ MapInv /\ faults \in Nat
      /\ rpc \in {"none", "prepare", "spawn", "start", "loop", "kill", "stop",
                 "abort", "settle", "drain", "wait", "finalize", "finish",
                 "leave", "done"}
  BY DEF AllInv, RunInv, ContextInv, TypeInv, ControlTypes
<1> USE DEF storeVars, runnerVars, activeVars, childVars
<1>2. CASE Child \/ Forwarder
  <2>1. faults > 0 => faults' > 0
    BY <1>1, <1>2 DEF Child, AgentExits, KidsExit, AgentWrites, Forwarder,
       SubscribeRun, Replay, ReplayFails, ReplayLagged, ForwardLive, ForwardClosed
  <2>2. UNCHANGED <<parent, code, kids>> \/ Child
    BY <1>2 DEF Forwarder, SubscribeRun, Replay, ReplayFails, ReplayLagged,
       ForwardLive, ForwardClosed
  <2>3. QED
    BY <1>2, <2>1, <2>2, OthersLeave DEF Beneath
<1>3. CASE SubmitRun
  <2>1. events = <<>> /\ rpc = "none"
    BY <1>1, <1>3 DEF SubmitRun, StageInv, HistoryInv, Open
  <2>2. QED
    BY <1>3, <2>1 DEF SubmitRun, Begins
<1>4. CASE CancelRun \/ Approvals \/ UNCHANGED vars
  BY <1>4 DEF CancelRun, Approvals, AskBegins, AskWritten, DecideReads,
     DecideWrites, vars, runVars, Beneath
<1>5. CASE CreateContext
  <2>1. status = "none" /\ rpc = "none" /\ status' = "queued"
    BY <1>5, CreatedFresh
  <2>2. UNCHANGED <<kind, events, faults, rpc, parent, kids>>
    BY <1>5 DEF CreateContext
  <2>3. QED
    BY <1>1, <2>1, <2>2 DEF HistoryInv, Opens
<1>6. CASE Commands /\ ~CreateContext
  <2>1. /\ UNCHANGED <<kind, events, childVars>> /\ status' = status
        /\ faults > 0 => faults' > 0
    BY <1>1, <1>6, CommandMoves
  <2>2. CASE UNCHANGED <<seq, rpc, ev, outcome>>
    BY <2>1, <2>2 DEF Beneath
  <2>3. CASE /\ Register /\ status = "queued" /\ entry = "none"
             /\ UNCHANGED <<status, faults>>
    BY <1>1, <2>1, <2>3 DEF HistoryInv, MapInv, Begins
  <2>4. QED
    BY <1>6, <2>2, <2>3, CommandMoves
<1>7. CASE Restart
  <2>1. CASE Crash
    BY <2>1 DEF Crash, Vanish, Dies
  <2>2. CASE ReconcileContexts \/ ReconcileApprovals
    BY <2>2 DEF ReconcileContexts, ReconcileApprovals, Reboots, Beneath
  <2>3. QED
    BY <1>7, <2>1, <2>2 DEF Restart
<1>8. QED
  BY <1>2, <1>3, <1>4, <1>5, <1>6, <1>7 DEF Next, RunStep

LEMMA EvidenceOthers == AllInv /\ [Next]_vars /\ ~Runner => EvidenceInv'
<1> SUFFICES ASSUME AllInv, [Next]_vars, ~Runner PROVE EvidenceInv'
  OBVIOUS
<1>1. EvidenceInv
  BY DEF AllInv, RunInv
<1>2. CASE Beneath
  <2>1. Types(events') = Types(events)
    BY <1>2 DEF Beneath
  <2>2. QED
    BY <1>1, <1>2, <2>1 DEF Beneath, EvidenceInv
<1>3. CASE Begins
  <2>1. Types(events') = {}
    BY <1>3 DEF Begins, Types
  <2>2. QED
    BY <1>3, <2>1 DEF Begins, Register, EvidenceInv, NoEvidence
<1>4. CASE Opens \/ Dies
  BY <1>4 DEF Opens, Dies, EvidenceInv
<1>5. QED
  BY <1>2, <1>3, <1>4, OthersMove

\* Where the runner is when it is about to end the run.
LEMMA OutcomeKept == AllInv /\ [Next]_vars => OutcomeInv'
<1> SUFFICES ASSUME AllInv, [Next]_vars PROVE OutcomeInv'
  OBVIOUS
<1>1. /\ StageInv /\ EvidenceInv /\ OutcomeInv /\ CancelledInv
      /\ faults \in Nat /\ status \in {"none"} \union Open \union Terminal
  BY DEF AllInv, RunInv, TypeInv, ControlTypes
<1>2. CASE ~Runner
  BY <1>1, <1>2, OthersMove
  DEF OutcomeInv, Beneath, Begins, Opens, Dies, Register
<1>3. CASE Finish
  <2>1. rpc' = "leave" /\ ev' = ev /\ status \in Open \ {"queued"}
    BY <1>1, <1>3 DEF Finish, StageInv
  <2>2. CASE Persist(Resolve(ev))
    BY <2>1, <2>2 DEF Persist, OutcomeInv
  <2>3. CASE StoreFault
    <3>1. faults' > 0 /\ status' = status
      BY <1>1, <2>3 DEF StoreFault, Lost
    <3>2. QED
      BY <2>1, <3>1 DEF OutcomeInv, Open, Terminal
  <2>4. CASE Resolve(ev) \notin Successors[status] /\ Lost /\ faults' = faults
    <3>1. status' = status
      BY <2>4 DEF Lost
    <3>2. faults > 0
      <4>1. Resolve(ev) \in Terminal
        BY RowSteps
      <4>2. \/ status = "preparing" /\ Resolve(ev) = "completed"
            \/ status = "running" /\ Resolve(ev) = "cancelled"
            \/ status = "cancelling" /\ Resolve(ev) = "completed"
        BY <2>1, <2>4, <4>1, RowSteps DEF Open, Terminal
      <4>3. Resolve(ev) = "completed" => ev.winner = "exit"
        BY DEF Resolve
      <4>4. Resolve(ev) = "cancelled" => ev.winner = "cancel"
        BY DEF Resolve
      <4>5. CASE status = "cancelling" /\ Resolve(ev) = "completed"
        BY <1>1, <1>3, <4>3, <4>5 DEF CancelledInv, Finish
      <4>6. CASE status \in {"preparing", "running"}
        BY <1>1, <1>3, <4>2, <4>3, <4>4, <4>6 DEF EvidenceInv, Finish, Terminal
      <4>7. QED
        BY <4>2, <4>5, <4>6
    <3>3. QED
      BY <2>1, <2>4, <3>1, <3>2 DEF OutcomeInv, Open, Terminal
  <2>5. QED
    BY <1>3, <2>2, <2>3, <2>4 DEF Finish
<1> USE <1>1 DEF OutcomeInv, StageInv, storeVars, runnerVars, activeVars, Persist,
                 Lost, StoreFault, Append1
<1>4. CASE Preparing \/ Running
  BY <1>4 DEF Preparing, Running, Open, Terminal
<1>5. CASE CancelBeforeSpawn \/ Spawn \/ SpawnFails
  BY <1>5 DEF CancelBeforeSpawn, Spawn, SpawnFails
<1>6. CASE Line \/ CodexLine
  BY <1>6 DEF Line, CodexLine
<1>7. CASE CancelSeen \/ Kill \/ Stop \/ Abort
  BY <1>7 DEF CancelSeen, Kill, Stop, Abort, AfterKill
<1>8. CASE ObserveExit \/ CannotWait \/ Settle \/ DrainCommand \/ DrainEnds
           \/ OutputClosed \/ WaitForExit \/ Finalize
  BY <1>8
  DEF ObserveExit, CannotWait, Settle, DrainCommand, DrainEnds, OutputClosed,
      WaitForExit, Finalize
<1>9. CASE FinishUnstored \/ Leave
  BY <1>9 DEF FinishUnstored, Leave, Terminal
<1>10. QED
  BY <1>2, <1>3, <1>4, <1>5, <1>6, <1>7, <1>8, <1>9 DEF Runner

-------------------------------------------------------------------------------
\* The cancellation that is on record, and the child.

LEMMA CancelledOthers == AllInv /\ [Next]_vars /\ ~Runner => CancelledInv'
<1> SUFFICES ASSUME AllInv, [Next]_vars, ~Runner PROVE CancelledInv'
  OBVIOUS
<1>1. CancelledInv /\ StageInv
  BY DEF AllInv, RunInv
<1>2. CASE Beneath
  <2>1. Types(events') = Types(events) /\ Len(events') = Len(events)
        /\ UNCHANGED <<status, events, rpc, ev>>
    BY <1>2 DEF Beneath
  <2>2. QED
    BY <1>1, <2>1 DEF CancelledInv
<1>3. CASE Begins
  <2>1. Types(events') = {} /\ status' = "queued"
    BY <1>3 DEF Begins, Types
  <2>2. QED
    BY <2>1 DEF CancelledInv
<1>4. CASE Opens
  <2>1. Types(events') = {} /\ status' = "queued"
    BY <1>4 DEF Opens, Types
  <2>2. QED
    BY <2>1 DEF CancelledInv
<1>5. CASE Dies
  <2>1. Types(events') = Types(events) /\ status' = status /\ rpc' = "none"
    BY <1>5 DEF Dies
  <2>2. QED
    BY <1>1, <2>1 DEF CancelledInv
<1>6. QED
  BY <1>2, <1>3, <1>4, <1>5, OthersMove

\* A request to cancel that is recorded while the run goes on is the first.
LEMMA CancelledSeen == AllInv /\ CancelSeen => CancelledInv'
<1> SUFFICES ASSUME AllInv, CancelSeen PROVE CancelledInv'
  OBVIOUS
<1>1. /\ CancelledInv /\ StageInv /\ EvidenceInv /\ ev \in Evidence
      /\ rpc = "loop" /\ status = "running" /\ rpc' = "kill"
  BY DEF AllInv, RunInv, TypeInv, CancelSeen, StageInv
<1>2. "cancelling" \notin Types(events)
  BY <1>1 DEF CancelledInv
<1>3. CASE StoreFault
  <2>1. Types(events') = Types(events) /\ status' = status
    BY <1>3, Recordings
  <2>2. QED
    BY <1>1, <1>2, <2>1 DEF CancelledInv
<1>4. CASE Persist("cancelling") /\ ev' = CancelWins
  <2>1. /\ Types(events') = Types(events) \union {"cancelling"}
        /\ status' = "cancelling"
    BY <1>4, Recordings
  <2>2. /\ ev'.winner = IF ev.winner = "none" THEN "cancel" ELSE ev.winner
        /\ ev'.linger = ev.linger
    BY <1>1, <1>4 DEF CancelWins, Evidence
  <2>3. IF "agent_failed" \in Types(events)
        THEN ev.winner = "failure" ELSE ev.winner = "none"
    BY <1>1 DEF EvidenceInv
  <2>4. Record("cancelling") /\ "cancelling" \in EventTypes
    BY <1>4 DEF Persist, EventTypes
  <2>5. ASSUME NEW i \in 1..Len(events'), NEW j \in 1..Len(events'),
               events'[i].type = "agent_failed",
               events'[j].type = "cancelling"
        PROVE  i < j
    <3>1. DOMAIN events = 1..Len(events)
      BY <2>4, LongerHistory
    <3>2. \A k \in 1..Len(events) : events[k].type # "cancelling"
      BY <1>2, <3>1 DEF Types
    <3>3. j = Len(events')
      <4>1. j \notin 1..Len(events)
        <5>1. \A k \in 1..Len(events) : events'[k].type = events[k].type
          BY <2>4, LongerHistory
        <5>2. QED
          BY <2>5, <3>2, <5>1
      <4>2. QED
        BY <2>4, <4>1, LongerHistory
    <3>4. i # Len(events')
      BY <2>4, <2>5, LongerHistory
    <3>5. QED
      BY <2>4, <3>3, <3>4, LongerHistory
  <2>6. ev.linger = FALSE
    BY <1>1 DEF EvidenceInv, Evidence
  <2>7. QED
    BY <1>1, <2>1, <2>2, <2>3, <2>5, <2>6 DEF CancelledInv
<1>5. QED
  BY <1>3, <1>4 DEF CancelSeen

LEMMA CancelledRunner == AllInv /\ Runner => CancelledInv'
<1> SUFFICES ASSUME AllInv, Runner PROVE CancelledInv'
  OBVIOUS
<1>1. /\ CancelledInv /\ StageInv /\ EvidenceInv /\ HistoryInv /\ ev \in Evidence
      /\ rpc # "none"
  BY RunnerMoves DEF AllInv, RunInv, TypeInv
\* Before the child is cancelled there is no cancellation to lose,
<1>2. ASSUME "cancelling" \notin Types(events'), status' # "cancelling"
      PROVE  CancelledInv'
  BY <1>2 DEF CancelledInv
\* and afterwards it stays what it was.
<1>3. ASSUME UNCHANGED <<status, events>>,
             rpc' \in {"kill", "wait", "finalize", "finish", "leave", "done"},
             ev.winner \in {"failure", "cancel"} => ev'.winner = ev.winner,
             ev'.linger = ev.linger
      PROVE  CancelledInv'
  <2>1. Types(events') = Types(events) /\ Len(events') = Len(events)
    BY <1>3
  <2>2. QED
    BY <1>1, <1>3, <2>1 DEF CancelledInv
<1> USE DEF storeVars, runnerVars, activeVars, childVars, forwardVars
<1>4. CASE Preparing \/ Running
  <2>1. "cancelling" \notin Types(events) /\ status # "cancelling"
    BY <1>1, <1>4 DEF Preparing, Running, StageInv, CancelledInv
  <2>2. QED
    BY <1>2, <1>4, <2>1, Recordings DEF Preparing, Running
<1>5. CASE CancelBeforeSpawn \/ Spawn \/ SpawnFails
  <2>1. "cancelling" \notin Types(events) /\ status # "cancelling"
    BY <1>1, <1>5 DEF CancelBeforeSpawn, Spawn, SpawnFails, StageInv, CancelledInv
  <2>2. QED
    BY <1>2, <1>5, <2>1 DEF CancelBeforeSpawn, Spawn, SpawnFails
<1>6. CASE Line \/ CodexLine
  <2>1. "cancelling" \notin Types(events) /\ status # "cancelling"
    BY <1>1, <1>6 DEF Line, CodexLine, StageInv, CancelledInv
  <2>2. Head(output) \in AgentLines
    BY <1>6, HeadIsLine DEF Line, CodexLine
  <2>3. Recorded(Head(output)) \/ Unrecorded(Head(output))
    BY <1>6 DEF Line, CodexLine
  <2>4. EventOf(Head(output)) # "cancelling"
    BY DEF EventOf
  <2>5. QED
    BY <1>2, <2>1, <2>2, <2>3, <2>4, Recordings
<1>7. CASE CancelSeen
  BY <1>7, CancelledSeen
<1>8. CASE Kill
  BY <1>1, <1>3, <1>8 DEF Kill, AfterKill, Evidence
<1>9. CASE Stop \/ Abort \/ ObserveExit \/ CannotWait \/ Settle
           \/ DrainCommand \/ DrainEnds \/ OutputClosed
  <2>1. "cancelling" \notin Types(events) /\ status # "cancelling"
    BY <1>1, <1>9
    DEF Stop, Abort, ObserveExit, CannotWait, Settle, DrainCommand, DrainEnds,
        OutputClosed, StageInv, CancelledInv
  <2>2. UNCHANGED <<status, events>>
    BY <1>9
    DEF Stop, Abort, ObserveExit, CannotWait, Settle, DrainCommand, DrainEnds,
        OutputClosed
  <2>3. QED
    BY <1>2, <2>1, <2>2
<1>10. CASE WaitForExit
  BY <1>1, <1>3, <1>10 DEF WaitForExit, Evidence
<1>11. CASE Finalize \/ FinishUnstored \/ Leave
  BY <1>3, <1>11 DEF Finalize, FinishUnstored, Leave
<1>12. CASE Finish
  <2>1. rpc' = "leave" /\ ev' = ev
    BY <1>12 DEF Finish
  <2>2. CASE StoreFault \/ Lost
    BY <1>3, <2>1, <2>2, Recordings
  <2>3. CASE Persist(Resolve(ev))
    <3>1. /\ Resolve(ev) \in Terminal /\ Resolve(ev) \in EventTypes
          /\ status' = Resolve(ev) /\ Record(Resolve(ev))
          /\ Resolve(ev) \notin {"cancelling", "agent_failed"}
          /\ Types(events') = Types(events) \union {Resolve(ev)}
      BY <2>3, RowSteps, Recordings DEF Persist, EventTypes, Terminal
    <3>2. ASSUME NEW i \in 1..Len(events'), NEW j \in 1..Len(events'),
                 events'[i].type = "agent_failed",
                 events'[j].type = "cancelling",
                 "cancelling" \in Types(events)
          PROVE  i < j
      <4>1. i # Len(events') /\ j # Len(events')
        BY <3>1, <3>2, LongerHistory
      <4>2. i \in 1..Len(events) /\ j \in 1..Len(events)
        BY <3>1, <4>1, LongerHistory
      <4>3. QED
        BY <1>1, <3>1, <3>2, <4>2, LongerHistory DEF CancelledInv
    <3>3. QED
      BY <1>1, <2>1, <3>1, <3>2 DEF CancelledInv, Terminal
  <2>4. QED
    BY <1>12, <2>2, <2>3 DEF Finish
<1>13. QED
  BY <1>4, <1>5, <1>6, <1>7, <1>8, <1>9, <1>10, <1>11, <1>12 DEF Runner

\* The child.
LEMMA ProcessOthers == AllInv /\ [Next]_vars /\ ~Runner => ProcessInv'
<1> SUFFICES ASSUME AllInv, [Next]_vars, ~Runner PROVE ProcessInv'
  OBVIOUS
<1>1. /\ ProcessInv /\ StageInv /\ parent \in {"none", "live", "exited"}
  BY DEF AllInv, RunInv, TypeInv, ControlTypes
<1>2. CASE Beneath
  <2>1. Types(events') = Types(events)
        /\ UNCHANGED <<kind, status, rpc, ev>>
    BY <1>2 DEF Beneath
  <2>2. CASE UNCHANGED <<parent, kids>>
    BY <1>1, <2>1, <2>2 DEF ProcessInv
  <2>3. CASE AgentExits
    BY <1>1, <2>1, <2>3 DEF ProcessInv, AgentExits
  <2>4. CASE KidsExit
    BY <1>1, <2>1, <2>4 DEF ProcessInv, KidsExit
  <2>5. ASSUME NEW l, AgentWrites(l) PROVE UNCHANGED <<parent, kids>>
    BY <2>5 DEF AgentWrites
  <2>6. QED
    BY <1>2, <2>2, <2>3, <2>4, <2>5 DEF Beneath, Child
<1>3. CASE Begins
  BY <1>1, <1>3 DEF Begins, Register, ProcessInv, NoEvidence
<1>4. CASE Opens
  BY <1>1, <1>4 DEF Opens, ProcessInv
<1>5. CASE Dies
  <2>1. Types(events') = Types(events)
    BY <1>5 DEF Dies
  <2>2. QED
    BY <1>1, <1>5, <2>1 DEF Dies, ProcessInv
<1>6. QED
  BY <1>2, <1>3, <1>4, <1>5, OthersMove

LEMMA ProcessFinish == AllInv /\ Finish => ProcessInv'
<1> SUFFICES ASSUME AllInv, Finish PROVE ProcessInv'
  OBVIOUS
<1>1. /\ ProcessInv /\ StageInv /\ EvidenceInv /\ CancelledInv
      /\ status \notin {"none", "queued"} \union Terminal /\ rpc = "finish"
      /\ rpc' = "leave" /\ UNCHANGED <<kind, ev, parent, kids>>
  BY DEF AllInv, RunInv, Finish, StageInv, Open, Terminal, childVars
<1>2. CASE StoreFault \/ Lost
  <2>1. UNCHANGED status
    BY <1>2, Recordings
  <2>2. QED
    BY <1>1, <2>1 DEF ProcessInv, Terminal
<1>3. CASE Persist(Resolve(ev))
  <2>1. /\ status' = Resolve(ev) /\ Resolve(ev) \in Terminal
        /\ Types(events') = Types(events) \union {Resolve(ev)}
    BY <1>3, RowSteps, Recordings
  <2>2. ASSUME Resolve(ev) = "completed"
        PROVE  /\ Types(events) \intersect
                    {"agent_failed", "parser_error", "cancelling"} = {}
               /\ kind = "fake" => parent = "exited" /\ kids = "none"
    <3>1. /\ ~ev.term /\ ~ev.fatal /\ ~ev.failed /\ ~ev.malformed
          /\ ev.winner = "exit"
      BY <2>2 DEF Resolve
    <3>2. QED
      BY <1>1, <3>1 DEF EvidenceInv, CancelledInv, ProcessInv
  <2>3. QED
    BY <1>1, <2>1, <2>2 DEF ProcessInv, Terminal
<1>4. QED
  BY <1>2, <1>3 DEF Finish

LEMMA ProcessRunner == AllInv /\ Runner => ProcessInv'
<1> SUFFICES ASSUME AllInv, Runner PROVE ProcessInv'
  OBVIOUS
<1>1. /\ ProcessInv /\ StageInv /\ EvidenceInv /\ ev \in Evidence
      /\ parent \in {"none", "live", "exited"}
  BY DEF AllInv, RunInv, TypeInv, ControlTypes
\* What completed stays so by what has ended it.
<1>2. ASSUME status' # "completed",
             /\ status' \in {"none", "queued"} \/ rpc' \in {"prepare", "spawn"} =>
                  parent' = "none"
             /\ parent' # "exited" => kids' = "none"
             /\ rpc' \in {"settle", "drain"} => parent' = "exited"
             /\ rpc' # "none" /\ ev'.winner = "exit" => parent' = "exited"
             /\ rpc' = "drain" /\ ~ev'.term => kids' = "none"
             /\ rpc' \in {"finalize", "finish", "leave", "done"}
                /\ ~ev'.term /\ ~ev'.fatal =>
                  parent' # "live" /\ (kind' = "fake" => kids' = "none")
      PROVE  ProcessInv'
  BY <1>2 DEF ProcessInv
<1> USE <1>1 DEF storeVars, runnerVars, activeVars, childVars, forwardVars,
                 Persist, Append1, Lost, StoreFault, ProcessInv, StageInv
<1>3. CASE Preparing
  <2>1. ev'.winner = "none" /\ rpc' \in {"spawn", "finalize"}
        /\ UNCHANGED <<parent, kids>> /\ status' \in {"queued", "preparing"}
    BY <1>3 DEF Preparing, EvidenceInv, Evidence
  <2>2. QED
    BY <2>1, <1>2, <1>3 DEF Preparing
<1>4. CASE CancelBeforeSpawn \/ Spawn \/ SpawnFails
  BY <1>4, <1>2 DEF CancelBeforeSpawn, Spawn, SpawnFails, Evidence
<1>5. CASE Running
  <2>1. ev'.winner = "none" /\ rpc' \in {"loop", "abort"}
        /\ UNCHANGED <<parent, kids>> /\ status' \in {"preparing", "running"}
    BY <1>5 DEF Running, EvidenceInv, Evidence
  <2>2. QED
    BY <2>1, <1>2, <1>5 DEF Running
<1>6. CASE Line \/ CodexLine
  <2>a. \/ ev' = SeesFailure(Head(output))
        \/ ev' = [SeesFailure(Head(output)) EXCEPT !.store = TRUE]
    BY <1>6 DEF Line, CodexLine
  <2>1. ev'.winner = "exit" => ev.winner = "exit"
    BY <2>a, SeenFields
  <2>2. ev'.term = ev.term
    BY <2>a, SeenFields
  <2>3. rpc' \in {rpc, "stop", "wait"} /\ rpc \in {"loop", "drain"}
        /\ status' = "running"
    BY <1>6 DEF Line, CodexLine, Recorded, Unrecorded
  <2>4. UNCHANGED <<kind, parent, kids>>
    BY <1>6 DEF Line, CodexLine
  <2>5. QED
    BY <2>1, <2>2, <2>3, <2>4, <1>2
<1>7. CASE CancelSeen
  BY <1>7, <1>2 DEF CancelSeen, CancelWins, Evidence
<1>8. CASE Kill
  BY <1>8, <1>2 DEF Kill, AfterKill, Reaped, GroupStillAlive, Evidence
<1>9. CASE Stop \/ Abort
  BY <1>9, <1>2 DEF Stop, Abort, AfterKill, Reaped, GroupStillAlive, Evidence
<1>10. CASE ObserveExit \/ CannotWait
  BY <1>10, <1>2 DEF ObserveExit, CannotWait, Evidence
<1>11. CASE Settle
  BY <1>11, <1>2 DEF Settle, Evidence
<1>12. CASE DrainCommand \/ DrainEnds \/ OutputClosed
  BY <1>12, <1>2 DEF DrainCommand, DrainEnds, OutputClosed
<1>13. CASE WaitForExit
  BY <1>13, <1>2 DEF WaitForExit, Reaped, GroupStillAlive, Evidence
<1>14. CASE Finalize
  BY <1>14, <1>2 DEF Finalize, Open
<1>15. CASE FinishUnstored \/ Leave
  <2>1. Types(events') = Types(events)
    BY <1>15 DEF FinishUnstored, Leave
  <2>2. QED
    BY <1>15, <2>1 DEF FinishUnstored, Leave
<1>16. QED
  BY <1>3, <1>4, <1>5, <1>6, <1>7, <1>8, <1>9, <1>10, <1>11, <1>12, <1>13,
     <1>14, <1>15, ProcessFinish DEF Runner

-------------------------------------------------------------------------------
\* What the window is shown.

\* The numbers of the history.
LEMMA Numbers ==
  ASSUME AllInv
  PROVE  /\ events \in Seq(Event) /\ Len(events) \in Nat
         /\ \A i \in 1..Len(events) : events[i].n \in Nat /\ events[i].n > 0
         /\ \A i, j \in 1..Len(events) : i < j => events[i].n < events[j].n
         /\ shown \in Seq(Event) /\ live \in Seq(Event)
         /\ Len(shown) \in Nat /\ Len(live) \in Nat /\ Len(shown) <= Len(events)
         /\ LastShown = IF Len(shown) = 0 THEN 0 ELSE events[Len(shown)].n
<1>1. /\ events \in Seq(Event) /\ shown \in Seq(Event) /\ live \in Seq(Event)
      /\ HistoryInv /\ ShownInv
  BY DEF AllInv, RunInv, TypeInv, SequenceTypes
<1>2. Len(events) \in Nat /\ Len(shown) \in Nat /\ Len(live) \in Nat
  BY <1>1, LenProperties
<1>3. \A i \in 1..Len(events) : events[i] \in Event
  BY <1>1
<1>4. \A i \in 1..Len(events) : events[i].n \in Nat /\ events[i].n > 0
  BY <1>1, <1>3 DEF Event, HistoryInv
<1>5. ASSUME NEW i \in 1..Len(events), NEW j \in 1..Len(events), i < j
      PROVE  events[i].n < events[j].n
  <2>1. j \in (i + 1)..Len(events)
    BY <1>2, <1>5
  <2>2. QED
    BY <1>1, <2>1 DEF HistoryInv
<1>6. Len(shown) <= Len(events)
  BY <1>1 DEF ShownInv
<1>7. LastShown = IF Len(shown) = 0 THEN 0 ELSE events[Len(shown)].n
  <2>1. shown = <<>> <=> Len(shown) = 0
    BY <1>1
  <2>2. Len(shown) # 0 => shown[Len(shown)] = events[Len(shown)]
    BY <1>1, <1>2 DEF ShownInv
  <2>3. QED
    BY <2>1, <2>2 DEF LastShown
<1>8. QED
  BY <1>1, <1>2, <1>4, <1>5, <1>6, <1>7

\* A replay shows exactly what was missing.
LEMMA ReplayShowsAll ==
  ASSUME AllInv, ShowStored
  PROVE  Len(shown') = Len(events)
         /\ \A i \in 1..Len(events) : shown'[i] = events[i]
<1>1. PICK k \in 0..Len(events) :
        /\ \A i \in 1..k : events[i].n <= LastShown
        /\ \A i \in (k + 1)..Len(events) : events[i].n > LastShown
        /\ shown' = shown \o SubSeq(events, k + 1, Len(events))
  BY DEF ShowStored
<1> DEFINE m == Len(shown)
<1>2. m \in 0..Len(events) /\ k \in 0..Len(events) /\ Len(events) \in Nat
  BY Numbers
<1>3. ~(k < m)
  <2> SUFFICES ASSUME k < m PROVE FALSE
    OBVIOUS
  <2>1. k + 1 \in 1..Len(events) /\ m \in 1..Len(events) /\ k + 1 <= m
        /\ k + 1 \in (k + 1)..Len(events)
    BY <1>2
  <2>2. events[k + 1].n > LastShown /\ LastShown = events[m].n
    BY <1>1, <2>1, Numbers
  <2>3. events[k + 1].n <= events[m].n
    BY <2>1, Numbers
  <2>4. QED
    BY <2>1, <2>2, <2>3, Numbers
<1>4. ~(m < k)
  <2> SUFFICES ASSUME m < k PROVE FALSE
    OBVIOUS
  <2>1. k \in 1..Len(events) /\ k \in 1..k
    BY <1>2
  <2>2. events[k].n <= LastShown
    BY <1>1, <2>1
  <2>3. CASE m = 0
    BY <2>1, <2>2, <2>3, Numbers
  <2>4. CASE m # 0
    <3>1. m \in 1..Len(events)
      BY <1>2, <2>4
    <3>2. events[m].n < events[k].n /\ LastShown = events[m].n
      BY <2>1, <3>1, Numbers
    <3>3. QED
      BY <2>1, <2>2, <3>1, <3>2, Numbers
  <2>5. QED
    BY <2>3, <2>4
<1>5. k = m
  BY <1>2, <1>3, <1>4
<1> DEFINE rest == SubSeq(events, m + 1, Len(events))
<1>6. /\ rest \in Seq(Event) /\ Len(rest) = Len(events) - m
      /\ \A i \in 1..(Len(events) - m) : rest[i] = events[m + i]
  <2>1. events \in Seq(Event) /\ m + 1 \in 1..(Len(events) + 1)
        /\ Len(events) \in m..Len(events)
    BY <1>2, Numbers
  <2>2. QED
    BY <1>2, <2>1, SubSeqProperties, Numbers
<1>7. /\ Len(shown') = Len(shown) + Len(rest)
      /\ \A i \in 1..(Len(shown) + Len(rest)) :
           shown'[i] = IF i <= Len(shown) THEN shown[i]
                                          ELSE rest[i - Len(shown)]
  BY <1>1, <1>5, <1>6, ConcatProperties, Numbers
<1>8. \A i \in 1..Len(shown) : shown[i] = events[i]
  BY DEF AllInv, RunInv, ShownInv
<1>9. ASSUME NEW i \in 1..Len(events)
      PROVE  shown'[i] = events[i]
  <2>1. CASE i <= m
    BY <1>2, <1>6, <1>7, <1>8, <2>1
  <2>2. CASE i > m
    <3>1. i - m \in 1..(Len(events) - m) /\ m + (i - m) = i
      BY <1>2, <2>2
    <3>2. QED
      BY <1>2, <1>6, <1>7, <2>2, <3>1
  <2>3. QED
    BY <1>2, <2>1, <2>2
<1>10. QED
  BY <1>2, <1>6, <1>7, <1>9

\* After a publication the receiver buffers the end of the history, as before.
LEMMA PublishedIsEnd ==
  ASSUME AllInv, NEW t \in EventTypes, Record(t)
  PROVE  ShownInv'
<1>1. ShownInv /\ SequenceTypes /\ seq \in Nat
  BY DEF AllInv, RunInv, TypeInv, ControlTypes
<1> DEFINE e == [n |-> seq + 1, type |-> t]
<1>2. /\ UNCHANGED <<fw, shown>> /\ Len(events') = Len(events) + 1
      /\ \A i \in 1..Len(events) : events'[i] = events[i]
      /\ events'[Len(events) + 1] = e
  BY <1>1, RecordAppends
<1>3. /\ Len(shown') <= Len(events')
      /\ \A i \in 1..Len(shown') : shown'[i] = events'[i]
  BY <1>1, <1>2, Numbers DEF ShownInv
<1>4. CASE fw \notin {"replay", "live"}
  <2>1. live' = live
    BY <1>4 DEF Record, Publish
  <2>2. QED
    BY <1>1, <1>2, <1>3, <1>4, <2>1 DEF ShownInv
<1>5. CASE fw \in {"replay", "live"}
  <2>1. e \in Event
    BY <1>1 DEF Event
  <2>2. /\ live' = Append(IF Len(live) < Capacity THEN live ELSE Tail(live), e)
        /\ lagged' = (lagged \/ Len(live) >= Capacity)
    BY <1>5 DEF Record, Publish
  <2>3. /\ Len(live) <= Len(events)
        /\ \A i \in 1..Len(live) :
             live[i] = events[Len(events) - Len(live) + i]
        /\ fw = "live" /\ ~lagged => Len(live) + Len(shown) >= Len(events)
    BY <1>1, <1>5 DEF ShownInv
  <2>4. CASE Len(live) < Capacity
    <3>1. /\ Len(live') = Len(live) + 1 /\ live'[Len(live) + 1] = e
          /\ \A i \in 1..Len(live) : live'[i] = live[i]
      BY <2>1, <2>2, <2>4, AppendProperties, Numbers
    <3>2. Len(live') <= Len(events')
      BY <1>2, <2>3, <3>1, Numbers
    <3>3. ASSUME NEW i \in 1..Len(live')
          PROVE  live'[i] = events'[Len(events') - Len(live') + i]
      <4>1. Len(events') - Len(live') + i = Len(events) - Len(live) + i
        BY <1>2, <3>1, Numbers
      <4>2. CASE i = Len(live) + 1
        BY <1>2, <3>1, <4>1, <4>2, Numbers
      <4>3. CASE i \in 1..Len(live)
        <5>1. Len(events) - Len(live) + i \in 1..Len(events)
          BY <2>3, <4>3, Numbers
        <5>2. QED
          BY <1>2, <2>3, <3>1, <4>1, <4>3, <5>1
      <4>4. QED
        BY <3>1, <4>2, <4>3, Numbers
    <3>4. fw' = "live" /\ ~lagged' => Len(live') + Len(shown') >= Len(events')
      <4>1. ~lagged' => ~lagged
        BY <2>2
      <4>2. fw' = "live" /\ ~lagged => Len(live) + Len(shown) >= Len(events)
        BY <1>2, <2>3
      <4>3. /\ Len(live') + Len(shown') = Len(live) + Len(shown) + 1
            /\ Len(live) + Len(shown) \in Nat /\ Len(events) \in Nat
        BY <1>2, <3>1, Numbers
      <4>4. QED
        BY <1>2, <4>1, <4>2, <4>3
    <3>5. QED
      BY <1>2, <1>3, <1>5, <3>2, <3>3, <3>4 DEF ShownInv
  <2>5. CASE Len(live) >= Capacity
    <3>1. Capacity \in Nat /\ Capacity > 0
      BY BoundAssumption
    <3>2. live # <<>> /\ Len(live) > 0
      BY <2>5, <3>1, Numbers
    <3>3. /\ Tail(live) \in Seq(Event) /\ Len(Tail(live)) = Len(live) - 1
          /\ \A i \in 1..(Len(live) - 1) : Tail(live)[i] = live[i + 1]
      BY <3>2, HeadTailProperties, Numbers
    <3>4. live' = Append(Tail(live), e) /\ lagged'
      <4>1. ~(Len(live) < Capacity)
        BY <2>5, <3>1, Numbers
      <4>2. lagged'
        BY <2>2, <2>5
      <4>3. QED
        BY <2>2, <4>1, <4>2
    <3>5. /\ Len(live') = Len(live) /\ live'[Len(live)] = e
          /\ \A i \in 1..(Len(live) - 1) : live'[i] = live[i + 1]
      <4>1. /\ Len(live') = Len(Tail(live)) + 1
            /\ live'[Len(Tail(live)) + 1] = e
            /\ \A i \in 1..Len(Tail(live)) : live'[i] = Tail(live)[i]
        BY <2>1, <3>3, <3>4, AppendProperties
      <4>2. Len(Tail(live)) + 1 = Len(live)
        BY <3>3, Numbers
      <4>3. QED
        BY <3>3, <4>1, <4>2
    <3>6. ASSUME NEW i \in 1..Len(live')
          PROVE  live'[i] = events'[Len(events') - Len(live') + i]
      <4>1. Len(events') - Len(live') + i = Len(events) - Len(live) + (i + 1)
        BY <1>2, <3>5, Numbers
      <4>2. CASE i = Len(live)
        BY <1>2, <3>5, <4>1, <4>2, Numbers
      <4>3. CASE i \in 1..(Len(live) - 1)
        <5>1. i + 1 \in 1..Len(live)
              /\ Len(events) - Len(live) + (i + 1) \in 1..Len(events)
          BY <2>3, <4>3, Numbers
        <5>2. QED
          BY <1>2, <2>3, <3>5, <4>1, <4>3, <5>1
      <4>4. QED
        BY <3>5, <4>2, <4>3, Numbers
    <3>7. Len(live') <= Len(events')
      BY <1>2, <2>3, <3>5, Numbers
    <3>8. QED
      BY <1>2, <1>3, <1>5, <3>4, <3>6, <3>7 DEF ShownInv
  <2>6. QED
    BY <2>4, <2>5, BoundAssumption, Numbers
<1>6. QED
  BY <1>4, <1>5

LEMMA ShownForwarder ==
  ASSUME AllInv, Forwarder
  PROVE  ShownInv'
<1>1. ShownInv /\ UNCHANGED events
  BY OthersLeave DEF AllInv, RunInv
<1>2. CASE SubscribeRun
  BY <1>1, <1>2, Numbers DEF SubscribeRun, ShownInv
<1>3. CASE ReplayFails
  BY <1>1, <1>3 DEF ReplayFails, ShownInv
<1>4. CASE Replay \/ ReplayLagged \/ ForwardClosed
  <2>1. /\ ShowStored /\ live' = live /\ fw' # "none"
        /\ fw \in {"replay", "live"} \/ fw' \notin {"replay", "live"}
    BY <1>4 DEF Replay, ReplayLagged, ForwardClosed
  <2>2. /\ Len(shown') = Len(events)
        /\ \A i \in 1..Len(events) : shown'[i] = events[i]
    BY <2>1, ReplayShowsAll
  <2>3. QED
    BY <1>1, <2>1, <2>2, Numbers DEF ShownInv
<1>5. CASE ForwardLive
  <2>1. /\ fw = "live" /\ ~lagged /\ live # <<>> /\ live' = Tail(live)
        /\ shown' = IF Head(live).n > LastShown
                    THEN Append(shown, Head(live)) ELSE shown
        /\ fw' \in {"live", "done"} /\ lagged' = lagged
    BY <1>5 DEF ForwardLive
  <2>2. /\ Len(live) <= Len(events) /\ Len(live) + Len(shown) >= Len(events)
        /\ \A i \in 1..Len(live) :
             live[i] = events[Len(events) - Len(live) + i]
        /\ \A i \in 1..Len(shown) : shown[i] = events[i]
    BY <1>1, <2>1 DEF ShownInv
  <2>3. /\ Len(live) > 0 /\ Head(live) = live[1] /\ Head(live) \in Event
        /\ Len(live') = Len(live) - 1
        /\ \A i \in 1..(Len(live) - 1) : live'[i] = live[i + 1]
    BY <2>1, HeadTailProperties, Numbers
  <2> DEFINE m == Len(events) - Len(live) + 1
  <2>4. m \in 1..Len(events) /\ m <= Len(shown) + 1 /\ Head(live) = events[m]
    BY <2>2, <2>3, Numbers
  <2>5. \A i \in 1..Len(live') : live'[i] = events[Len(events) - Len(live') + i]
    <3>1. ASSUME NEW i \in 1..(Len(live) - 1)
          PROVE  live'[i] = events[Len(events) - (Len(live) - 1) + i]
      <4>1. i + 1 \in 1..Len(live)
            /\ Len(events) - Len(live) + (i + 1)
                 = Len(events) - (Len(live) - 1) + i
        BY Numbers
      <4>2. QED
        BY <2>2, <2>3, <4>1
    <3>2. QED
      BY <2>3, <3>1
  <2>6. CASE Head(live).n > LastShown
    <3>1. m = Len(shown) + 1
      <4>1. ~(m <= Len(shown))
        <5> SUFFICES ASSUME m <= Len(shown) PROVE FALSE
          OBVIOUS
        <5>1. m \in 1..Len(events) /\ Len(shown) \in 1..Len(events)
              /\ LastShown = events[Len(shown)].n
          BY <2>4, Numbers
        <5>2. events[m].n <= events[Len(shown)].n
          BY <5>1, Numbers
        <5>3. QED
          BY <2>4, <2>6, <5>1, <5>2, Numbers
      <4>2. m \in Nat /\ Len(shown) \in Nat /\ m <= Len(shown) + 1
        BY <2>4, Numbers
      <4>3. QED
        BY <4>1, <4>2
    <3>2. /\ Len(shown') = Len(shown) + 1 /\ shown'[Len(shown) + 1] = events[m]
          /\ \A i \in 1..Len(shown) : shown'[i] = shown[i]
      BY <2>1, <2>3, <2>4, <2>6, AppendProperties, Numbers
    <3>3. \A i \in 1..Len(shown') : shown'[i] = events[i]
      BY <2>2, <3>1, <3>2, Numbers
    <3>4. Len(shown') <= Len(events)
          /\ Len(live') + Len(shown') >= Len(events) /\ Len(live') <= Len(events)
      BY <2>2, <2>3, <2>4, <3>1, <3>2, Numbers
    <3>5. QED
      BY <1>1, <2>1, <2>5, <3>3, <3>4 DEF ShownInv
  <2>7. CASE ~(Head(live).n > LastShown)
    <3>1. m <= Len(shown)
      <4> SUFFICES ASSUME m > Len(shown) PROVE FALSE
        BY <2>4, Numbers
      <4>1. CASE Len(shown) = 0
        BY <2>4, <2>7, <4>1, Numbers
      <4>2. CASE Len(shown) # 0
        <5>1. Len(shown) \in 1..Len(events) /\ LastShown = events[Len(shown)].n
          BY <4>2, Numbers
        <5>2. events[Len(shown)].n < events[m].n
          BY <2>4, <5>1, Numbers
        <5>3. QED
          BY <2>4, <2>7, <5>1, <5>2, Numbers
      <4>3. QED
        BY <4>1, <4>2
    <3>2. shown' = shown
      BY <2>1, <2>7
    <3>3. Len(live') + Len(shown') >= Len(events) /\ Len(live') <= Len(events)
          /\ Len(shown') <= Len(events)
      BY <2>2, <2>3, <3>1, <3>2, Numbers
    <3>4. QED
      BY <1>1, <2>1, <2>2, <2>5, <3>2, <3>3 DEF ShownInv
  <2>8. QED
    BY <2>6, <2>7
<1>6. QED
  BY <1>2, <1>3, <1>4, <1>5 DEF Forwarder

LEMMA ShownKept == AllInv /\ [Next]_vars => ShownInv'
<1> SUFFICES ASSUME AllInv, [Next]_vars PROVE ShownInv'
  OBVIOUS
<1>1. ShownInv
  BY DEF AllInv, RunInv
<1>2. CASE UNCHANGED <<events, fw, live, lagged, shown>>
  BY <1>1, <1>2 DEF ShownInv
<1>3. CASE Runner
  <2>1. CASE Silent
    BY <1>2, <2>1 DEF Silent
  <2>2. ASSUME NEW t \in EventTypes, Record(t) PROVE ShownInv'
    BY <2>2, PublishedIsEnd
  <2>3. QED
    BY <1>3, <2>1, <2>2, RunnerStore
    DEF StoreStep, Appended, Moved, EventTypes
<1>4. CASE Forwarder
  BY <1>4, ShownForwarder
<1>5. CASE Child \/ SubmitRun \/ CancelRun \/ Approvals \/ UNCHANGED vars
  BY <1>2, <1>5
  DEF Child, AgentExits, KidsExit, AgentWrites, SubmitRun, CancelRun, Approvals,
      AskBegins, AskWritten, DecideReads, DecideWrites, vars, runVars,
      storeVars, forwardVars
<1>6. CASE Commands
  BY <1>2, <1>6, CommandMoves DEF forwardVars
<1>7. CASE Crash
  <2>1. events' = events /\ live' = <<>> /\ shown' = <<>> /\ fw' = "none"
    BY <1>7 DEF Crash, Vanish, storeVars
  <2>2. QED
    BY <2>1, Numbers DEF ShownInv
<1>8. CASE ReconcileContexts \/ ReconcileApprovals
  BY <1>2, <1>8 DEF ReconcileContexts, ReconcileApprovals, Reboots, storeVars,
                    forwardVars
<1>9. QED
  BY <1>3, <1>4, <1>5, <1>6, <1>7, <1>8 DEF Next, RunStep, Restart

-------------------------------------------------------------------------------
\* The theorems.

LEMMA AllInit == Init => AllInv
<1> SUFFICES ASSUME Init PROVE AllInv
  OBVIOUS
<1>1. TypeInv /\ ContextInv
  BY TypeInit, ContextInit
<1>2. RunInv
  <2>1. Types(events) = {} /\ events = <<>>
    BY DEF Init, RunInit, Types
  <2>2. StageInv /\ EvidenceInv /\ OutcomeInv /\ ProcessInv
    BY DEF Init, RunInit, StageInv, EvidenceInv, OutcomeInv, ProcessInv
  <2>3. HistoryInv /\ ShownInv
    BY DEF Init, RunInit, HistoryInv, ShownInv, Terminal
  <2>4. CancelledInv
    BY <2>1 DEF Init, RunInit, CancelledInv
  <2>5. QED
    BY <2>2, <2>3, <2>4 DEF RunInv
<1>3. QED
  BY <1>1, <1>2 DEF AllInv

LEMMA AllStep == AllInv /\ [Next]_vars => AllInv'
<1> SUFFICES ASSUME AllInv, [Next]_vars PROVE AllInv'
  OBVIOUS
<1>1. TypeInv' /\ ContextInv'
  BY TypeStep, ContextStep DEF AllInv
<1>2. StageInv'
  <2>1. CASE UNCHANGED vars
    BY <2>1 DEF AllInv, RunInv, StageInv, vars, runVars, storeVars, runnerVars,
                contextVars
  <2>2. QED
    BY <2>1, StageRunner, StageCommands, StageOthers DEF Next
<1>3. EvidenceInv' /\ CancelledInv' /\ ProcessInv'
  BY EvidenceRunner, EvidenceOthers, CancelledRunner, CancelledOthers,
     ProcessRunner, ProcessOthers
<1>4. QED
  BY <1>1, <1>2, <1>3, HistoryKept, OutcomeKept, ShownKept DEF AllInv, RunInv

\* What holds of the run, its context and its approvals in every state.
LEMMA AllInvariance == Spec => []AllInv
BY AllInit, AllStep, PTL DEF Spec

\* A run ends once, by the first of failure, cancellation and exit that was
\* recorded, and none is left open but by a store that refused: the runner's
\* evidence, what resolve_terminal_outcome makes of it and the table of statuses
\* agree whatever the order in which they come.
THEOREM OneEndingHolds == Spec => []OneEnding
<1>1. AllInv => OneEnding
  <2> SUFFICES ASSUME AllInv PROVE OneEnding
    OBVIOUS
  <2>1. /\ StageInv /\ HistoryInv /\ CancelledInv /\ OutcomeInv
        /\ DOMAIN events = 1..Len(events) /\ Len(events) \in Nat
        /\ rpc \in {"none", "prepare", "spawn", "start", "loop", "kill", "stop",
                   "abort", "settle", "drain", "wait", "finalize", "finish",
                   "leave", "done"}
    BY Numbers DEF AllInv, RunInv, TypeInv, ControlTypes
  <2>2. RowIsHistory
    BY <2>1 DEF HistoryInv, RowIsHistory, Ended
  <2>3. OnlyFaultsStrand
    <3>1. Resolve(ev) \in Terminal
      BY RowSteps
    <3>2. QED
      BY <2>1, <3>1 DEF OutcomeInv, OnlyFaultsStrand
  <2>4. FirstEvidenceDecides
    <3> SUFFICES ASSUME rpc # "none", status \in Terminal,
                        "cancelling" \in Types(events),
                        ~(ev.store \/ ev.term \/ ev.fatal)
                 PROVE  status = "cancelled"
                        <=> \A i \in {k \in DOMAIN events :
                                        events[k].type = "agent_failed"},
                               j \in {k \in DOMAIN events :
                                        events[k].type = "cancelling"} : j < i
      BY DEF FirstEvidenceDecides
    <3>1. status = Resolve(ev) /\ ~ev.linger
      BY <2>1 DEF StageInv, OutcomeInv, CancelledInv, Open, Terminal
    <3>2. CASE "agent_failed" \in Types(events)
      <4>1. ev.winner = "failure"
        BY <2>1, <3>2 DEF CancelledInv
      <4>2. status = "failed"
        BY <3>1, <4>1 DEF Resolve
      <4>3. PICK i \in DOMAIN events : events[i].type = "agent_failed"
        BY <3>2 DEF Types
      <4>4. PICK j \in DOMAIN events : events[j].type = "cancelling"
        BY DEF Types
      <4>5. i < j /\ i \in Nat /\ j \in Nat
        BY <2>1, <4>3, <4>4 DEF CancelledInv
      <4>6. QED
        BY <4>2, <4>3, <4>4, <4>5
    <3>3. CASE "agent_failed" \notin Types(events)
      <4>1. ev.winner = "cancel"
        BY <2>1, <3>3 DEF CancelledInv
      <4>2. status = "cancelled"
        BY <3>1, <4>1 DEF Resolve
      <4>3. \A i \in DOMAIN events : events[i].type # "agent_failed"
        BY <3>3 DEF Types
      <4>4. QED
        BY <4>2, <4>3
    <3>4. QED
      BY <3>2, <3>3
  <2>5. QED
    BY <2>2, <2>3, <2>4 DEF OneEnding
<1>2. QED
  BY <1>1, AllInvariance, PTL

\* A run that is over and reported no failure to clean up has no process left,
\* and a completed one had no failure, no garbage and no recorded cancellation.
THEOREM NothingLeftHolds == Spec => []NothingLeftRunning
<1>1. AllInv => NothingLeftRunning
  BY DEF AllInv, RunInv, ProcessInv, NothingLeftRunning
<1>2. QED
  BY <1>1, AllInvariance, PTL

\* The window has seen the beginning of the run's history, without a gap and
\* without a repetition, whatever the channel has lost and however often the
\* stored rows were replayed.
THEOREM ShownHolds == Spec => []ShownIsHistory
<1>1. AllInv => ShownIsHistory
  <2> SUFFICES ASSUME AllInv PROVE IsPrefix(shown, events)
    BY DEF ShownIsHistory
  <2>1. \A i \in 1..Len(shown) : shown[i] = events[i]
    BY DEF AllInv, RunInv, ShownInv
  <2>2. QED
    BY <2>1, Numbers DEF IsPrefix
<1>2. QED
  BY <1>1, AllInvariance, PTL

\* A context that succeeded has a run that completed, nobody having asked to
\* cancel it; and one that is over has no run that goes on untold.
THEOREM ContextEndsWithRun == Spec => []EndedContextEndsRun
<1>1. ContextInv => EndedContextEndsRun
  BY DEF ContextInv
<1>2. QED
  BY <1>1, ContextInvariance, PTL

\* What a step may do to a context that is over: nothing.
LEMMA OverStays ==
  ASSUME ContextInv, [Next]_vars, ctx.lc \in Over
  PROVE  ctx' = ctx
<1>1. RowTypes /\ HeldInv
  BY DEF ContextInv
<1>2. ctx.lc # "none" /\ ctx.lc \notin Active
  BY RowFollows
<1>3. \A row \in Row : \A next : ~Update(row, next)
  BY <1>1, <1>2, UpdateMoves
<1>4. Held("created") \in Row /\ Held("starting") \in Row
      /\ watched \in Row /\ cancelled \in Row
  BY <1>1, HeldRows DEF RowTypes
<1>5. CASE RunStep \/ Approvals \/ Crash \/ ReconcileApprovals \/ UNCHANGED vars
  BY <1>5
  DEF RunStep, aside, Approvals, AskBegins, AskWritten, DecideReads, DecideWrites,
      Crash, ReconcileApprovals, vars, contextVars
<1>6. CASE ReconcileContexts
  BY <1>2, <1>6 DEF ReconcileContexts
<1>7. CASE Commands
  <2>1. CASE CreateContext \/ MarkStarting \/ SubmitExisting \/ MarkRunning
    BY <1>2, <1>3, <1>4, <2>1
    DEF CreateContext, MarkStarting, SubmitExisting, MarkRunning
  <2>2. CASE GiveUp \/ ClaudeUnavailable \/ WatchReturns \/ WatchWrites
    BY <1>3, <1>4, <2>2 DEF GiveUp, ClaudeUnavailable, WatchReturns, WatchWrites
  <2>3. CASE CancelReads \/ CancelSignals
    BY <2>3 DEF CancelReads, CancelSignals
  <2>4. CASE CancelWrites
    BY <1>1, <1>2, <1>3, <1>4, <2>4 DEF CancelWrites, HeldInv
  <2>5. QED
    BY <1>7, <2>1, <2>2, <2>3, <2>4 DEF Commands
<1>8. QED
  BY <1>5, <1>6, <1>7 DEF Next, Restart

\* A context that is over stays as it is, whoever still holds an older row of it,
\* and an approval is decided once.
THEOREM SettledForGood == Spec => SettledStays
<1>1. ContextInv => DecidedOnce
  BY DEF ContextInv, AskInv
<1>2. ContextInv /\ [Next]_vars => [ctx.lc \in Over => ctx' = ctx]_vars
  BY OverStays
<1>3. QED
  BY <1>1, <1>2, ContextInvariance, PTL DEF Spec, SettledStays

===============================================================================
