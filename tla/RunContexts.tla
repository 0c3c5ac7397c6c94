------------------------------ MODULE RunContexts -----------------------------
(***************************************************************************)
(* Provider runs of the desktop application: the durable context beside a  *)
(* run (codex_run_contexts, claude_run_contexts), the commands that start, *)
(* watch and cancel it (src-tauri/src/main.rs), the approvals that belong  *)
(* to it, and what a restart does to all of them.                          *)
(*                                                                         *)
(* Each command reads the context, awaits, and updates the row it read if  *)
(* it is still at that lifecycle and version.  The run itself is that of   *)
(* RunLifecycle.                                                           *)
(***************************************************************************)
EXTENDS RunLifecycle

CONSTANTS
  Asking,      \* bound: the kinds of run that ask for approvals
  Deciders,    \* windows that may decide an approval
  MaxCancels,  \* bound: cancellations of a context
  Boots        \* bound: restarts

ASSUME LimitsAssumption == {MaxCancels, Boots} \subseteq Nat

VARIABLES
  ctx,       \* the context's row: lifecycle, cancellation_requested, version
  start,     \* start_codex_run: "none", "created", "starting", "submitted",
             \*   "giveup", "done"
  watch,     \* its watcher: "none", "waiting", "read", "done",
  watched,   \*   and the row it read
  cancel,    \* cancel_codex_run: "none", "write", "signal",
  cancelled, \*   and the row it read
  cancels,   \* cancellations so far
  asking,    \* is an approval being created?
  ask,       \* its row: "none" or an ApprovalState
  audits,    \* rows of approval_decision_audit, as what they say
  deciding,  \* windows that have read the approval
  boots      \* restarts so far

contextVars  == <<ctx, start, watch, watched, cancel, cancelled, cancels>>
approvalVars == <<asking, ask, audits, deciding>>
vars == <<runVars, contextVars, approvalVars, boots>>

-------------------------------------------------------------------------------
\* The context's row.

Over   == {"cancelled", "succeeded", "failed"}
Active == {"created", "starting", "running", "cancelling"}

\* CodexRunLifecycle::transition
Follows ==
  [s \in {"none"} \union Active \union Over |->
     CASE s = "created"    -> {"starting", "cancelled"}
       [] s = "starting"   -> {"running", "cancelling", "cancelled", "failed"}
       [] s = "running"    -> {"cancelling", "succeeded", "failed"}
       [] s = "cancelling" -> {"cancelled", "failed"}
       [] OTHER            -> {}]

NoContext == [lc |-> "none", req |-> FALSE, ver |-> 0]

\* Mutant: the row is written over what was read.
UpdateAnyVersion(row, next) ==
  /\ next \in Follows[row.lc]
  /\ ctx' = [ctx EXCEPT !.lc = next, !.ver = @ + 1]

\* transition_codex_run_context and transition_claude_run_context
Update(row, next) ==
  /\ next \in Follows[row.lc]
  /\ ~(row.req /\ next = "succeeded")
  /\ ctx.lc = row.lc /\ ctx.ver = row.ver
  /\ ctx' = [ctx EXCEPT !.lc = next, !.ver = @ + 1]

Refused(row, next) ==
  \/ next \notin Follows[row.lc] \/ (row.req /\ next = "succeeded")
  \/ ctx.lc # row.lc \/ ctx.ver # row.ver

\* The row a start command holds.
Held(lc) == [lc |-> lc, req |-> FALSE, ver |-> IF lc = "created" THEN 0 ELSE 1]

-------------------------------------------------------------------------------
Init ==
  /\ RunInit
  /\ ctx = NoContext /\ start = "none"
  /\ watch = "none" /\ watched = NoContext
  /\ cancel = "none" /\ cancelled = NoContext /\ cancels = 0
  /\ asking = FALSE /\ ask = "none" /\ audits = <<>> /\ deciding = {}
  /\ boots = 0

\* create_codex_run_context, create_claude_run_context: the run's row and the
\* context's, or neither.
CreateContext ==
  /\ host = "up" /\ kind \in {"codex", "claude"} /\ ctx.lc = "none"
  /\ ctx' = [lc |-> "created", req |-> FALSE, ver |-> 0]
  /\ status' = "queued"
  /\ start' = "created" 
  /\ UNCHANGED <<kind, events, faults, runnerVars, activeVars, childVars, forwardVars,
                 host, watch, watched, cancel, cancelled, cancels, approvalVars, boots>>

\* A refused write of the store in a command.
CommandFault ==
  /\ faults < MaxFaults /\ faults' = faults + 1
  /\ UNCHANGED <<kind, status, events, runnerVars, childVars, forwardVars, host>>

\* start_codex_run up to the runner.
MarkStarting ==
  /\ host = "up" /\ kind = "codex" /\ start = "created"
  /\ \/ /\ Update(Held("created"), "starting")
        /\ start' = "starting" 
        /\ UNCHANGED runVars
     \/ /\ Refused(Held("created"), "starting")
        /\ start' = "done" /\ UNCHANGED <<runVars, ctx>>
     \/ CommandFault /\ start' = "done" /\ UNCHANGED <<activeVars, ctx>>
  /\ UNCHANGED <<watch, watched, cancel, cancelled, cancels, approvalVars, boots>>

\* submit_existing_codex_run
SubmitExisting ==
  /\ host = "up" /\ start = "starting"
  /\ \/ /\ status = "queued" /\ entry = "none"
        /\ Register
        /\ start' = "submitted"
        /\ UNCHANGED <<kind, storeVars, childVars, forwardVars, host, ctx>>
     \/ /\ CommandFault /\ UNCHANGED activeVars
        /\ start' = "done"
        /\ Update(Held("starting"), "failed")
           \/ (Refused(Held("starting"), "failed") /\ UNCHANGED ctx)
  /\ UNCHANGED <<watch, watched, cancel, cancelled, cancels, approvalVars, boots>>

\* The runner is told to stop if it can still be told.
SignalRunner ==
  IF entry = "active" THEN entry' = "requested" /\ command' = TRUE
                      ELSE UNCHANGED <<entry, command>>

\* The context follows, and gets its watcher; or somebody has changed it.
MarkRunning ==
  /\ host = "up" /\ start = "submitted"
  /\ \/ /\ Update(Held("starting"), "running")
        /\ start' = "done" /\ watch' = "waiting"
        /\ UNCHANGED runVars
     \/ /\ Refused(Held("starting"), "running")
        /\ SignalRunner
        /\ start' = "giveup"
        /\ UNCHANGED <<ctx, watch, kind, storeVars, runnerVars, outcome, childVars,
                       forwardVars, host>>
     \/ /\ CommandFault /\ SignalRunner /\ UNCHANGED outcome
        /\ start' = "giveup" /\ UNCHANGED <<ctx, watch>>
  /\ UNCHANGED <<watched, cancel, cancelled, cancels, approvalVars, boots>>

GiveUp ==
  /\ host = "up" /\ start = "giveup"
  /\ start' = "done"
  /\ Update(Held("starting"), "failed")
     \/ (Refused(Held("starting"), "failed") /\ UNCHANGED ctx)
  /\ UNCHANGED <<runVars, watch, watched, cancel, cancelled, cancels,
                 approvalVars, boots>>

\* start_claude_run: there is no Claude runner in this application.
ClaudeUnavailable ==
  /\ host = "up" /\ kind = "claude" /\ start = "created"
  /\ start' = "done"
  /\ \/ Update(Held("created"), "failed") /\ UNCHANGED runVars
     \/ Refused(Held("created"), "failed") /\ UNCHANGED <<runVars, ctx>>
     \/ CommandFault /\ UNCHANGED <<activeVars, ctx>>
  /\ UNCHANGED <<watch, watched, cancel, cancelled, cancels, approvalVars, boots>>

\* wait_for_run returns: the waiter was told, or finds the run gone.
WatchReturns ==
  /\ host = "up" /\ watch = "waiting"
  /\ outcome # "pending" \/ entry = "none"
  /\ \/ watch' = "read" /\ watched' = ctx
     \/ watch' = "done" /\ UNCHANGED watched /\ faults < MaxFaults
  /\ UNCHANGED <<runVars, ctx, start, cancel, cancelled, cancels, approvalVars,
                 boots>>

\* How the context ends: a request to cancel it wins.
ContextEnd ==
  IF watched.req THEN "cancelled"
  ELSE CASE status = "completed" -> "succeeded"
         [] status = "cancelled" -> "cancelled"
         [] OTHER                -> "failed"

WatchWrites ==
  /\ host = "up" /\ watch = "read"
  /\ watch' = "done" /\ watched' = NoContext
  /\ Update(watched, ContextEnd) \/ (Refused(watched, ContextEnd) /\ UNCHANGED ctx)
  /\ UNCHANGED <<runVars, start, cancel, cancelled, cancels,
                 approvalVars, boots>>

\* Mutant: what has not begun to run is cancelled at once.
CancelAtOnce(lc) == IF lc \in {"created", "starting"} THEN "cancelled" ELSE "cancelling"

CancelGoes(lc) == IF lc = "created" THEN "cancelled" ELSE "cancelling"

\* cancel_codex_run, cancel_claude_run: the row is read,
CancelReads ==
  /\ host = "up" /\ cancel = "none" /\ cancels < MaxCancels
  /\ ctx.lc \in Active
  /\ cancel' = "write" /\ cancelled' = ctx /\ cancels' = cancels + 1
  /\ UNCHANGED <<runVars, ctx, start, watch, watched, approvalVars, boots>>

\* marked, if it is still what was read,
CancelWrites ==
  /\ host = "up" /\ cancel = "write"
  /\ LET next == CancelGoes(cancelled.lc)
     IN \/ /\ kind = "codex" /\ ctx.lc = cancelled.lc /\ ctx.ver = cancelled.ver
           /\ ctx' = [lc |-> next, req |-> TRUE, ver |-> ctx.ver + 1]
           /\ cancel' = IF next = "cancelled" THEN "none" ELSE "signal"
        \/ /\ kind = "codex" /\ (ctx.lc # cancelled.lc \/ ctx.ver # cancelled.ver)
           /\ cancel' = "none" /\ UNCHANGED ctx
        \/ kind = "claude" /\ Update(cancelled, next) /\ cancel' = "none"
        \/ kind = "claude" /\ Refused(cancelled, next) /\ cancel' = "none"
           /\ UNCHANGED ctx
  /\ cancelled' = NoContext
  /\ UNCHANGED <<runVars, start, watch, watched, cancels, approvalVars, boots>>

\* and the runner is told.
CancelSignals ==
  /\ host = "up" /\ cancel = "signal"
  /\ cancel' = "none"
  /\ SignalRunner
  /\ UNCHANGED <<kind, storeVars, runnerVars, outcome, childVars, forwardVars, host, ctx,
                 start, watch, watched, cancelled, cancels, approvalVars, boots>>

-------------------------------------------------------------------------------
\* Approvals of the run.

\* create_approval_request_for_context looks at the context, then writes.
AskBegins ==
  /\ host = "up" /\ kind \in Asking /\ ask = "none" /\ ~asking
  /\ kind # "none" => ctx.lc \in Active
  /\ asking' = TRUE
  /\ UNCHANGED <<runVars, contextVars, ask, audits, deciding, boots>>

AskWritten ==
  /\ host = "up" /\ asking
  /\ asking' = FALSE
  /\ \/ ask' = "pending" /\ UNCHANGED audits
     \/ ask' = "hard_denied" /\ audits' = Append(audits, "hard_denied")
  /\ UNCHANGED <<runVars, contextVars, deciding, boots>>

\* decide_approval_request
DecideReads(d) ==
  /\ host = "up" /\ ask = "pending" /\ d \notin deciding
  /\ deciding' = deciding \union {d}
  /\ UNCHANGED <<runVars, contextVars, asking, ask, audits, boots>>

\* An approval of no run is not tied to one.
RunGoesOn ==
  kind # "none" => ctx.lc \in {"created", "starting", "running"} /\ ~ctx.req

\* resolve_approval_request: still pending, of a run that still goes on.
DecideWrites(d) ==
  /\ host = "up" /\ d \in deciding
  /\ deciding' = deciding \ {d}
  /\ \/ /\ ask = "pending"
        /\ RunGoesOn
        /\ \E s \in {"allowed_once", "allowed_for_task", "denied"} :
             ask' = s /\ audits' = Append(audits, s)
     \/ ~(ask = "pending" /\ RunGoesOn) /\ UNCHANGED <<ask, audits>>
  /\ UNCHANGED <<runVars, contextVars, asking, boots>>

-------------------------------------------------------------------------------
\* The application dies and starts again.

Crash ==
  /\ host # "down" /\ boots < Boots
  /\ Vanish
  /\ start' = "done" /\ cancel' = "none" /\ cancelled' = NoContext
  /\ watch' = "done" /\ watched' = NoContext
  /\ asking' = FALSE /\ deciding' = {}
  /\ UNCHANGED <<ctx, cancels, ask, audits, boots>>

Reboots(s) == host' = s /\ UNCHANGED <<kind, storeVars, runnerVars, activeVars, childVars,
                                       forwardVars>>

\* reconcile_codex_run_contexts_on_startup, before anything else is served.
\* Claude's contexts have such an operation, which nothing calls.
ReconcileContexts ==
  /\ host = "down"
  /\ Reboots("boot") /\ boots' = boots + 1
  /\ ctx' = IF kind = "codex" /\ ctx.lc \in Active
            THEN [ctx EXCEPT !.lc = "failed", !.ver = @ + 1] ELSE ctx
  /\ UNCHANGED <<start, watch, watched, cancel, cancelled, cancels, approvalVars>>

\* reconcile_approval_requests_on_startup: nobody waits for the answer any more.
ReconcileApprovals ==
  /\ host = "boot"
  /\ Reboots("up")
  /\ IF ask = "pending" /\ kind # "none"
     THEN ask' = "denied" /\ audits' = Append(audits, "denied")
     ELSE UNCHANGED <<ask, audits>>
  /\ UNCHANGED <<contextVars, asking, deciding, boots>>

-------------------------------------------------------------------------------
aside == <<contextVars, approvalVars, boots>>

RunStep == /\ Runner \/ Child \/ Forwarder \/ SubmitRun \/ CancelRun
           /\ UNCHANGED aside

Commands == \/ CreateContext \/ MarkStarting \/ SubmitExisting \/ MarkRunning
            \/ GiveUp \/ ClaudeUnavailable \/ WatchReturns \/ WatchWrites
            \/ CancelReads \/ CancelWrites \/ CancelSignals

Approvals == \/ AskBegins \/ AskWritten
             \/ \E d \in Deciders : DecideReads(d) \/ DecideWrites(d)

Restart == Crash \/ ReconcileContexts \/ ReconcileApprovals

Next == RunStep \/ Commands \/ Approvals \/ Restart

Spec == Init /\ [][Next]_vars

\* The tasks of a running application go on; the child and the user need not.
FairSpec ==
  /\ Spec
  /\ WF_vars(Runner /\ UNCHANGED aside) /\ WF_vars(Forwarder /\ UNCHANGED aside)
  /\ WF_vars(Commands)

-------------------------------------------------------------------------------
Row == [lc: {"none"} \union Active \union Over, req: BOOLEAN, ver: Nat]

TypeOK ==
  /\ RunTypeOK
  /\ {ctx, watched, cancelled} \subseteq Row
  /\ start \in {"none", "created", "starting", "submitted", "giveup", "done"}
  /\ watch \in {"none", "waiting", "read", "done"}
  /\ cancel \in {"none", "write", "signal"} /\ cancels \in 0..MaxCancels
  /\ asking \in BOOLEAN
  /\ ask \in {"none", "pending", "allowed_once", "allowed_for_task", "denied",
              "hard_denied"}
  /\ audits \in Seq({"allowed_once", "allowed_for_task", "denied", "hard_denied"})
  /\ deciding \subseteq Deciders /\ boots \in 0..Boots

\* A context that succeeded has a run that completed, and nobody's request to
\* cancel it was ever recorded; and while the application runs, a context that is
\* over has no run that goes on without having been told to stop.
EndedContextEndsRun ==
  /\ ctx.lc = "succeeded" => status = "completed" /\ ~ctx.req
  /\ host = "up" /\ ctx.lc \in Over =>
       outcome # "pending" \/ rpc = "none" \/ entry \in {"requested", "finalizing"}

\* The audit says what the row of the approval says, whoever raced or restarted.
DecidedOnce == audits = IF ask \in {"none", "pending"} THEN <<>> ELSE <<ask>>

\* What is settled stays so: a context that is over stays as it is, whoever held an
\* older row, and an approval is decided once.
SettledStays == []DecidedOnce /\ [][ctx.lc \in Over => ctx' = ctx]_vars

\* Violated for Claude: a restart ends every context as an interrupted failure.
RestartEndsContexts == host = "boot" => ctx.lc \notin Active

===============================================================================
