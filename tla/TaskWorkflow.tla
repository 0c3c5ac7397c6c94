----------------------------- MODULE TaskWorkflow -----------------------------
(***************************************************************************)
(* One Sentinel task from StartTask to its end: the SentinelSupervisor of  *)
(* crates/sentinel-supervisor with the parts of sentinel-review,           *)
(* sentinel-validation, sentinel-worktree and sentinel-codex it drives.    *)
(*                                                                         *)
(* The host (apps/macos/bridge) runs one supervisor call at a time, but a  *)
(* call awaits provider processes, git and the store, and the host can die *)
(* at any await.  `pc` is the point the running call has reached: "idle"   *)
(* when there is none, "down" when there is no host.  Between two steps of *)
(* a call the provider, a process that outlived its owner, and whoever     *)
(* commits to the target branch may act.                                   *)
(***************************************************************************)
EXTENDS Naturals, Sequences, FiniteSets, Lifecycles

CONSTANTS
  Kinds,             \* provider kinds the implementer may be selected from
  Modes,             \* workflow modes the user may select
  Issues,            \* blockers a reviewer may report
  Stray,             \* those of them that name a file outside the diff
  MaxRounds,         \* MAX_REPAIR_ROUNDS (3 in the code)
  MaxReviewRetries,  \* review attempts after a failed one (3 in the code)
  MaxTree,           \* bound: edits of the task's tree
  MaxVals,           \* bound: validation batches
  MaxTarget,         \* bound: commits on the target branch
  MaxLives,          \* bound: times a supervisor is built
  Committers,        \* kinds whose provider may commit in the worktree itself
  Orphans,           \* may a provider outlive the handle that owned it?
  ChecksEdit         \* may a validation command change the tree?

ASSUME KindsAssumption  == Kinds \subseteq {"codex", "claude", "omp", "api"}
\* An API provider has Sentinel's file tools and no shell.
ASSUME CommittersAssumption == Committers \subseteq Kinds \ {"api"}
ASSUME ModesAssumption  == Modes \subseteq WorkflowMode
ASSUME IssuesAssumption == Stray \subseteq Issues
ASSUME BoundsAssumption ==
  /\ MaxRounds \in Nat \ {0}
  /\ {MaxReviewRetries, MaxTree, MaxVals, MaxTarget, MaxLives} \subseteq Nat
ASSUME SwitchAssumption == {Orphans, ChecksEdit} \subseteq BOOLEAN

VARIABLES
  lc,         \* tasks.lifecycle; recovery_condition is set iff "Recovering"
  mode, kind, \* workflow mode and implementer's provider, pinned at start
  wt,         \* has the task its own worktree record?
  impl,       \* lifecycle of the implementer's session, or "none"
  aux,        \* lifecycles of the task's other sessions
  apiRef,     \* is the reference of an API repair session taken?
  turnDone,   \* has any TurnCompleted event been recorded?
  vals,       \* validation batches recorded
  gen,        \* batch that made the latest review generation, 0: none
  genTree,    \* the tree that generation captured
  genHead,    \* and the HEAD it was captured on
  findings,   \* review findings, see Finding
  rounds,     \* repair rounds, "none" where not created
  failed,     \* workflow_stage_failure artifacts
  retries,    \* review_retry_started artifacts
  packet,     \* evidence of the latest final packet, as a set of at most one
  approvals,  \* final_git_action approvals
  integ,      \* the task_integrations row: "none", "prepared", "completed"
  tree,       \* contents of the task's tree, 0: the base commit's
  head,       \* HEAD of the worktree, see Commit
  target,     \* commits on the target branch since the worktree was made
  merged,     \* the commits cherry-picked onto the target branch
  turn,       \* the implementer: "idle", "running" or "exited"
  orphan,     \* does a provider without an owner still edit the tree?
  owned,      \* has the supervisor a handle on the provider?
  lives,      \* supervisors built so far
  pc,         \* point reached by the running call
  cands,      \* its reviewer's candidates
  expect,     \* its target head, taken before the review
  was         \* lifecycle a restart found

taskVars     == <<lc, mode, kind, wt>>
sessionVars  == <<impl, aux, apiRef, turnDone>>
evidenceVars == <<vals, gen, genTree, genHead, findings, rounds, failed,
                  retries>>
gateVars     == <<packet, approvals, integ>>
diskVars     == <<tree, head, target, merged>>
procVars     == <<turn, orphan>>
hostVars     == <<owned, lives>>
localVars    == <<pc, cands, expect, was>>
vars == <<taskVars, sessionVars, evidenceVars, gateVars, diskVars, procVars,
          hostVars, localVars>>

\* A commit: the tree it was made on, and the tree it committed.  Picked onto
\* another branch, it brings the change from the one to the other.
Commit    == [from: Nat, tree: Nat]
Base      == [from |-> 0, tree |-> 0]

Settled   == {"Repaired", "Dismissed"}
RoundIds  == 1..MaxRounds
Finding   == [issue: Issues, gen: Nat, disp: Disposition,
              round: {0} \union RoundIds]
Rounds    == [RoundIds -> RoundLifecycle \union {"none"}]
Digest    == [tree: Nat, vals: Nat, findings: SUBSET Finding, rounds: Rounds]
Approval  == [ev: Digest, st: ApprovalLifecycle]
Stages    == {"Validating", "Reviewing", "Implementing"}
Errors    == {"NotAvailable", "Ownership", "Provider", "Storage"}
Points    == {"idle", "down", "worktree", "launch", "started", "own",
              "stopping", "checks", "bind", "rereview", "reviewer", "dispose",
              "persist", "confirm", "repair", "fix", "fixed", "evidence",
              "verify", "final", "offer", "integrate", "commit", "pick",
              "record", "finish", "approved", "denied", "retry", "boot",
              "recover"}

-------------------------------------------------------------------------------
\* What the code reads.

Terminal == lc \in TaskTerminal

\* Mutant: the diff digest is not compared.
StaleRevisionOnly == gen = 0 \/ genHead # head

\* build_packet refuses unless the latest generation is exactly the worktree:
\* the diff against the base commit, and HEAD, wherever it was by then.
Stale == gen = 0 \/ genTree # tree \/ genHead # head

\* What evidence_digest hashes, for the packet and again for a decision.
Evidence ==
  [tree |-> tree, vals |-> vals, findings |-> findings, rounds |-> rounds]

NoOpenBlocker == \A f \in findings : f.disp \in Settled

Confirmed == {f \in findings : f.disp = "ConfirmedBlocking"}

Opened == {n \in RoundIds : rounds[n] # "none"}

\* The approval available_actions offers: the latest one that is pending.
Pending == {a \in approvals : a.st = "Pending"}
Offered == {a \in Pending : \A b \in Pending : b.ev.vals <= a.ev.vals}

ReviewRetryAllowed ==
  /\ \E f \in failed : f.stage = "Reviewing"
  /\ retries < MaxReviewRetries

-------------------------------------------------------------------------------
\* What its steps are built from.

Enter(l) == lc' = l /\ UNCHANGED <<mode, kind, wt>>

\* A call goes on, or returns.
Goto(p) == pc' = p /\ UNCHANGED <<cands, expect, was>>
Return  == pc' = "idle" /\ cands' = {} /\ expect' = 0 /\ was' = "Draft"

\* The error arm of reconcile_progress: record the failed stage, and block
\* the task unless it is already terminal or in recovery.
FailStage(stage, error) ==
  /\ failed' = failed \union {[stage |-> stage, error |-> error]}
  /\ IF Terminal \/ lc = "Recovering" THEN UNCHANGED taskVars
                                      ELSE Enter("Blocked")
  /\ Return

\* Mutant: the session gets the task's lifecycle.
ReconciledAsTask(s) ==
  IF s \in {"Active", "Cancelling"} THEN "Recovering" ELSE s

\* restore_unfinished_task and reconcile_task_sessions.
Reconciled(s) ==
  IF s \in {"Active", "Cancelling"} THEN "RecoveryRequired" ELSE s

Restore ==
  IF Terminal \/ lc = "Draft"
  THEN UNCHANGED <<taskVars, sessionVars>>
  ELSE /\ Enter("Recovering")
       /\ impl' = Reconciled(impl)
       /\ aux' = {Reconciled(s) : s \in aux}
       /\ UNCHANGED <<apiRef, turnDone>>

\* The supervisor is dropped with every handle it owns.  No adapter kills its
\* child on drop; an API run is a task of this process and dies with it.
Abandon ==
  /\ owned' = FALSE
  /\ turn' = "idle"
  /\ \/ UNCHANGED orphan
     \/ /\ Orphans /\ kind # "api" /\ (turn = "running" \/ pc = "fix")
        /\ orphan' = TRUE

Init ==
  /\ lc = "Draft" /\ mode \in Modes /\ kind \in Kinds /\ wt = FALSE
  /\ impl = "none" /\ aux = {} /\ apiRef = FALSE /\ turnDone = FALSE
  /\ vals = 0 /\ gen = 0 /\ genTree = 0 /\ genHead = Base /\ findings = {}
  /\ rounds = [n \in RoundIds |-> "none"] /\ failed = {} /\ retries = 0
  /\ packet = {} /\ approvals = {} /\ integ = "none"
  /\ tree = 0 /\ head = Base /\ target = 0 /\ merged = <<>>
  /\ turn = "idle" /\ orphan = FALSE /\ owned = FALSE /\ lives = 1
  /\ pc = "idle" /\ cands = {} /\ expect = 0 /\ was = "Draft"

-------------------------------------------------------------------------------
\* Start: start_with_roles and start_direct_edit.

StartTask ==
  /\ pc = "idle" /\ lc = "Draft"
  /\ Enter("Preparing")
  /\ Goto(IF mode = "direct_edit" THEN "launch" ELSE "worktree")
  /\ UNCHANGED <<sessionVars, evidenceVars, gateVars, diskVars, procVars,
                 hostVars>>

CreateWorktree ==
  /\ pc = "worktree"
  /\ wt' = TRUE
  /\ Goto("launch")
  /\ UNCHANGED <<lc, mode, kind, sessionVars, evidenceVars, gateVars, diskVars,
                 procVars, hostVars>>

WorktreeRefused ==
  /\ pc = "worktree"
  /\ Enter("Failed")
  /\ Return
  /\ UNCHANGED <<sessionVars, evidenceVars, gateVars, diskVars, procVars,
                 hostVars>>

\* The session is durable and active; the Claude and OMP child already has its
\* prompt.  Direct edit has no API arm.
OpenSession ==
  /\ pc = "launch" /\ ~(mode = "direct_edit" /\ kind = "api")
  /\ impl' = "Active"
  /\ turn' = IF kind \in {"claude", "omp"} THEN "running" ELSE turn
  /\ Goto("started")
  /\ UNCHANGED <<taskVars, aux, apiRef, turnDone, evidenceVars, gateVars,
                 diskVars, orphan, hostVars>>

\* No session: fail_task, or the starter's own transition for Codex; a missing
\* program and a direct edit leave the task Preparing.
LaunchFails ==
  /\ pc = "launch"
  /\ \/ /\ kind = "codex" \/ (mode # "direct_edit" /\ kind # "api")
        /\ Enter("Failed")
     \/ /\ kind \in {"claude", "omp"} \/ mode = "direct_edit"
        /\ UNCHANGED taskVars
  /\ Return
  /\ UNCHANGED <<sessionVars, evidenceVars, gateVars, diskVars, procVars,
                 hostVars>>

EnterImplementing ==
  /\ pc = "started"
  /\ Enter("Implementing")
  /\ Goto("own")
  /\ UNCHANGED <<sessionVars, evidenceVars, gateVars, diskVars, procVars,
                 hostVars>>

TakeOwnership ==
  /\ pc = "own"
  /\ owned' = TRUE
  /\ turn' = IF kind \in {"codex", "api"} THEN "running" ELSE turn
  /\ Return
  /\ UNCHANGED <<taskVars, sessionVars, evidenceVars, gateVars, diskVars,
                 orphan, lives>>

\* Codex opens the thread first; its turn may still be refused.
TurnStartFails ==
  /\ pc = "own" /\ kind = "codex"
  /\ IF mode = "direct_edit" THEN UNCHANGED taskVars ELSE Enter("Failed")
  /\ Return
  /\ UNCHANGED <<sessionVars, evidenceVars, gateVars, diskVars, procVars,
                 hostVars>>

-------------------------------------------------------------------------------
\* The provider processes, between the supervisor's steps.

ProviderEdits ==
  /\ turn = "running" \/ orphan \/ pc = "fix"
  /\ tree < MaxTree
  /\ tree' = tree + 1
  /\ UNCHANGED <<taskVars, sessionVars, evidenceVars, gateVars, head, target,
                 merged, procVars, hostVars, localVars>>

\* A provider with a shell commits what it has changed so far.
ProviderCommits ==
  /\ turn = "running" \/ orphan \/ pc = "fix"
  /\ kind \in Committers /\ wt /\ tree # head.tree
  /\ head' = [from |-> head.tree, tree |-> tree]
  /\ UNCHANGED <<taskVars, sessionVars, evidenceVars, gateVars, tree, target,
                 merged, procVars, hostVars, localVars>>

\* The adapter records TurnCompleted; persist_api_run_outcome first completes
\* a session that is still active.
TurnCompletes ==
  /\ turn = "running" /\ pc # "down"
  /\ turn' = "idle"
  /\ turnDone' = TRUE
  /\ impl' = IF kind = "api" /\ impl = "Active" THEN "Completed" ELSE impl
  /\ UNCHANGED <<taskVars, aux, apiRef, evidenceVars, gateVars, diskVars,
                 orphan, hostVars, localVars>>

\* A child that exits without completing its turn.  Only OMP is polled for it.
ChildExits ==
  /\ kind # "api"
  /\ turn = "running" \/ (kind = "omp" /\ owned /\ turn = "idle")
  /\ turn' = IF kind = "omp" THEN "exited" ELSE "idle"
  /\ UNCHANGED <<taskVars, sessionVars, evidenceVars, gateVars, diskVars,
                 orphan, hostVars, localVars>>

\* persist_api_run_outcome, error arm: a cancellation ends a cancelling
\* session; anything else fails an active session and blocks the task.
ApiRunFails ==
  /\ kind = "api" /\ turn = "running"
  /\ turn' = "idle"
  /\ \/ /\ impl = "Cancelling"
        /\ impl' = "Cancelled"
        /\ UNCHANGED taskVars
     \/ /\ impl' = IF impl = "Active" THEN "Failed" ELSE impl
        /\ IF Terminal THEN UNCHANGED taskVars ELSE Enter("Blocked")
  /\ UNCHANGED <<aux, apiRef, turnDone, evidenceVars, gateVars, diskVars,
                 orphan, hostVars, localVars>>

OrphanExits ==
  /\ orphan
  /\ orphan' = FALSE
  /\ UNCHANGED <<taskVars, sessionVars, evidenceVars, gateVars, diskVars, turn,
                 hostVars, localVars>>

\* Somebody commits to the target branch of the primary checkout.
TargetMoves ==
  /\ wt /\ target < MaxTarget
  /\ target' = target + 1
  /\ UNCHANGED <<taskVars, sessionVars, evidenceVars, gateVars, tree, head,
                 merged, procVars, hostVars, localVars>>

-------------------------------------------------------------------------------
\* reconcile_progress, before its stages and the Implementing arm.

\* Mutant: the handle of the exited process is kept.
PollKeepsHandle ==
  /\ pc = "idle" /\ owned /\ kind = "omp" /\ turn = "exited"
  /\ turn' = "idle"
  /\ IF turnDone THEN UNCHANGED <<taskVars, sessionVars>> ELSE Restore
  /\ UNCHANGED <<evidenceVars, gateVars, diskVars, orphan, hostVars,
                 localVars>>

\* reconcile_interrupted_omp_runs.
PollExitedOmp ==
  /\ pc = "idle" /\ owned /\ kind = "omp" /\ turn = "exited"
  /\ owned' = FALSE
  /\ turn' = "idle"
  /\ IF turnDone THEN UNCHANGED <<taskVars, sessionVars>> ELSE Restore
  /\ UNCHANGED <<evidenceVars, gateVars, diskVars, orphan, lives, localVars>>

\* reconcile_finished_api_runs.
ReapApiRun ==
  /\ pc = "idle" /\ owned /\ kind = "api" /\ turn = "idle"
  /\ owned' = FALSE
  /\ UNCHANGED <<taskVars, sessionVars, evidenceVars, gateVars, diskVars,
                 procVars, lives, localVars>>

\* Mutant: only a task that is still owned is advanced.
OwnedImplementingDone ==
  pc = "idle" /\ lc = "Implementing" /\ turnDone /\ owned

\* implementer_turn_completed: any turn the task ever completed.
ImplementingDone == pc = "idle" /\ lc = "Implementing" /\ turnDone

\* Mutant: the Codex implementer is not released before validation.
CompleteWithoutRelease ==
  /\ ImplementingDone
  /\ Enter(IF mode = "direct_edit" THEN "Completed" ELSE "Validating")
  /\ UNCHANGED <<sessionVars, evidenceVars, gateVars, diskVars, procVars,
                 hostVars, localVars>>

\* release_completed_codex_implementer, then the stage the mode calls for.
CompleteImplementing ==
  /\ ImplementingDone
  /\ IF owned /\ kind = "codex"
     THEN /\ owned' = FALSE
          /\ turn' = "idle"
          /\ impl' = IF impl = "Active" THEN "Completed" ELSE impl
     ELSE UNCHANGED <<owned, turn, impl>>
  /\ Enter(IF mode = "direct_edit" THEN "Completed" ELSE "Validating")
  /\ UNCHANGED <<aux, apiRef, turnDone, evidenceVars, gateVars, diskVars,
                 orphan, lives, localVars>>

\* The handle is taken out of the map before it is shut down.
ReleaseFails ==
  /\ ImplementingDone /\ owned /\ kind = "codex"
  /\ Abandon
  /\ UNCHANGED <<taskVars, sessionVars, evidenceVars, gateVars, diskVars,
                 lives, localVars>>

\* complete_direct_edit cannot read the checkout it is to summarise.
SnapshotFails ==
  /\ ImplementingDone /\ mode = "direct_edit" /\ ~(owned /\ kind = "codex")
  /\ FailStage("Implementing", "Ownership")
  /\ UNCHANGED <<sessionVars, vals, gen, genTree, genHead, findings, rounds,
                 retries, gateVars, diskVars, procVars, hostVars>>

-------------------------------------------------------------------------------
\* run_validation_stage.

StartValidation ==
  /\ pc = "idle" /\ lc = "Validating"
  /\ vals + 2 <= MaxVals
  /\ Goto("checks")
  /\ UNCHANGED <<taskVars, sessionVars, evidenceVars, gateVars, diskVars,
                 procVars, hostVars>>

NoProfile ==
  /\ pc = "idle" /\ lc = "Validating"
  /\ Enter("Blocked")
  /\ UNCHANGED <<sessionVars, evidenceVars, gateVars, diskVars, procVars,
                 hostVars, localVars>>

\* A profile of shell commands runs in the worktree, and its batch of results
\* is recorded.
RunProfile ==
  /\ vals' = vals + 1
  /\ \/ UNCHANGED tree
     \/ ChecksEdit /\ tree < MaxTree /\ tree' = tree + 1

ChecksPass ==
  /\ pc = "checks"
  /\ RunProfile
  /\ Goto("bind")
  /\ UNCHANGED <<taskVars, sessionVars, gen, genTree, genHead, findings,
                 rounds, failed, retries, gateVars, head, target, merged,
                 procVars, hostVars>>

ChecksReject ==
  /\ pc = "checks"
  /\ RunProfile
  /\ Enter("Blocked")
  /\ Return
  /\ UNCHANGED <<sessionVars, gen, genTree, genHead, findings, rounds, failed,
                 retries, gateVars, head, target, merged, procVars, hostVars>>

\* The profile could not be run at all.
ChecksFail ==
  /\ pc = "checks"
  /\ FailStage("Validating", "NotAvailable")
  /\ UNCHANGED <<sessionVars, vals, gen, genTree, genHead, findings, rounds,
                 retries, gateVars, diskVars, procVars, hostVars>>

\* Every step passed: the generation captures the tree as it is now.
BindGeneration ==
  /\ pc = "bind"
  /\ gen' = vals
  /\ genTree' = tree
  /\ genHead' = head
  /\ Enter("Reviewing")
  /\ Return
  /\ UNCHANGED <<sessionVars, vals, findings, rounds, failed, retries,
                 gateVars, diskVars, procVars, hostVars>>

-------------------------------------------------------------------------------
\* run_review_stage.

\* prepare_merge reads the target's head, build_packet checks the generation,
\* and the reviewer is started on a snapshot of it.
StartReview ==
  /\ pc = "rereview" \/ (pc = "idle" /\ lc = "Reviewing")
  /\ ~Stale
  /\ pc' = "reviewer"
  /\ expect' = target
  /\ UNCHANGED <<cands, was, taskVars, sessionVars, evidenceVars, gateVars,
                 diskVars, procVars, hostVars>>

StaleReview ==
  /\ pc = "rereview" \/ (pc = "idle" /\ lc = "Reviewing")
  /\ Stale
  /\ FailStage("Reviewing", "NotAvailable")
  /\ UNCHANGED <<sessionVars, vals, gen, genTree, genHead, findings, rounds,
                 retries, gateVars, diskVars, procVars, hostVars>>

\* cross_model_review: an OMP reviewer's session is never completed.
ReviewReturns ==
  /\ pc = "reviewer"
  /\ cands' \in SUBSET Issues
  /\ \E s \in {"Completed", "Active"} : aux' = aux \union {s}
  /\ pc' = "dispose"
  /\ UNCHANGED <<expect, was, taskVars, impl, apiRef, turnDone, evidenceVars,
                 gateVars, diskVars, procVars, hostVars>>

\* Timeout, exit, or output that does not parse; before or after the session.
ReviewFails ==
  /\ pc = "reviewer"
  /\ \E s \in SUBSET {"Active", "Failed", "Completed"} :
       Cardinality(s) <= 1 /\ aux' = aux \union s
  /\ FailStage("Reviewing", "Provider")
  /\ UNCHANGED <<impl, apiRef, turnDone, vals, gen, genTree, genHead, findings,
                 rounds, retries, gateVars, diskVars, procVars, hostVars>>

\* reconcile_repaired_findings: a confirmed blocker that was sent to a repair
\* is repaired if the reviewer no longer reports it, and dismissed otherwise;
\* the round it was sent in is settled with it.
SentToRepair(f) == f \in Confirmed /\ f.round # 0

\* Mutant: a round is settled with its finding, whatever its lifecycle.
DisposeAnyRound ==
  /\ pc = "dispose"
  /\ findings' =
       {IF SentToRepair(f)
        THEN [f EXCEPT !.disp = IF f.issue \in cands THEN "Dismissed"
                                                     ELSE "Repaired"]
        ELSE f : f \in findings}
  /\ rounds' =
       [n \in RoundIds |->
          IF \E f \in findings : SentToRepair(f) /\ f.round = n
          THEN "Resolved" ELSE rounds[n]]
  /\ Goto("persist")
  /\ UNCHANGED <<taskVars, sessionVars, vals, gen, genTree, genHead, failed,
                 retries, gateVars, diskVars, procVars, hostVars>>

\* Mutant: only a finding whose round awaits validation is settled.
DisposeAwaitedOnly ==
  /\ pc = "dispose"
  /\ findings' =
       {IF SentToRepair(f) /\ rounds[f.round] = "AwaitingValidation"
        THEN [f EXCEPT !.disp = IF f.issue \in cands THEN "Dismissed"
                                                     ELSE "Repaired"]
        ELSE f : f \in findings}
  /\ Goto("persist")
  /\ UNCHANGED <<taskVars, sessionVars, vals, gen, genTree, genHead, rounds,
                 failed, retries, gateVars, diskVars, procVars, hostVars>>

DisposeRepaired ==
  /\ pc = "dispose"
  /\ findings' =
       {IF SentToRepair(f)
        THEN [f EXCEPT !.disp = IF f.issue \in cands THEN "Dismissed"
                                                     ELSE "Repaired"]
        ELSE f : f \in findings}
  /\ rounds' =
       [n \in RoundIds |->
          IF rounds[n] = "AwaitingValidation"
             /\ \E f \in findings : SentToRepair(f) /\ f.round = n
          THEN IF \E f \in findings :
                    SentToRepair(f) /\ f.round = n /\ f.issue \in cands
               THEN "Exhausted" ELSE "Resolved"
          ELSE rounds[n]]
  /\ Goto("persist")
  /\ UNCHANGED <<taskVars, sessionVars, vals, gen, genTree, genHead, failed,
                 retries, gateVars, diskVars, procVars, hostVars>>

\* persist_candidates: one finding per issue and generation, whatever became
\* of the one that is there.
PersistFindings ==
  /\ pc = "persist"
  /\ findings' = findings \union
       {[issue |-> i, gen |-> gen, disp |-> "Reported", round |-> 0] :
          i \in {j \in cands : \A f \in findings :
                                  ~(f.issue = j /\ f.gen = gen)}}
  /\ Goto("confirm")
  /\ UNCHANGED <<taskVars, sessionVars, vals, gen, genTree, genHead, rounds,
                 failed, retries, gateVars, diskVars, procVars, hostVars>>

\* One malformed candidate refuses them all, after the repaired findings were
\* disposed of.
MalformedFindings ==
  /\ pc = "persist"
  /\ FailStage("Reviewing", "NotAvailable")
  /\ UNCHANGED <<sessionVars, vals, gen, genTree, genHead, findings, rounds,
                 retries, gateVars, diskVars, procVars, hostVars>>

\* Sentinel confirms the blockers that name a changed file.
ConfirmFindings ==
  /\ pc = "confirm"
  /\ findings' =
       {IF f.disp = "Reported" /\ f.issue \notin Stray
        THEN [f EXCEPT !.disp = "ConfirmedBlocking"] ELSE f : f \in findings}
  /\ IF \E f \in findings' : f.disp = "ConfirmedBlocking"
     THEN Enter("Repairing") /\ Goto("repair")
     ELSE UNCHANGED taskVars /\ Goto("evidence")
  /\ UNCHANGED <<sessionVars, vals, gen, genTree, genHead, rounds, failed,
                 retries, gateVars, diskVars, procVars, hostVars>>

-------------------------------------------------------------------------------
\* run_repair_stage and send_repair; the repair role is the implementer's.

Repairable == {f \in Confirmed : f.round = 0}

RepairLimit ==
  /\ pc = "repair"
  /\ Opened = RoundIds
  /\ Enter("Blocked")
  /\ Return
  /\ UNCHANGED <<sessionVars, evidenceVars, gateVars, diskVars, procVars,
                 hostVars>>

StartRepair ==
  /\ pc = "repair"
  /\ \E n \in RoundIds \ Opened, f \in Repairable :
       /\ 1..(n - 1) \subseteq Opened
       /\ rounds' = [rounds EXCEPT ![n] = "Active"]
       /\ findings' = (findings \ {f}) \union {[f EXCEPT !.round = n]}
  /\ Goto("fix")
  /\ UNCHANGED <<taskVars, sessionVars, vals, gen, genTree, genHead, failed,
                 retries, gateVars, diskVars, procVars, hostVars>>

\* The session the repair runs in: the implementer's own, for a Claude that is
\* still owned; a fresh one that replaces it, for OMP; one more otherwise.
RepairSession(ends) ==
  \/ /\ kind = "claude" /\ owned
     /\ UNCHANGED <<impl, aux, apiRef>>
  \/ /\ kind = "omp"
     /\ aux' = aux \union ({impl} \ {"none"})
     /\ impl' = "Active"
     /\ UNCHANGED apiRef
  \/ /\ kind = "codex" \/ (kind = "claude" /\ ~owned)
     /\ aux' = aux \union {ends}
     /\ UNCHANGED <<impl, apiRef>>
  \/ /\ kind = "api" /\ ~apiRef
     /\ aux' = aux \union {ends}
     /\ apiRef' = TRUE
     /\ UNCHANGED impl

SendRepair ==
  /\ pc = "fix"
  /\ RepairSession("Completed")
  /\ owned' = (owned \/ kind = "omp")
  /\ turn' = IF kind = "api" THEN turn ELSE "idle"
  /\ Goto("fixed")
  /\ UNCHANGED <<taskVars, turnDone, evidenceVars, gateVars, diskVars, orphan,
                 lives>>

\* The repair provider fails or its time runs out.  An OMP process is owned by
\* then and may still be at work; the others have lost their handle.
RepairFails ==
  /\ pc = "fix"
  /\ \/ /\ RepairSession("Active")
        /\ IF kind = "omp"
           THEN /\ owned' = TRUE
                /\ turn' \in {"running", "exited"}
                /\ UNCHANGED orphan
           ELSE /\ UNCHANGED <<owned, turn>>
                /\ \/ UNCHANGED orphan
                   \/ Orphans /\ kind # "api" /\ orphan' = TRUE
     \/ /\ UNCHANGED <<impl, aux, apiRef, orphan>>
        /\ IF kind = "omp" THEN owned' = FALSE /\ turn' = "idle"
                           ELSE UNCHANGED <<owned, turn>>
  /\ FailStage("Reviewing", "Provider")
  /\ UNCHANGED <<turnDone, vals, gen, genTree, genHead, findings, rounds,
                 retries, gateVars, diskVars, lives>>

\* An API repair session has one reference per task, and the store refuses a
\* second row with it.
RepairRefused ==
  /\ pc = "fix" /\ kind = "api" /\ apiRef
  /\ FailStage("Reviewing", "Storage")
  /\ UNCHANGED <<sessionVars, vals, gen, genTree, genHead, findings, rounds,
                 retries, gateVars, diskVars, procVars, hostVars>>

FinishRepair ==
  /\ pc = "fixed"
  /\ \E n \in Opened :
       /\ n + 1 \notin Opened
       /\ rounds' = [rounds EXCEPT ![n] = "AwaitingValidation"]
  /\ Enter("Validating")
  /\ Return
  /\ UNCHANGED <<sessionVars, vals, gen, genTree, genHead, findings, failed,
                 retries, gateVars, diskVars, procVars, hostVars>>

-------------------------------------------------------------------------------
\* FinalApprovalSupervisor::prepare_evidence, and the gate it opens.

TargetAdvanced == mode = "auto_integrate" /\ expect # 0

\* The target moved on from the base, or git cannot merge the worktree's HEAD
\* into it; block_auto_integration leaves a task that is not Integrating where
\* it is.
RefuseAuto ==
  /\ pc = "evidence" /\ mode = "auto_integrate"
  /\ Return
  /\ UNCHANGED <<taskVars, sessionVars, evidenceVars, gateVars, diskVars,
                 procVars, hostVars>>

\* Mutant: findings that were never confirmed do not hold the gate.
ReadyUnlessConfirmed ==
  /\ "RecoveryRequired" \notin {impl} \union aux
  /\ ~Stale
  /\ Confirmed = {}

\* Mutant: the sessions are not looked at.
ReadyWhateverSessions == ~Stale /\ NoOpenBlocker

EvidenceReady ==
  /\ "RecoveryRequired" \notin {impl} \union aux
  /\ ~Stale
  /\ NoOpenBlocker

CheckEvidence ==
  /\ pc = "evidence" /\ ~TargetAdvanced
  /\ EvidenceReady
  /\ Goto("verify")
  /\ UNCHANGED <<taskVars, sessionVars, evidenceVars, gateVars, diskVars,
                 procVars, hostVars>>

\* Mutant: the refusal is recorded and the task is left Reviewing.
EvidenceRefusedQuietly ==
  /\ pc = "evidence" /\ ~TargetAdvanced
  /\ ~EvidenceReady
  /\ Return
  /\ UNCHANGED <<taskVars, sessionVars, evidenceVars, gateVars, diskVars,
                 procVars, hostVars>>

EvidenceRefused ==
  /\ pc = "evidence" /\ ~TargetAdvanced
  /\ ~EvidenceReady
  /\ FailStage("Reviewing", "NotAvailable")
  /\ UNCHANGED <<sessionVars, vals, gen, genTree, genHead, findings, rounds,
                 retries, gateVars, diskVars, procVars, hostVars>>

\* run_profile_for_final_approval: the profile again, and no new generation.
FinalVerify ==
  /\ pc = "verify"
  /\ RunProfile
  /\ Goto("final")
  /\ UNCHANGED <<taskVars, sessionVars, gen, genTree, genHead, findings,
                 rounds, failed, retries, gateVars, head, target, merged,
                 procVars, hostVars>>

FinalVerifyFails ==
  /\ pc = "verify"
  /\ RunProfile
  /\ FailStage("Reviewing", "NotAvailable")
  /\ UNCHANGED <<sessionVars, gen, genTree, genHead, findings, rounds, retries,
                 gateVars, head, target, merged, procVars, hostVars>>

\* The packet is the evidence as it is read now.
BindEvidence ==
  /\ pc = "final"
  /\ packet' = {Evidence}
  /\ Enter("ReadyForHuman")
  /\ Goto("offer")
  /\ UNCHANGED <<sessionVars, evidenceVars, approvals, integ, diskVars,
                 procVars, hostVars>>

OfferApproval ==
  /\ pc = "offer" /\ mode # "auto_integrate"
  /\ approvals' = approvals \union
                    {[ev |-> e, st |-> "Pending"] : e \in packet}
  /\ Return
  /\ UNCHANGED <<taskVars, sessionVars, evidenceVars, packet, integ, diskVars,
                 procVars, hostVars>>

-------------------------------------------------------------------------------
\* auto_integrate and WorktreeTransaction::integrate_verified.

BeginIntegration ==
  /\ pc = "offer" /\ mode = "auto_integrate"
  /\ Enter("Integrating")
  /\ Goto("integrate")
  /\ UNCHANGED <<sessionVars, evidenceVars, gateVars, diskVars, procVars,
                 hostVars>>

\* The preconditions that are checked before git writes anything.
IntegrateCheck ==
  /\ pc = "integrate"
  /\ target = expect /\ ~Stale /\ integ = "none" /\ NoOpenBlocker
  /\ tree # head.tree
  /\ Goto("commit")
  /\ UNCHANGED <<taskVars, sessionVars, evidenceVars, gateVars, diskVars,
                 procVars, hostVars>>

\* git add -A and git commit in the worktree, on top of whatever is there.
CommitSource ==
  /\ pc = "commit"
  /\ head' = [from |-> head.tree, tree |-> tree]
  /\ Goto("pick")
  /\ UNCHANGED <<taskVars, sessionVars, evidenceVars, gateVars, tree, target,
                 merged, procVars, hostVars>>

\* The target is read once more, then the commit is cherry-picked onto it.
CherryPick ==
  /\ pc = "pick"
  /\ target = expect
  /\ merged' = Append(merged, head)
  /\ target' = target + 1
  /\ Goto("record")
  /\ UNCHANGED <<taskVars, sessionVars, evidenceVars, gateVars, tree, head,
                 procVars, hostVars>>

RecordIntegration ==
  /\ pc = "record"
  /\ integ' = "prepared"
  /\ Goto("finish")
  /\ UNCHANGED <<taskVars, sessionVars, evidenceVars, packet, approvals,
                 diskVars, procVars, hostVars>>

FinishIntegration ==
  /\ pc = "finish"
  /\ integ' = "completed"
  /\ Enter("Integrated")
  /\ Return
  /\ UNCHANGED <<sessionVars, evidenceVars, packet, approvals, diskVars,
                 procVars, hostVars>>

\* A precondition does not hold, or git refuses: a dirty checkout, another
\* branch, a conflict that is aborted.
BlockIntegration ==
  /\ pc \in {"integrate", "commit", "pick"}
  /\ Enter("Blocked")
  /\ Return
  /\ UNCHANGED <<sessionVars, evidenceVars, gateVars, diskVars, procVars,
                 hostVars>>

-------------------------------------------------------------------------------
\* Calls the user makes: decide_final_approval, stop and the two retries.

\* The evidence is hashed again and must be what the approval was issued for;
\* the task's lifecycle is not looked at.
Decide ==
  /\ pc = "idle" /\ lc # "Recovering"
  /\ \E a \in Offered, st \in {"Approved", "Denied"} :
       /\ a.ev = Evidence
       /\ approvals' = (approvals \ {a}) \union {[a EXCEPT !.st = st]}
       /\ Goto(IF st = "Approved" THEN "approved" ELSE "denied")
  /\ UNCHANGED <<taskVars, sessionVars, evidenceVars, packet, integ, diskVars,
                 procVars, hostVars>>

\* The task follows, where its lifecycle table lets it.
FinishDecision ==
  /\ pc \in {"approved", "denied"}
  /\ LET l == IF pc = "approved" THEN "Finalized" ELSE "Blocked"
     IN IF l \in TaskSuccessors[lc] THEN Enter(l) ELSE UNCHANGED taskVars
  /\ Return
  /\ UNCHANGED <<sessionVars, evidenceVars, gateVars, diskVars, procVars,
                 hostVars>>

StopOffered ==
  /\ pc = "idle" /\ owned
  /\ lc \in {"Preparing", "Implementing", "AwaitingApproval", "Repairing"}

\* An API handle is taken out of the map first, whatever comes of it.
BeginStop ==
  /\ StopOffered
  /\ owned' = (kind # "api")
  /\ IF impl = "Active" THEN impl' = "Cancelling" /\ Goto("stopping")
                        ELSE UNCHANGED <<impl, localVars>>
  /\ UNCHANGED <<taskVars, aux, apiRef, turnDone, evidenceVars, gateVars,
                 diskVars, procVars, lives>>

\* The turn was interrupted, the child killed or the run aborted.
FinishStop ==
  /\ pc = "stopping"
  /\ turn' = "idle"
  /\ impl' = IF impl = "Cancelling" THEN "Cancelled" ELSE impl
  /\ IF Terminal THEN UNCHANGED taskVars ELSE Enter("Cancelled")
  /\ Return
  /\ UNCHANGED <<aux, apiRef, turnDone, evidenceVars, gateVars, diskVars,
                 orphan, hostVars>>

\* The session stays Cancelling.
StopFails ==
  /\ pc = "stopping" /\ kind # "api"
  /\ Return
  /\ UNCHANGED <<taskVars, sessionVars, evidenceVars, gateVars, diskVars,
                 procVars, hostVars>>

\* retry_review goes straight on into the review stage.
RetryReview ==
  /\ pc = "idle" /\ lc = "Blocked" /\ ReviewRetryAllowed /\ ~Stale
  /\ vals < MaxVals
  /\ retries' = retries + 1
  /\ Enter("Reviewing")
  /\ Goto("rereview")
  /\ UNCHANGED <<sessionVars, vals, gen, genTree, genHead, findings, rounds,
                 failed, gateVars, diskVars, procVars, hostVars>>

\* retry_interrupted_omp: a fresh session beside the old one, then the task.
RetryOmp ==
  /\ pc = "idle" /\ lc = "Recovering" /\ kind = "omp" /\ wt
  /\ aux' = aux \union ({impl} \ {"none"})
  /\ impl' = "Active"
  /\ turn' = "running"
  /\ Goto("retry")
  /\ UNCHANGED <<taskVars, apiRef, turnDone, evidenceVars, gateVars, diskVars,
                 orphan, hostVars>>

FinishRetry ==
  /\ pc = "retry"
  /\ owned' = TRUE
  /\ Enter("Implementing")
  /\ Return
  /\ UNCHANGED <<sessionVars, evidenceVars, gateVars, diskVars, procVars,
                 lives>>

-------------------------------------------------------------------------------
\* The host: shutdown, crash, and the supervisor built after either.

\* prepare_for_host_shutdown restores the tasks that are owned, and only them.
Shutdown ==
  /\ pc = "idle"
  /\ IF owned THEN Restore ELSE UNCHANGED <<taskVars, sessionVars>>
  /\ Abandon
  /\ pc' = "down" /\ UNCHANGED <<cands, expect, was>>
  /\ UNCHANGED <<evidenceVars, gateVars, diskVars, lives>>

Crash ==
  /\ pc # "down"
  /\ Abandon
  /\ pc' = "down" /\ cands' = {} /\ expect' = 0 /\ was' = "Draft"
  /\ UNCHANGED <<taskVars, sessionVars, evidenceVars, gateVars, diskVars,
                 lives>>

Boot ==
  /\ pc = "down" /\ lives < MaxLives
  /\ lives' = lives + 1
  /\ Goto("boot")
  /\ UNCHANGED <<taskVars, sessionVars, evidenceVars, gateVars, diskVars,
                 procVars, owned>>

\* SetRepository with the path that is already selected replaces a live
\* supervisor; an API run is detached from it and goes on.
ReselectRepository ==
  /\ pc = "idle" /\ lives < MaxLives
  /\ lives' = lives + 1
  /\ IF kind = "api" THEN owned' = FALSE /\ UNCHANGED procVars ELSE Abandon
  /\ Goto("boot")
  /\ UNCHANGED <<taskVars, sessionVars, evidenceVars, gateVars, diskVars>>

\* enter_recovery_after_restart: a task of this repository that is neither a
\* draft nor terminal is first put into recovery.
SkipTask ==
  /\ pc = "boot"
  /\ Terminal \/ lc = "Draft" \/ ~(wt \/ mode = "direct_edit")
  /\ Return
  /\ UNCHANGED <<taskVars, sessionVars, evidenceVars, gateVars, diskVars,
                 procVars, hostVars>>

RestoreTask ==
  /\ pc = "boot"
  /\ ~Terminal /\ lc # "Draft" /\ (wt \/ mode = "direct_edit")
  /\ Restore
  /\ IF mode = "direct_edit"
     THEN Return
     ELSE pc' = "recover" /\ was' = lc /\ UNCHANGED <<cands, expect>>
  /\ UNCHANGED <<evidenceVars, gateVars, diskVars, procVars, hostVars>>

\* It stays there where no case below is sure to move it; whether Codex calls
\* a thread resumable is the provider's answer.
GateOnRecord == was = "ReadyForHuman" /\ packet # {} /\ approvals # {}

LeaveRecovering ==
  /\ pc = "recover"
  /\ was # "Integrating" /\ ~GateOnRecord
  /\ Return
  /\ UNCHANGED <<taskVars, sessionVars, evidenceVars, gateVars, diskVars,
                 procVars, hostVars>>

\* A gate: the packet and an approval, in whatever state, are on record.
RestoreGate ==
  /\ pc = "recover" /\ GateOnRecord
  /\ Enter("ReadyForHuman")
  /\ Return
  /\ UNCHANGED <<sessionVars, evidenceVars, gateVars, diskVars, procVars,
                 hostVars>>

\* Mutant: an interrupted integration is taken up again.
ReplayInterrupted ==
  /\ pc = "recover" /\ was = "Integrating" /\ head.tree # 0
  /\ lc' = "Integrating" /\ UNCHANGED <<mode, kind, wt>>
  /\ pc' = "pick" /\ expect' = target /\ UNCHANGED <<cands, was>>
  /\ UNCHANGED <<sessionVars, evidenceVars, gateVars, diskVars, procVars,
                 hostVars>>

\* An integration is never replayed.
BlockInterrupted ==
  /\ pc = "recover" /\ was = "Integrating"
  /\ Enter("Blocked")
  /\ Return
  /\ UNCHANGED <<sessionVars, evidenceVars, gateVars, diskVars, procVars,
                 hostVars>>

\* The task's only session is a Codex thread the provider calls resumable.
ResumeCodex ==
  /\ pc = "recover"
  /\ was \notin {"Validating", "ReadyForHuman", "Integrating"}
  /\ kind = "codex" /\ impl # "none" /\ aux = {}
  /\ impl' = IF impl = "RecoveryRequired" THEN "Active" ELSE impl
  /\ owned' = TRUE
  /\ turn' = "running"
  /\ Enter("Implementing")
  /\ Return
  /\ UNCHANGED <<aux, apiRef, turnDone, evidenceVars, gateVars, diskVars,
                 orphan, lives>>

-------------------------------------------------------------------------------
Start      == \/ StartTask \/ CreateWorktree \/ WorktreeRefused
              \/ OpenSession \/ LaunchFails \/ EnterImplementing
              \/ TakeOwnership \/ TurnStartFails
Provider   == \/ ProviderEdits \/ ProviderCommits \/ TurnCompletes
              \/ ChildExits \/ ApiRunFails \/ OrphanExits \/ TargetMoves
Implement  == \/ PollExitedOmp \/ ReapApiRun \/ CompleteImplementing
              \/ ReleaseFails \/ SnapshotFails
Validate   == \/ StartValidation \/ NoProfile \/ ChecksPass \/ ChecksReject
              \/ ChecksFail \/ BindGeneration
Review     == \/ StartReview \/ StaleReview \/ ReviewReturns \/ ReviewFails
              \/ DisposeRepaired \/ PersistFindings \/ MalformedFindings
              \/ ConfirmFindings
Repair     == \/ RepairLimit \/ StartRepair \/ SendRepair
              \/ RepairFails \/ RepairRefused \/ FinishRepair
Gate       == \/ RefuseAuto \/ CheckEvidence \/ EvidenceRefused
              \/ FinalVerify \/ FinalVerifyFails \/ BindEvidence
              \/ OfferApproval
Integrate  == \/ BeginIntegration \/ IntegrateCheck \/ CommitSource
              \/ CherryPick \/ RecordIntegration \/ FinishIntegration
              \/ BlockIntegration
User       == \/ Decide \/ FinishDecision \/ BeginStop \/ FinishStop
              \/ StopFails \/ RetryReview \/ RetryOmp \/ FinishRetry
Host       == \/ Shutdown \/ Crash \/ Boot \/ ReselectRepository
Recover    == \/ SkipTask \/ RestoreTask \/ LeaveRecovering \/ RestoreGate
              \/ BlockInterrupted \/ ResumeCodex

Next == \/ Start \/ Provider \/ Implement \/ Validate \/ Review \/ Repair
        \/ Gate \/ Integrate \/ User \/ Host \/ Recover

Spec == Init /\ [][Next]_vars

-------------------------------------------------------------------------------
\* What the scheduling justifies.  A call, once made, runs to its end: every
\* await on a provider, a check or git is under a timeout.  While the host is
\* up it calls reconcile_progress on every change of the store and every
\* subscription.  Nothing is assumed of users, providers, crashes and reboots.

CallSteps ==
  /\ pc \notin {"idle", "down"}
  /\ Start \/ Validate \/ Review \/ Repair \/ Gate \/ Integrate \/ User
     \/ Recover

Reconcile ==
  /\ pc = "idle"
  /\ Implement \/ Validate \/ Review

FairSpec == Spec /\ WF_vars(CallSteps) /\ WF_vars(Reconcile)

-------------------------------------------------------------------------------
\* Every variable has its type; one part for each group of variables.
TaskType     == lc \in TaskLifecycle /\ mode \in Modes /\ kind \in Kinds
                /\ wt \in BOOLEAN
SessionType  == /\ impl \in SessionLifecycle \union {"none"}
                /\ aux \subseteq SessionLifecycle
                /\ apiRef \in BOOLEAN /\ turnDone \in BOOLEAN
EvidenceType == /\ vals \in Nat /\ gen \in Nat
                /\ genTree \in Nat /\ genHead \in Commit
                /\ findings \subseteq Finding /\ rounds \in Rounds
                /\ failed \subseteq [stage: Stages, error: Errors]
                /\ retries \in Nat
GateType     == packet \subseteq Digest /\ approvals \subseteq Approval
                /\ integ \in {"none", "prepared", "completed"}
DiskType     == tree \in Nat /\ head \in Commit /\ target \in Nat
                /\ merged \in Seq(Commit)
ProcType     == turn \in {"idle", "running", "exited"} /\ orphan \in BOOLEAN
HostType     == owned \in BOOLEAN /\ lives \in Nat
LocalType    == pc \in Points /\ cands \subseteq Issues /\ expect \in Nat
                /\ was \in TaskLifecycle
TypeOK == /\ TaskType /\ SessionType /\ EvidenceType /\ GateType
          /\ DiskType /\ ProcType /\ HostType /\ LocalType

\* What is past the gate has no open blocker and has a review generation: a
\* task is ready for a human, integrated or finalized only when every blocker
\* any review ever recorded for it is repaired or dismissed, whatever stages
\* failed, were retried or were interrupted by a restart on the way.
GateIsClean ==
  lc \in {"ReadyForHuman", "Integrating", "Integrated", "Finalized"} =>
    gen > 0 /\ NoOpenBlocker

\* The target branch receives the task's commit at most once, over crashes,
\* restarts and retries: an interrupted integration is never replayed.
PickedAtMostOnce == Len(merged) <= 1

\* What reached the target branch, or was approved and finalized, is the tree
\* of the review generation, not a later state of the worktree: the commit that
\* is picked was made of that tree, on the HEAD the generation was captured on,
\* and is the whole of the task's change where nobody else commits in the
\* worktree.
ReleasedTreeWasReviewed ==
  /\ \A i \in DOMAIN merged :
       /\ merged[i] = [from |-> genHead.tree, tree |-> genTree]
       /\ kind \notin Committers => merged[i].from = 0
  /\ lc = "Finalized" =>
       \E a \in approvals : a.st = "Approved" /\ a.ev.tree = genTree

\* While a task waits for recovery, the running supervisor holds no handle of
\* its provider, so no stop and no poll acts on it and a retry cannot run
\* beside a live implementer that Sentinel owns.
RecoveringHasNoOwner == lc = "Recovering" => ~owned

\* Validation, review, the gate and integration look at a tree the
\* implementer's own turn is no longer changing.
StageHasQuietTree ==
  lc \in {"Validating", "Reviewing", "ReadyForHuman", "Integrating"} =>
    turn # "running"

\* A task that enters repair with a round left has a confirmed blocker that no
\* round was opened for: the stage never fails for want of something to send,
\* also after repairs that failed or were cut short.
RepairHasWork ==
  pc = "repair" /\ Opened # RoundIds => \E f \in Confirmed : f.round = 0

\* The approval of the latest evidence that was offered; what was offered before
\* it no longer counts.
Latest == {a \in approvals : \A b \in approvals : b.ev.vals <= a.ev.vals}

Promise == INSTANCE HumanGate WITH
  current   <- Evidence,
  open      <- {a.ev : a \in Pending},
  verdict   <- {a.st : a \in Latest \ Pending},
  finalized <- lc = "Finalized",
  landed    <- Len(merged)

\* The task keeps the promise of HumanGate: the decision and its effect are two
\* transactions, a decision is taken whatever the task is doing at the time, and
\* crashes, retries and later gates come in between; yet there is one question at
\* a time, and nothing is finalized or lands but by the latest approval, or
\* unasked and once.
HumanDecides == Promise!Spec

\* The store refuses an illegal lifecycle pair; no step of the supervisor asks
\* for one, whatever happened to the task, its findings and its repair rounds
\* since the running call last read them.
StoreNeverRefuses ==
  [][/\ lc' # lc => lc' \in TaskSuccessors[lc]
     /\ \A f \in findings, g \in findings' :
          f.issue = g.issue /\ f.gen = g.gen /\ f.disp # g.disp =>
            g.disp \in DispositionSuccessors[f.disp]
     /\ \A n \in RoundIds :
          rounds[n] # "none" /\ rounds'[n] # rounds[n] =>
            rounds'[n] \in RoundSuccessors[rounds[n]]]_vars

\* A review ends: the task does not stay Reviewing, being reviewed again and
\* again, while the host is up.
ReviewSettles == []<>(lc # "Reviewing" \/ pc = "down")

\* A completed turn is consumed: the task leaves Implementing, although its
\* owner may have been reaped, polled or replaced meanwhile.
TurnIsConsumed == []<>(lc # "Implementing" \/ ~turnDone \/ pc = "down")

\* Documented: a task enters ReadyForHuman when the review left no blocker.
\* A blocker dismissed in the current generation was reported again by the
\* latest reviewer of the very tree that is offered.
GateHasNoStandingBlocker ==
  lc = "ReadyForHuman" => \A f \in findings : f.gen = gen => f.disp = "Repaired"

\* Documented: a repair may start while there are rounds left.  None is then
\* refused by the store.
RepairIsAccepted == \A f \in failed : f.error # "Storage"

\* Documented: a task that cannot be recovered becomes Blocked, Cancelled or
\* Failed.
RecoverySettles == lc = "Recovering" ~> (lc # "Recovering" \/ pc = "down")

===============================================================================
