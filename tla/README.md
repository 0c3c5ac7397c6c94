# Sentinel: verification project

Agent Sentinel runs coding agents (Codex, Claude Code, OMP and HTTP model
providers) on a user's repository. A task is implemented by one provider in a
worktree of its own, validated by the project's commands, reviewed by another
provider, repaired in bounded rounds, and then offered to a human or integrated
automatically. An older desktop application beside it runs single agents in
worktrees it manages and shows what they changed. Every fact that matters is a
row of a SQLite database; the processes around it die, hang and race.

This directory holds TLA+ models of that machinery, their TLC configurations,
and TLAPS proofs. `PROJECT.json` ties every definition to the source lines it
models.

Run a model with `tlc -config AnyProvider.cfg MCTaskWorkflow`, check the proofs
of a module with `tlapm AppServer_proof.tla`. The eight proof modules are those
whose names end in `_proof`; section 5 says what each proves.

## 1. The system

| Part | Source | State it keeps | Operations | Modelled in |
|---|---|---|---|---|
| V3 lifecycles | `sentinel-core/src/v3.rs` 1-340 | none: transition tables | `transition` of tasks, sessions, approvals, findings, rounds | `Lifecycles` |
| V3 store | `sentinel-core/src/v3.rs`, migrations 0010-0020 | tasks, sessions, events, approvals, validations, findings, rounds, generations, artifacts, integrations, requests | guarded inserts and updates, restart reconciliation, change notification | the rows of a task in `TaskWorkflow`, `RepairRounds`, `ValidationChecks`, `TaskWorktrees`, `ActionAuthorization`; the request table in `RequestLedger` (its requests in `BridgeRequests`); the event log in `EventLog` |
| Workflow supervisor | `sentinel-supervisor/src/lib.rs` | provider handles it owns | start, `reconcile_progress`, stop, decide, retry, shutdown, restart recovery | `TaskWorkflow`, against `HumanGate` |
| Review and gate | `sentinel-review` | none of its own | `build_packet`, `persist_candidates`, `prepare_evidence`, `handoff`, `validate_and_consume` | `TaskWorkflow`, `RepairRounds`, `ActionAuthorization` |
| Validation | `sentinel-validation` | none of its own | run a profile, bind a review generation | `TaskWorkflow`, `ValidationChecks` |
| V3 worktrees | `sentinel-worktree` | git worktree and its rows, the review root | create, reopen, `prepare_merge`, `integrate_verified`, `discard`, `materialize_review_snapshot` | `TaskWorkflow` (integration), `TaskWorktrees`, `ReviewSnapshot` |
| Codex adapter | `sentinel-codex` | one connection: pending requests, the turn being started | requests, turns, interrupts, listing of models | `AppServer`, `ModelCatalog`; `TaskWorkflow` as the supervisor sees it |
| Claude, OMP adapters | `sentinel-claude`, `sentinel-omp` | a child, its session row, a count of events | start, prompt, cancel, complete, poll, drop | `CliSessions`, `ModelCatalog`; `TaskWorkflow` |
| API agent loop | `sentinel-provider-api/src/agent.rs`, part of the supervisor | a run in this process | rounds, tool calls, cancel, stop | `ApiRun`; `TaskWorkflow` (a run's outcome) |
| API clients and settings | `sentinel-provider-api` | settings file and its copy, the registry; a conversation | streams, tool calls, save, preflight | `ChatStream`, `ProviderSettings`, `ModelCatalog` |
| macOS bridge | `apps/macos/bridge` | the supervisor, the request table | one request at a time from stdin, pushed snapshots | `RequestLedger`; `TaskWorkflow` (call order, shutdown, re-selection) |
| macOS app | `apps/macos/Sources` | pending request ids | sends requests, restarts the bridge | `RequestLedger` (the client) |
| V1 runs | `sentinel-runtime`, `sentinel-core/src/lib.rs`, `sentinel-process` | runs, their events, children | submit, cancel, reconcile after restart | `RunLifecycle` |
| Desktop bridge | `apps/desktop/src-tauri` | contexts of Codex and Claude runs, approvals, forwarders, the set of busy projects | start, watch, cancel, decide; create, remove, reconcile worktrees; inspect changes | `RunContexts`, `ManagedWorktrees`, `ChangeInspection`, `TextualDiff`, `ExtractionBudget` |
| Git | `sentinel-git` | V1 worktree directories | create, list, remove, inventory, diff | `ManagedWorktrees`, `ChangeInspection` (what each command finds or does) |
| Probe, test agents | `sentinel-probe`, `sentinel-fake-agent` | none | diagnostics, fixtures | no |

How they interact: the macOS app writes JSON requests to the bridge's stdin; the
bridge's only thread takes them one by one and blocks on the supervisor; the
supervisor calls review, validation, worktree and adapter code, all of which
write the store; the store's change notification comes back to the bridge as a
message and makes it call `reconcile_progress`. Provider children, and the tokio
tasks that read them or run API completions, write events and sessions
meanwhile. In the desktop application, commands of several windows run at the
same time and share the store, a map of active runs and a set of busy projects.
The database and the disk are the only things a restart finds.

What is hard:

* the host dies between any two writes of a call (approval then task,
  cherry-pick then row, session then task, `git worktree add` then row);
* provider processes are not killed when their handle is dropped, so they may
  edit the tree, and store events, after nobody owns them;
* the tree, the target branch and the findings change between the moment they
  were read and the moment they are acted on, hence digests, generations and
  repeated readings;
* several actors end the same thing: a run exits, is cancelled and fails at
  once; a request is answered, times out and loses its child at once;
* an answer that comes before the one it depends on; a stream that is cut inside
  a line or a character;
* a repair, review, save or stop that fails halfway leaves rows and files in
  states the next call must cope with;
* a client that lost an answer does not know whether its request ran.

What makes each part correct: the store is never asked for an illegal
transition; nothing passes the gate with an open blocker; what is released is
what was reviewed, and that is what was validated by checks that passed; the
target branch gets the work once; an approval is used once, for what it was
given; recovery has no owner; stages end; a request has its effect once and its
answers agree; a run ends once, for the first reason, and its history is what
the window shows; rows and disk agree; what is shown of a change was there.

## 2. Modules

| Modules | About |
|---|---|
| `Lifecycles` | the transition tables, as functions from a state to its successors |
| `HumanGate` | abstract: what a task promises the human |
| `TaskWorkflow`, `MCTaskWorkflow` | one task from start to end, with everything that acts on it; it implements `HumanGate` |
| `TaskWorkflow_proof` | its gate, pick and ownership; the refinement; what its stages rely on |
| `BridgeRequests`, `RequestLedger`, `RequestLedger_proof` | what the macOS application may ask of its bridge; the application, the bridge process and the durable requests between them |
| `MCApplications` | `RunContexts`, `RequestLedger` and `TaskWorkflow`, one at a time, with what must go on in them |
| `MCRequestLedger`, `MCRunContexts` | `RequestLedger` and `RunContexts` for the runs that find a violation |
| `RunLifecycle`, `RunContexts` | one run of the desktop application; the contexts and approvals around it (`RunContexts` extends `RunLifecycle`); `RunContexts_proof` |
| `ManagedWorktrees`, `ChangeInspection` | the worktrees of a project and the inspection of what changed in one (`ChangeInspection` extends `ManagedWorktrees`); `ManagedWorktrees_proof` |
| `TextualDiff`, `ExtractionBudget` | how a diff is summarized, and what its extraction may cost |
| `TaskWorktrees`, `ReviewSnapshot`, `ValidationChecks`, `RepairRounds`, `ActionAuthorization` | parts that `TaskWorkflow` takes as one step each, step by step |
| `MCWorktrees`, `MCWorktrees_proof` | the two rows above and the worktrees of a project, one at a time; the parts of a task are proved there |
| `EventLog` | the numbered events of a task, used by the next two |
| `AppServer`, `AppServer_proof`, `CliSessions` | a Codex connection; Claude and OMP processes |
| `ApiRun`, `ApiRun_proof` | the run of an API provider and the call that stops it |
| `ChatStream`, `ProviderSettings`, `ModelCatalog` | a conversation over HTTP; the settings; which models may be used |
| `MCProviders`, `MCProviders_proof` | the three rows above, one at a time; `CliSessions`, `ProviderSettings` and `ModelCatalog` are proved there |

`TaskWorkflow` takes a call of the supervisor apart and leaves out who asked for
it; `RequestLedger` has who asked, and makes the call one step (`Call`). What is
one step of `TaskWorkflow` is taken apart in turn: its `RunProfile` by
`ValidationChecks`, `CheckEvidence` by `RepairRounds`, `ReviewReturns` by
`ReviewSnapshot`, `CreateWorktree` by `TaskWorktrees`, `TurnCompletes` and
`ApiRunFails` by `AppServer`, `CliSessions` and `ApiRun`. These share no
variables with it, and the abstraction is by reading, not by refinement.

### TaskWorkflow and the code

A supervisor call awaits providers, git and the store. `pc` is the point the
running call has reached, so every await that matters is a place where the
host may die and where a provider, an orphaned process or a committer may act.
`idle` means no call runs (the bridge runs one at a time), `down` that there is
no host. Each step between two values of `pc` is one stretch of code that
writes one thing that survives; the small reads and writes inside it are one
action.

| Variables | Code |
|---|---|
| `lc mode kind wt` | row of `v3_tasks`; the worktree row |
| `impl aux apiRef` | rows of `v3_sessions`: the implementer's, the others' lifecycles, whether the API repair reference exists |
| `turnDone` | a `TurnCompleted` event exists (`implementer_turn_completed` looks for any) |
| `vals gen genTree genHead` | validation batches; the latest review generation, and the tree and the HEAD it captured |
| `findings rounds failed retries` | review findings, repair rounds, stage-failure and retry artifacts |
| `packet approvals integ` | the latest final packet, `final_git_action` approvals, the integration row |
| `tree head target merged` | the worktree's contents; its HEAD, a commit with the tree it was made on; how many commits the target branch has; the commits that were cherry-picked onto it |
| `turn orphan` | the provider process: working, and owned or not |
| `owned lives` | the supervisor's `owned` map; how many supervisors were built |
| `pc cands expect was` | locals of the running call |

The action groups at the end of the module follow the supervisor's functions:
`Start` (`start_with_roles`, `start_direct_edit`), `Implement`
(`reconcile_interrupted_omp_runs`, `reconcile_finished_api_runs`, the
Implementing arm of `reconcile_progress`), `Validate`, `Review`, `Repair`,
`Gate`, `Integrate` (the stages), `User` (`decide_final_approval`, `stop`,
`retry_review`, `retry_interrupted_omp`), `Host` (shutdown, crash, build,
re-selection), `Recover` (`enter_recovery_after_restart`), and `Provider` for
what happens outside the supervisor.

Abstractions, all of data: a tree is a number that an edit increments; a digest
is what it hashes; a blocker is its summary and file, an element of `Issues`,
and `Stray` ones name a file outside the diff; non-blocking candidates never
change control and are left out. A commit is the tree it was made on and the tree
it holds, which is what a cherry-pick brings; git is asked for one commit, never
for a range. `integrate_verified` commits on whatever HEAD is there and picks
that commit. Providers of a kind in `Committers` commit in the worktree whenever
they work; an API provider has Sentinel's file tools and no shell, so it cannot. Actions that are a whole function's tail
(`Return`) include its artifacts. A step reads the rows it writes when it
writes them; the optimistic version check of `update_task` is not modelled here
(it is in `ApiRun` and `ActionAuthorization`).

Left out: damage to the worktree's identity (`reopen` refusing, which is in
`TaskWorktrees`), storage faults other than the unique constraint of API repair
sessions, a failing `ActionAuthorizationGuard::issue`, a repair role that
differs from the implementer's, and tasks other than the one modelled.

`HumanGate` is what remains for the human: `current` is the evidence (tree,
head, generation and findings), `open` the approvals that are pending, `verdict`
the answer on the latest one, `finalized` the task's end and `landed` the length
of `merged`. The mapping is `Promise` at the end of `TaskWorkflow`, and the
property `HumanDecides` says that every step of the workflow is one of `Work`,
`Ask`, `Answer`, `Finalize`, `Land`, or a stutter.

### RequestLedger and the code

| Variables | Code |
|---|---|
| `rows` | `v3_supervisor_requests`: what the id was reserved for, and its lifecycle with the outcome in `response_json` |
| `version dirty` | what a snapshot shows of the store; an undelivered message of `subscribe_v3_changes` (one that lagged is delivered once) |
| `stdin channel stdout` | the pipe to the bridge, its `mpsc` channel, the pipe back |
| `proc lives` | the child process as the app knows it; how often it was started |
| `subscribed last pc current` | locals of the bridge's loop |
| `gates sending shown notice stopped` | `TaskSubmissionGate`, `AttentionActionGate`, `SettingsMutationGate`; `taskSubmission` is `.sending`; `attention`; `availabilityMessage`; `stopped` |
| `used sends` | ids sent, and how many requests |
| `calls answers` | history: calls of the supervisor, answers written |

An intent stands for a request kind with its fingerprint. All kinds of mutation
share the shape reserve, call, complete, answer; they differ in what they do with
a row that is pending or another intent's. `start_task`, `attention_action`,
`set_repository` and `provider_settings_mutation` answer and stop
(`RefuseRequest`);
`save_quick_prompt_preferences`, `retry_interrupted_omp` and `retry_review` go on
to complete the row with a rejection (`RejectLoosely`), so a request that was
called and not answered may end up stored as rejected. `AcceptanceIsFinal` says
how far one can rely on an answer in spite of that: accepted is true and final,
rejected does not mean that nothing happened. The last two kinds have no sender
in the Swift sources.

The app never repeats an id (it takes a fresh UUID each time); the ledger is
written for a client that does, and its tests resend, so `Resend` is in the
model. A store that fails to reserve a row is answered as a conflict
(`reserve_mutation` maps every error to one), in words that read as a refusal:
`Refused` has it at any time, so a request that was accepted may be told that it
conflicts when it is sent again. `AcceptanceIsFinal` allows this one answer, says
that it needs a store that fails, and excludes every other contradiction.

An `error` answer names no request, so the gate of a request whose completion
failed stays shut until the process ends, with an error shown: `GateSettles`
allows for it. When the process ends the app makes two of its gates anew; the
third, of task submissions (`Kept`), it opens only while a submission is shown as
on its way (`sending`). A second submission while the first waits is refused
and takes that away (`SubmitBusy`): `GateSettles` leaves such a gate out, and
`GatesOpenAtTheEnd`, which does not, is finding 6.

Reading queries other than the attention snapshot are left out, and so are
failures to read the store. Quitting closes the bridge's input; the two-second
fallback that terminates it is `Crash`.

### RunLifecycle, RunContexts and the code

| Variables | Code |
|---|---|
| `status events` | the run's rows in `runs` and `run_events` |
| `seq rpc ev` | locals of the runner task (`RunOrchestrator::run`, `run_codex`): number, place, `RunOutcomeEvidence` |
| `entry command outcome` | the map of active runs, the runner's control channel, what waiters get |
| `parent code kids output lines` | the child, its process group, its unread output |
| `fw live lagged shown` | the desktop's forwarder, the broadcast receiver, the window |
| `ctx ask audits` | `codex_run_contexts` or `claude_run_contexts`, an approval, its audit |
| `start watch watched cancel cancelled deciding` | the commands that run, and the rows they read before an await |

The runner writes an event and publishes it in one step: who listens dies with
the runner, so nobody could see the moment between. What the runner waits for
(a command, a line, the exit, the end of the output, the group) and each signal
it sends is a step. A restart is three: the application dies (`Crash`), Codex
contexts are reconciled, and then approvals, before anything is served. Nothing
reconciles the rows of the runs themselves.

### ManagedWorktrees, ChangeInspection, TextualDiff, ExtractionBudget and the code

`ManagedWorktrees` has the rows of `projects` and `managed_worktrees`, what the
disk says of each worktree (`leaf`, `meta`, `at`), the set `worktree_projects`
(`busy`) and the place of each command that may run (`making`, `removing`,
`rec`, `leaving`). Every command of git is a step, and so is every write of a
row, which names the state it expects. `Outsider` is everybody else: commits,
deleted directories, pruned records, another repository at the path.

`ChangeInspection` adds the inspected file and the readings of an inspection.
The inventory's two snapshots with their staged and unstaged listings, the three
passes of the classification and the two readings of a diff are steps; the
inventory inside a classification is one. `seen` is what the file was since the
inspection began; `ShownWasReal` compares the answer with it.

`TextualDiff` is `parse_private_diff_pair`: git's output for a staged and an
unstaged change of at most `MaxLines` lines in at most `MaxHunks` hunks, as
records, each line read as a header, a hunk, a body line or a marker by what it
looks like. Of a text the model has what it may be taken for. `Mistakable` texts
are those the parser takes for framing or for a file that is binary; what it makes
of them is modelled, and what the grammar says of them is `PayloadIsProtected`,
finding 7.

`ExtractionBudget` has the budgets of two requests with their limits, the
allocations and the tokens; in this version only tests call that code.

### The parts of a task, and the code

| Module | Variables | Code |
|---|---|---|
| `TaskWorktrees` | `row outcome merge approval` | `v3_task_worktrees`, its cleanup outcomes and merge preparations, the approval of a discard |
| | `dir branch tree main` | the worktree's path, the task's branch, the tree, the primary checkout |
| | `call late lost touched` | the call that runs and what it has read; histories |
| `ReviewSnapshot` | `content generation read root` | the tree by part, the validated generation, the call's readings, the review root and its permissions |
| `ValidationChecks` | `checks made` | `v3_validation_results` with their executions; the checks behind each generation |
| | `profile runner` | `run_profile_with_generation` and `execute`: the step, its outcome |
| | `child orphans channel reading kept exited` | the child, what it left in its group, the channel of its two readers, the bytes kept of each stream |
| `RepairRounds` | `findings rounds gens sent` | findings, rounds, generations, `repair_handoff` artifacts |
| | `code turn heard conclusion` | the tree; the running `prepare_evidence` with its nested `handoff`; the last review; what the call came to |
| `ActionAuthorization` | `issued audits` | `v3_approvals` with their version, `authorization_audit` artifacts |
| | `recovering standing current caller` | the task's recovery condition, the worktree's row, what the context would be now, the calls |

`RepairRounds` takes any reviewer and any implementer, which is what the crate is
written for: the supervisor passes it a reviewer that reports nothing and an
implementer that always fails, so that in production its rounds are only run by
`TaskWorkflow`'s own repair stage; the crate's tests run them. A human may judge
a finding between any two calls, and within a call wherever the next step reads
a disposition.

`ValidationChecks` keeps two bytes of a character apart (`wide`) because `append`
cuts at a byte; a cut inside a character ends the host. Once a line could not be
read, or both streams have ended, the child is waited for without limit, so no
property says that a check ends. The supervisor never uses the cancellation
channel; `CutShort` has it because the runner does. Descendants that leave their
process group are not modelled.

### AppServer, CliSessions, ApiRun and the code

`AppServer` is one connection: the child (`server pipe heard told`), the two
tasks that end it (`eof watch`), the bounded map of pending requests (`pending
reply`), the caller with its turn (`caller asking turn started`), the channel to
the worker (`queue`) and the worker's state (`held buffered seen seq`). Requests
have a time limit of their own, and `initialize` and `interrupt_turn` one around
it, which leaves the entry in the map (`Forget`).

`CliSessions` has any number of Claude and OMP processes of one task, each with
its child, reader and caller; the flags of `EventState` (`ready record completed
cancelling count`), OMP's lock around the creation of its session, and the store's
events of the task. A Claude line may name another session than the one before
(`renamed`), which is then looked up or created: a row for each id named. Dropping
a process stops nothing.

`EventLog` is `append_event`: a number that is not above the last is refused.

`ApiRun` has three actors: the loop (`loop round calls outcome`), the worker, and
`stop`; the cancellation handle (`flag woken`); the rows of session and task with
their versions, and what each actor has read of them.

### ChatStream, ProviderSettings, ModelCatalog and the code

`ChatStream` sends each line of a reply in four units and cuts chunks anywhere.
`acc` is the accumulator of `openai_chat.rs` or `gemini.rs` with the events it
told; `messages` is the conversation from which the next request is built. A text
is named by the line that holds it, and a call's arguments are two halves.

`ProviderSettings` has the file, its copy, the candidate, the temporary file and
what the supervisor routes by. `UpsertCustom`, `RemoveCustom`, `SetEnabled`,
`SetModel`, `SetWorkflow` and `ChangeKey` are the bridge's mutations, each
followed by the same steps: check, temporary file, replace, remember, apply.

`ModelCatalog` is the registry's preflight: the listings it reads of Codex (page
by page) and OMP, Claude's login, and the judgement of each selection, while
what an account offers changes.

### Properties

Workflow (`TaskWorkflow`):

* `GateIsClean` - past the gate every blocker ever recorded is settled, and
  there is a generation.
* `ReleasedTreeWasReviewed` - what was cherry-picked is a commit of the tree of the
  review generation, made on the very HEAD that generation recorded; it brings the
  whole change from the base commit, unless the provider may have committed a part
  of it itself; what was finalized was approved with the generation's tree.
* `PickedAtMostOnce` - one cherry-pick over crashes and retries.
* `RecoveringHasNoOwner` - a task in recovery is owned by no supervisor.
* `StageHasQuietTree` - a stage does not look at a tree the turn is changing.
* `RepairHasWork` - the repair stage always finds an unsent confirmed blocker.
* `StoreNeverRefuses` - every lifecycle write of tasks, findings and rounds is
  in its table.
* `HumanDecides` - `HumanGate` is implemented.
* `ReviewSettles`, `TurnIsConsumed` - stages end.

Requests (`RequestLedger`):

* `CalledAtMostOnce` - one call per request id, and for one intent only.
* `AcceptanceIsFinal` - an accepting answer is backed by its one call, and the
  ledger says so for ever; no other answer to that request, from before or after,
  contradicts it, but for the conflict a failing store is reported as.
* `GateSettles` - a gate of the client opens, or an error is shown, or the refusal
  of a second submission is.
* `ViewConverges` - a connected client ends up with the store's latest version.

Runs (`RunLifecycle`, `RunContexts`):

* `OneEnding` - the row is what the history says, the evidence that came first
  decides, and only a store that refuses leaves a run open.
* `ShownIsHistory` - the window has a prefix of the stored events, however far
  the live channel lagged.
* `NothingLeftRunning` - a run that is over and reported no failed clean-up left
  no process.
* `EndedContextEndsRun` - a context that succeeded has a run that completed and
  was never cancelled; one that is over leaves no run going on untold.
* `SettledStays` - a context that is over, and an approval that is decided, stay
  as they are, whoever holds an older row.
* `CancelSettles`, `EndIsShown` - cancelled runs end; the end is shown.

Worktrees and what is read of them:

* `OneHolder`, `RowsMatchDisk`, `BrokenStaysBroken` (`ManagedWorktrees`) - one
  command holds the project; what a command made has a row, what is "ready" is
  there unless others were at work, and while nothing goes wrong no row says
  that a worktree is damaged; a broken worktree is never usable again.
* `ShownWasReal` (`ChangeInspection`) - what is shown of a file is what it was
  at one moment of the inspection.
* `ExtractionIsExact` - `SummaryIsTheChange` (`TextualDiff`: the summary has the
  change's own numbers and is withheld only of what is not to be shown; of a change
  with a mistakable body, a side's numbers are the real ones or none) and
  `LedgerIsExact` (`ExtractionBudget`).
* `TreeIsAccountedFor` - `DiscardIsJust` and `RecordIsBacked` (`TaskWorktrees`):
  nothing goes that was not approved to go, but for what was committed after the
  head was compared; what is recorded as ready can be opened.
* `GateIsSound` - `ChecksAreBacked` (`ValidationChecks`: a generation rests on a
  whole run of checks that passed, and what was cut short does not go on),
  `SnapshotIsTheGeneration` (`ReviewSnapshot`), `RoundsAreSound`
  (`RepairRounds`: each finding is handed over once, a repaired one was repaired
  and validated, a tree is ready only as its last review saw it) and `OneWinner`
  (`ActionAuthorization`: an approval has one winner and keeps its answer).

Providers:

* `TurnRecorded`, `RequestsSettled` (`AppServer`) - what the child says of a turn
  follows its start in the log, and its end is not lost; a request is settled
  with what was said, and forgotten.
* `ProcessIsAccountedFor` (`CliSessions`) - an outcome is what was read; only
  overlapping processes lose events; a session is created once for each id named.
* `CancelBounds`, `RunSettles` (`ApiRun`) - a cancelled run asks once more at
  most; a stop that went well is not overwritten.
* `ChatIsFaithful` (`ChatStream`) - the answer is the lines that came, what was
  told is the answer, and the next request pairs each call with its result.
* `SettingsAgree` (`ProviderSettings`, `ModelCatalog`) - file, memory and
  supervisor agree however a save fails; a task starts with models that were on
  offer after its preflight began.

## 3. Runs

| Run | Instance | Shows |
|---|---|---|
| `AnyProvider` | all kinds and modes, 2 blockers (1 outside the diff), 1 round, 1 retry, 1 edit, 4 batches, 1 foreign commit, 2 lives, orphans, checks that edit; 4.6 M states, 100 s | the safety properties that need no assumption on the environment, and `HumanGate` implemented |
| `QuietProvider` | no OMP, no orphans, checks that only read, Claude may commit; 2 blockers, 2 rounds, 2 edits; 8.5 M states, 130 s | released = reviewed, quiet trees, repairs with work |
| `Applications` | three instances, one of which moves, fairness; 0.5 M states, 130 s | desktop runs: one ending, history and window agree, nothing left running, decisions stay; bridge: the four properties of the ledger; supervisor: reviews end, turns are consumed |
| `DesktopWorktrees` | eight instances, one of which moves; 2.1 M states, 120 s | rows and disk, readings, diffs and budgets, discards, and what a gate rests on |
| `Providers` | six instances, one of which moves; 3.4 M states, 150 s | turns, requests, outcomes, cancellation, conversations, settings, catalogs |
| `StandingBlocker`, `SecondApiRepair`, `StuckRecovery`, `ClaudeRestart`, `ReviewAgain`, `DoubleSubmit`, `LiteralPayload` | violations | findings 1 to 7 |

Bounds of the workflow. One round and one retry already give repair, failed
repair, retried review and exhausted rounds; `QuietProvider` has two rounds so
that a second blocker waits behind the first. Its blockers are alike, so it is
checked up to their symmetry, and it has two edits so that a provider can commit
one and leave the other. Four batches are two validations
with their final verifications, or three validations. One edit tells a reviewed
tree from a later one, and one foreign commit a moved target from an unmoved
one. Two lives are one restart; a second restart finds only states the first one
left. `MaxVals` is in the guards of `StartValidation` and `RetryReview`,
`MaxTree` in those of the edits, `MaxTarget` of `TargetMoves`, `MaxLives` of
`Boot` and `ReselectRepository`. The program really stops in terminal
lifecycles, so deadlock is not checked.

`Applications` chooses which of the three moves in the initial state (`focus`), as
the next two runs do. Its supervisor has manual and direct-edit tasks of every
provider, one blocker, one round, one retry, one edit, three batches, two lives
and a Claude that may commit.

Bounds of the ledger, in `Applications`. Two requests over two ids are a request
and its resend, a reuse of the id for the other intent, and two independent ones;
one change of the store comes under one request, not under two, since it has no
bearing on the table; there is one restart, a gated intent whose handler refuses
and a loose one without a gate. Ids are alike, so one (`FirstId`) is always used
first. `MaxSends` is in the guards of `Submit` and `Resend`, `MaxVersion` in those of `Change`'s users,
`MaxProcesses` of `Connect`. The app may quit, so the system may stop.

Bounds of the desktop's runs, in `Applications`: every kind of run, one line of
output, one fault, one restart, one cancellation of a context. A channel of two events already lags behind a run
of one line; one fault meets each write and each wait of the system; two windows
race for one approval. A run, and the application, may end, so the system stops.

`DesktopWorktrees` and `Providers` choose an instance in the initial state
(`focus`) and let it move alone: the instances share nothing, so interleaving
them would multiply their states and add no behaviour of any. In
`DesktopWorktrees`:

* the desktop's project begins in one of two ways: with two worktrees to come,
  nobody editing, and one fault, one restart and one act of somebody else; or
  with one worktree kept from before and three edits during an inspection. A
  file that is changed and changed back between each two readings deceives an
  inspection, which takes four edits for the inventory and five otherwise:
  `ShownWasReal` excludes those, and was also checked with four edits (2.9 M
  states);
* diffs have up to three lines in up to two hunks on each side; budgets up to
  four calls on two budgets over two paths;
* the worktree of a task has two commits, two acts of others and two failures;
  a review's tree three writes and two reviews;
* a profile has up to two checks, with two lines between them, a stream that
  keeps three bytes, one failure of the store or end of the host;
* rounds have two issues, two findings, two versions, two calls and one lapse;
  two approvals have two callers and two contexts.

In `Providers`:

* a Codex connection begins in one of three ways: to be initialized; with two
  turns to go, two frames and a store that may fail; or with a resumed thread,
  one turn, three frames and a store that works. Three requests are a turn and
  two interrupts, or two turns and one. A queue of two and one pending request
  are the smallest that fill;
* of the command lines, which may name a second session in any line, one process starts alone, or runs alone with three lines
  to come, or runs while another starts;
* an API run has three rounds of two calls and one fault of the store;
* a conversation has two requests; a reply of four lines comes only cut once at
  each half line, a shorter one is cut anywhere;
* settings have two versions, one failed save or restart; they begin without a
  file, with one of an older format, or with one that has a custom provider;
* a catalog has three models on two pages and one change of the offer; the last
  selection of a preflight is a reviewer, the only one with an effort.

Their counters are spent in the end, so the systems stop.

Assumptions of `QuietProvider`, each with what breaks without it: an OMP retry
does not forget the `TurnCompleted` of an earlier attempt, so its task may be
validated while the new process edits (`implementer_turn_completed`, 1542); an
orphan edits whenever it likes; a final verification that edits the tree makes
the manual packet bind a tree no reviewer saw (`prepare_evidence`, 861-913:
the generation is compared before the profile runs again, and the digest of the
packet is computed after).

Fairness. `FairSpec` of `TaskWorkflow` assumes that a call, once made, goes on
and that an idle host keeps calling `reconcile_progress` (the bridge does so on
every store change and on every subscription); a check that never ends (see
section 4) is outside it. Users, providers, crashes and reboots owe nothing.
`ReviewSettles` leaves automatic integration out, see section 4. In
`RequestLedger` the threads of a running bridge go on (reader, forwarder, loop),
and so does the app's main queue: it reads what is there, gets the termination
handler's call and starts the bridge again a second later. Nobody has to send,
quit or die. Of the desktop the runner, the forwarder and the commands go on,
which are tokio tasks that wait for nothing without a limit once a run is
cancelled; the child and the user owe nothing.

The liveness properties have the form `[]<>~P` where `P` is what must not last: a
task under review, a turn that is over and not consumed, a gate that waits, a
cancelled run that has not ended. It says that `P` never holds from some moment
on, which is what is meant: each time it began it has ended.

## 4. Findings

1. `StandingBlocker`: a repair that fails leaves its round active and its
   finding bound to it. When the review of the same tree is retried and reports
   the blocker again, `reconcile_repaired_findings` dismisses the old finding
   and `persist_candidates` takes the new report for a duplicate. The task goes
   to the gate with the blocker standing.
2. `SecondApiRepair`: all API repair sessions of a task have one reference, and
   the store's unique constraint refuses the second.
3. `StuckRecovery`: a Claude, OMP or API task that a restart finds unfinished
   stays Recovering; only OMP has a retry, and `stop` is not offered.
4. `ClaudeRestart`: the desktop application reconciles Codex contexts when it
   starts, and not Claude's, although the operation exists.
5. `ReviewAgain`: a review makes room with `remove_dir_all` on a root that the
   review before it has made read-only, which an unprivileged host on unix may
   not remove. There, each second review of a task is refused, so that findings
   1 and 2, which need one, show only where the removal works.
6. `DoubleSubmit`: the text field submits again while a submission is on its way.
   The second is refused and shown in the place of the first; when the bridge
   process then ends, the app no longer sees a submission on its way, and the gate
   waits for ever for the answer of a process that is gone: all later tasks are
   refused as already in progress.
7. `LiteralPayload`: the grammar of the private diff says that the prefix protects
   a line that begins like framing. The parser looks for framing first: a deleted
   line that begins with `-- `, or an added one that begins with `++ `, makes the
   change malformed, and a text that holds `Binary files ` one without lines.

Seen while modelling, without a run of their own. Supervisor and bridge:

* `block_auto_integration` (1848) blocks only an Integrating task. When the
  target moved while an automatically integrated task was reviewed, the task is
  still Reviewing and is reviewed again on every store change.
* The approval and the task are written in two transactions (1282-1302), so a
  crash between them and a restart give a gate with nothing to decide;
  `decide_final_approval` does not look at the task's lifecycle.
* A graceful shutdown at the gate loses the gate (1456: the task becomes
  Recovering, and the restart then sees Recovering and not ReadyForHuman).
* A commit the provider makes itself is part of what is validated and reviewed, which
  compare with the base commit, and not of what is integrated: `integrate_verified`
  picks the one commit it makes on top (worktree 97-139). If the provider left
  nothing uncommitted the integration is refused. The documents do not say that
  providers do not commit, nor that the whole change is brought.
* A failed stop leaves the session Cancelling and cannot be repeated; a Codex
  stop before its turn exists does nothing (`task_start.rs` 52); a direct edit
  whose provider does not start stays Preparing; a retried OMP task keeps its old
  session in RecoveryRequired, and `prepare_evidence` then refuses the gate for
  ever.
* `build_supervisor` does not validate the saved workflow, only a later change
  is; discovery of Codex creates a task row in the repository it queries.
* The desktop's `v3_desktop.rs` (141) looks for approvals of kind
  `v3_final_git_action`, while the guard issues `v3_action:final_git_action`: it
  never offers a final approval.

Review, validation and worktrees:

* A call that fails after a finding was given its round leaves it ConfirmedBlocking
  with a round: each later call is refused as a duplicate handoff until somebody
  dismisses it, and the round stays open.
* An approval may be consumed after the task entered recovery, between `validate`
  and the write; a crash after the write leaves no audit.
* `append` cuts a check's output at a byte: inside a character it panics.
* A check whose output could not be read, or who closed it, is waited for without
  limit or cancellation while nothing reads its channel; the descendants of a
  check that ended are left alone.
* A part of the tree that is changed and changed back between the two readings of
  the evidence is not refused.
* A commit between a discard's comparison of the head and the removal goes with
  `branch -D`. A storage failure after the removal leaves the row "ready" and
  then "recovery_required", never "discarded"; a crash between `git worktree add`
  and its row makes every later creation a conflict; the approval of a discard
  is not consumed, and one that is recorded as discarded is answered before the
  approval is looked at.
* `diff_at_base` (593-655) takes the second record of a rename for an entry of
  its own.

Adapters:

* Codex: a notification without a thread that comes while no turn is being
  started is held back and never stored; identical notifications are dropped as
  duplicates; a time limit around `initialize` or an interrupt leaves its entry
  in the map; after the exit's `Clear`, unread output may be stored before the
  start of the turn.
* OMP: garbage after `agent_end` records a failure and a completion. Dropped
  processes go on, and take numbers their successor counts on.
* API: the run that is aborted after five seconds is not awaited, and may write
  against the stop; the wake-up of a cancellation is lost if nobody waits yet;
  the HTTP worker is detached.
* Streams have no limit of time; replies that are no stream cannot be cancelled; a
  stream that is closed cleanly without a finish reason counts as complete; calls
  without an id get an empty one, and the next request is refused after the tools
  ran; an id that is repeated in each fragment is concatenated; a Gemini reply
  that is no stream tells nothing.
* Settings: a temporary file that could not be removed blocks the saves of that
  process; what was stored may be answered as not accepted.

Desktop:

* A change of the mode, or of an empty file, has no hunk and is refused as
  malformed. A token of a budget that is dropped keeps its charge.
* The rows of V1 runs are not reconciled at a restart.

## 5. Proofs

`TaskWorkflow_proof` proves, for all values of the constants:

* `TypeCorrect`: `Spec => []TypeOK`
* `GateSafe`: `Spec => []GateIsClean`
* `PickedOnce`: `Spec => []PickedAtMostOnce`
* `RecoveryUnowned`: `Spec => []RecoveringHasNoOwner`

from `Invariance`: `Spec => []IInv`. `IInv` is the four properties with what
makes them inductive. `GateInv`: no call that adds findings runs on a task past
the gate, a call beyond the evidence check runs on clean evidence, and a restart
remembers a gate only of a task whose evidence is clean. `PickInv`: nothing is
integrated but onto the commit the worktree was made from, and a pick moves the
target off it for good, whatever is committed in the worktree or validated anew.
`OwnerInv`: a supervisor under
construction owns nothing, and no call that takes ownership runs on a task in
recovery. The step is proved part by part (`TypeStep`, `GateStep`, `PickStep`,
`OwnerStep`), each with one step per action of `Next`. The assumptions are
those of the constants; nothing else is taken on trust.

`RequestLedger_proof` proves, for all ids, intents and bounds:

* `RequestTypes`: `Spec => []TypeOK`
* `CallOnce`: `Spec => []CalledAtMostOnce`
* `AcceptedForGood`: `Spec => []AcceptanceIsFinal`

from `LedgerInvariance`: `Spec => [](TypeOK /\ LedgerInv)`. `LedgerInv` ties each
row to its history: a free row was never called (`FreeIsUncalled`), a call
belongs to its row's intent (`CallsAreReserved`), an accepted row was called
(`AcceptedIsCalled`), every answer agrees with its row (`AnswersAgree`: a conflict is with another intent's
row, or the store failed), and the mutation in hand has a pending row that nobody
has answered, but for conflicts of a store that failed (`Working`, `Unanswered`;
it is what makes the others inductive: between the call and its stored answer
nothing was said that an acceptance would contradict).

`ApiRun_proof` proves, for all limits and numbers of faults:

* `ApiTypes`: the control, the counters and the rows keep their types
* `CancelIsBounded`: `ApiSpec => []CancelBounds`
* `RunIsSettled`: `ApiSpec => []RunSettles`

from `ApiInvariance`. `CancelInv`: what a run may still do after a cancellation
is what it passed the check of its round for. `ReadsInv`: what an actor has read
of a row is not ahead of it, and is the row if nobody wrote it since, which is
what the version in each update buys. `StopInv`: once the session is marked only
its cancellation can be written, by either side. `EndInv`: as long as it is not
marked nobody but the run writes, and a stop that fails later, with a store that
works, has aborted the run.

It proves `KeepsPromise` as well: `Spec => HumanDecides`, the refinement, from
`AskInv`. The code says little about approvals: one stays pending over
restarts and retries, and a decision does not ask what the task is doing. That
no second question is opened beside the first follows from elsewhere: `TurnInv`
(nobody is asked before the implementer completed a turn, and the one turn of an
API run does not run again), `SessionInv` (a reviewed task has two sessions, so
that Codex is not resumed behind an approval, and a retried OMP session leaves
one to be recovered), `ModeInv` (who is asked is not integrated for) and
`OpenInv` (while a question is open, no call is about to open one). Each action
of `Next` is then an action of `HumanGate` or a stutter.

Last, it proves what the stages rely on:

* `StoreAccepts`: `Spec => StoreNeverRefuses`
* `RepairSupplied`: `Spec => []RepairHasWork`
* `StagesAreQuiet`: `Quiet` implies `Spec => []StageHasQuietTree`
* `ReleasedIsReviewed`: `Quiet` implies `Spec => []ReleasedTreeWasReviewed`

The first two follow from `StoreInv`: the lifecycle a call finds at its next step
(`PhaseInv`), although an API run or a restart may write it in between; rounds
are opened in order and the last is active while a repair runs (`RoundInv`); only
a confirmed blocker has a round, and between the settling of the repaired ones
and the next repair a confirmed one has none (`FindingInv`). `Quiet` is
`"omp" \notin Kinds /\ ~Orphans /\ ~ChecksEdit`, the assumption of the run
`QuietProvider`, whose constants meet it; section 3 says what breaks without
each of its parts. Under it, `TurnsInv` says whose turn may run when, `TreeInv`
that from the start of a review to its release the tree and the HEAD are the
generation's, that what is picked was committed on that HEAD, that a task with a
commit on the target branch gets no other generation, and that the HEAD of a
generation is the base commit unless the provider may commit; `ReleaseInv` that
the tree of an open or approved question is the generation's.

`RunContexts_proof` proves, for every kind of run, any output, number of windows,
restarts and refused writes:

* `TypesHold`, `OneEndingHolds`, `NothingLeftHolds`, `ShownHolds`,
  `ContextEndsWithRun`: the types, and four invariants of `Applications`
* `SettledForGood`: `Spec => SettledStays`

`ContextInv` relates the context's row to the run and to the rows its commands
hold (`MapInv`, `StartInv`, `HeldInv`, `AskInv`): the version tells whether the
row is still the one that was read. `RunInv` relates the runner to what survives
it: its place to the row (`StageInv`), the row to the history (`HistoryInv`), its
evidence to what it has written (`EvidenceInv`, `CancelledInv`), the end to the
evidence (`OutcomeInv`), and the child (`ProcessInv`) and the window (`ShownInv`:
what it has seen and what the channel holds are the two ends of the history) to
them.

`ManagedWorktrees_proof` proves, for any set of worktrees, faults, restarts and
acts of others, with the inspections going on beside the commands:

* `ProjectIsExclusive`: `Spec => []OneHolder`
* `BrokenForGood`: `Spec => BrokenStaysBroken`
* `DiskIsAccountedFor`: `Spec => []RowsMatchDisk`
* `ShownIsReal`: `Spec => []ShownWasReal`

`HoldInv` is the exclusion among creations, removals, verdicts and inspections;
the project's entry is given back in a dozen places, and that none of them gives
back another's follows only from the exclusion itself. `BrokenInv` keeps the
verdict on a row that was listed broken. `RegisteredInv` keeps each row around
what is on the disk, `UndisturbedInv` what a command has checked as long as
nobody else was at work, and `CalmInv` says that as long as nothing went wrong a
row is between two states only while its command is at work.

`ShownInv` is the argument of the code that reads everything several times. At
each point of an inspection, with its first readings in agreement, either some
file that was seen accounts for all of them, or there has been an edit between
each two: `AtLeast(n, agrees)` says that there were `n` edits, and one more
unless the file still is as it was last read (`InventoryInv`, `CountsInv`,
`DiffInv`; `PlaceInv` is where the inspection is and how much it has read by
then). A section that the inventory calls unchanged is not counted: then the
readings to be deceived are those of the other section and of the inventory
before each, which come to the same number. For any number of edits and of
inspections this gives the bounds of `Deceiving`: four edits for the inventory,
five for a classification and for a diff.

`AppServer_proof` proves, for any number of turns, requests, frames and faults,
any room in the channel and in the map (`AppSpec` begins with a connection to be
initialized or one that resumes a thread, as the run does):

* `AppTypes`: `AppSpec => []AppTypeOK`
* `TurnsAreRecorded`: `AppSpec => []TurnRecorded`
* `RequestsAreSettled`: `AppSpec => []RequestsSettled`

from `AppInvariance`. `SettledInv`: what a request was settled with was said, and
an entry of the map has somebody waiting or was left by a limit of its own.
`SpokenInv`: nothing speaks of a turn nobody asked for. `HoldInv` is the core:
caller and worker share nothing but the channel, and from the moment a turn is
asked for until its start is stored, the channel is guarded (`Guarded`): either
the worker holds notifications back and only harmless commands are on their way,
or an activation is, and nothing of that turn lies before it. `OrderInv` and
`KeptInv` then follow what the child said of a turn: it is never in the log
before the start, and its completion is stored, on its way or held back as long
as no write was refused. That the completion is not dropped as a duplicate uses
the first place of a notification among those held back, which exists by
well-founded induction.

`MCWorktrees_proof` proves of the parts that a task takes as one step each, for
any commits, writes, reviews, issues, checks, approvals and callers:

* `TreeIsSafe`: `SplitSpec => []TreeIsAccountedFor`
* `GateStaysSound`: `SplitSpec => []GateIsSound`

from `SplitInvariance`: `SplitSpec => []SplitInv`. Each part has an invariant that
says what a call may rely on at each of its points, and a lemma for each of its
actions; `SplitInv` is their conjunction. `TreeInv`: the branch is behind the
head, a discard past its comparison of heads has a branch that is the approved
one or was moved since, and a row says more than the disk holds only if somebody
else was there. `ChecksInv`: the runner's row is open while its process may be
running, its outcome agrees with the exit code, and the checks of a run before
this one that were saved as passed are recorded as passed. `SnapshotInv`: what
was read of a path is what is there, unless it was edited twice since, which is
what the second comparison is for. `RoundsInv`: whose the last round is at each
point of a repair, and that what the last review saw is the version that is
acted on. `AuthInv`: the version of an approval counts its answers, and one
caller at most is between winning it and the audit. `SplitAssumption` says that
the bounds are numbers, that there is a version and a context.

`MCProviders_proof` proves, for any number of processes, lines, providers and
models:

* `ProcessesAreAccountedFor`: `Spec => []ProcessIsAccountedFor`
* `SettingsStayAgreed`: `Spec => []SettingsAgree`

from `ProvidersInvariance`: `Spec => []ProvidersInv`. `CliInv`: a session is
created once for each id, by whoever holds the lock or was the first to name it
(`SessionInv`); once the session is
there a reader stops only at the end of the output, or with a failure that was
stored or that the store refused (`ReaderInv`); of two processes that may store
events each is marked as overlapped, and one that is not has counted every event
of the task (`CountInv`), so that its next number is free.
`SettingsInv`: memory is what a new process would load, at every point of a save
and of its undoing. `CatalogInv`: what was read of a paged listing is what comes
before the cursor unless the offer changed (`PagingInv`), a catalog was on offer
since the preflight began (`FetchedInv`), and so was each selection that was
judged (`JudgedInv`). `ProvidersAssumption` says that the first process is one of
them, that it writes a line, and that a listing has two models.

An attempt at this proof changed the model. `OutcomeHasEvidence` used to say that
a process recorded as completed had its output read to the end. No invariant
gives that, and the case was outside the bounds: an OMP process writes its result
and then a line that is no frame; the reader stores a failure and stops, the rest
stays unread, and the process exits well, so that its completion is stored after
the failure (sentinel-omp 527-562 and 610-625). The property now says what is
true, that the output was read to the end or, of OMP, a failure was stored
before (or refused by the store); and the run `Providers` begins also with one process that has all of its
output to come, where TLC reaches it. A process that names a second session needed
one more exception: when its row is refused by the store, a Claude reader stops
with output unread as well, and the process has then lost an event.

The assumptions of every theorem are those stated with the constants, and `Quiet`
where it is named; nothing else is taken on trust. TLC checked each inductive
invariant before it was proved: those of a task on the instances of
`AnyProvider` and `QuietProvider`, `LedgerInv` on that of `Applications`, `ShownInv`
with six edits, the others on the instances of their runs.

Only model-checked:

* liveness, which is beyond the prover: `ReviewSettles`, `TurnIsConsumed`,
  `GateSettles`, `ViewConverges`, `CancelSettles`, `EndIsShown`;
* `ExtractionIsExact`, which compares what folds over the lines of a diff and
  over its bytes compute with what the lines say;
* `ChatIsFaithful`, which does so for the pieces of a stream and for the request
  that is put together from the messages;
* the types of the instances that move one at a time, `SplitTypeOK` and `TypeOK` of
  `MCProviders`: those of the parser, the budget and the stream are what the same
  folds compute. Of the others what the proofs need is in their invariants, and
  the types of `ApiRun` and `AppServer` are theorems.

The folds would need induction over data, which the installed provers cannot do.

## 6. Not modelled

* `sentinel-probe` and `sentinel-fake-agent`: tools and fixtures without state of
  the system.
* Several tasks at once. Reading the code suggests that only the most recently
  updated task is asked whether it is in recovery (supervisor 618-660), that
  direct edits of any repository count as active (397-433), and that two tasks
  may run in one checkout.
* The desktop's Codex session list and usage page (`codex_sessions.rs`,
  `codex_usage.rs`), its V3 views (`v3_desktop.rs`), the drift guardian and the
  evidence gate's reads: queries for display.
* Discovery of installed command lines, the macOS picker and its gates, views and
  shortcuts.
* What a tool of the API loop may touch (`api_tools.rs`), the three thin clients
  (`glm.rs`, `kimi.rs`, `openai_compatible.rs`), retries of the HTTP client.
* Of the worktrees: a checkout that a killed `git worktree add` left half done, a
  git error during reconciliation, a project that failed rows keep registered.
* External filters and attributes of git; the exact text of any message.

What is left to do: the refinement of the steps of `TaskWorkflow` by the modules
that take them apart, which section 2 leaves to reading; a module for several
tasks over one checkout.
