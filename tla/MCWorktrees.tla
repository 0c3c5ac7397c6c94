------------------------------- MODULE MCWorktrees ------------------------------
(***************************************************************************)
(* Worktrees and what is read of them, for TLC: the worktrees the desktop  *)
(* application manages with the inspection of their changes, the summary   *)
(* of a textual change, the accounting of what its extraction may cost,    *)
(* the worktree of a task, the checks that validate it, what its reviewer  *)
(* gets to see, the rounds of repair before an approval, and who may use   *)
(* one.  They share no state: in a behaviour one of the eight moves.       *)
(***************************************************************************)
EXTENDS ChangeInspection

CONSTANTS
  MaxLines, MaxHunks,                          \* of TextualDiff
  Paths, Budgets, MaxUsize, MaxText, MaxCalls, \* of ExtractionBudget
  MaxCommits, MaxOthers, MaxTrouble,           \* of TaskWorktrees
  Privileged, MaxWrites, MaxReviews, MaxFailures, \* of ReviewSnapshot
  Issues, MaxRoundsOfCall, MaxFindings, MaxVersions, MaxPrepares, MaxLapses, \* of RepairRounds
  Approvals, Callers, Contexts, MaxMoves,      \* of ActionAuthorization
  MaxSteps, OutputLimit, ChannelSize, MaxPrints, MaxRuns, MaxBreaks \* of ValidationChecks

ASSUME SplitAssumption ==
  /\ {MaxCommits, MaxWrites, MaxReviews, MaxFailures, MaxRoundsOfCall} \subseteq Nat
  /\ {OutputLimit, ChannelSize} \subseteq Nat /\ MaxVersions \in Nat \ {0} /\ Contexts # {}

VARIABLES
  focus, \* which of the eight moves
  change, summary,
  accepted, usage, bound, active, next, tokens, granted, calls,
  row, outcome, merge, approval, dir, branch, tree, main, call, late, lost, touched, others,
  trouble,
  content, generation, step, read, root, result, edited, writes, reviews, failures,
  findings, rounds, gens, code, turn, heard, sent, conclusion, spent,
  issued, audits, recovering, standing, current, caller, won, moves,
  checks, profile, runner, child, orphans, channel, reading, kept, exited, made, budget

Diff   == INSTANCE TextualDiff
Budget == INSTANCE ExtractionBudget
Task   == INSTANCE TaskWorktrees
Review == INSTANCE ReviewSnapshot
Repair == INSTANCE RepairRounds
Action == INSTANCE ActionAuthorization
Checks == INSTANCE ValidationChecks

diffVars     == <<change, summary>>
budgetVars   == <<accepted, usage, bound, active, next, tokens, granted, calls>>
taskVars     == <<row, outcome, merge, approval, dir, branch, tree, main, call, late, lost,
                  touched, others, trouble>>
snapshotVars == <<content, generation, step, read, root, result, edited, writes, reviews,
                  failures>>
roundVars    == <<findings, rounds, gens, code, turn, heard, sent, conclusion, spent>>
authVars     == <<issued, audits, recovering, standing, current, caller, won, moves>>
checkVars    == <<checks, profile, runner, child, orphans, channel, reading, kept, exited, made,
                  budget>>

-------------------------------------------------------------------------------
\* Nobody edits or inspects: the application is fresh, and everything else goes wrong.
Unedited ==
  /\ WorktreeInit /\ \A w \in Worktrees : rows[w] = NoRow
  /\ edits = MaxEdits /\ inspections = MaxInspections
  /\ kind = "text" /\ file = [index |-> 1, work |-> 0]

\* One worktree is kept from before and its file is edited; nothing else goes wrong.
Edited ==
  /\ WorktreeStart /\ Kept = {CHOOSE w \in Worktrees : TRUE}
  /\ \A w \in Worktrees : rows[w] # NoRow
  /\ edits = 0 /\ inspections = 0
  /\ outside = MaxOutside /\ faults = MaxFaults /\ boots = Boots

SplitInit ==
  /\ focus \in {"desktop", "diff", "budget", "task", "review", "repair", "action", "checks"}
  /\ InspectInit /\ IF focus = "desktop" THEN Unedited \/ Edited ELSE Unedited /\ project = "none"
  /\ Diff!DiffStart /\ Budget!BudgetStart /\ Task!TreeStart /\ Review!SnapshotStart
  /\ Repair!RoundStart /\ Action!AuthStart /\ Checks!ChecksStart

SplitNext ==
  /\ UNCHANGED focus
  /\ IF focus = "desktop" THEN Next ELSE UNCHANGED vars
  /\ IF focus = "diff" THEN Diff!DiffNext ELSE UNCHANGED diffVars
  /\ IF focus = "budget" THEN Budget!BudgetNext ELSE UNCHANGED budgetVars
  /\ IF focus = "task" THEN Task!TreeNext ELSE UNCHANGED taskVars
  /\ IF focus = "review" THEN Review!SnapshotNext ELSE UNCHANGED snapshotVars
  /\ IF focus = "repair" THEN Repair!RoundNext ELSE UNCHANGED roundVars
  /\ IF focus = "action" THEN Action!AuthNext ELSE UNCHANGED authVars
  /\ IF focus = "checks" THEN Checks!ChecksNext ELSE UNCHANGED checkVars

SplitSpec ==
  SplitInit /\ [][SplitNext]_<<focus, vars, diffVars, budgetVars, taskVars, snapshotVars,
                             roundVars, authVars, checkVars>>

-------------------------------------------------------------------------------
\* The types of the one that moves.
SplitTypeOK ==
  /\ focus = "desktop" => TypeOK
  /\ focus = "diff" => Diff!DiffTypeOK
  /\ focus = "budget" => Budget!BudgetTypeOK
  /\ focus = "task" => Task!TreeTypeOK
  /\ focus = "review" => Review!SnapshotTypeOK
  /\ focus = "repair" => Repair!RoundTypeOK
  /\ focus = "action" => Action!AuthTypeOK
  /\ focus = "checks" => Checks!ChecksTypeOK

\* A summary is of the change it was asked for, and a budget's ledger is exact.
ExtractionIsExact ==
  /\ focus = "diff" => Diff!SummaryIsTheChange
  /\ focus = "budget" => Budget!LedgerIsExact

\* A discarded worktree was approved to go, and what is on record was there.
TreeIsAccountedFor == focus = "task" => Task!DiscardIsJust /\ Task!RecordIsBacked

\* What is validated passed every check, what is reviewed is what was validated, what is
\* repaired is reviewed again and never sent twice, and the approval that follows has one
\* winner.
GateIsSound ==
  /\ focus = "checks" => Checks!ChecksAreBacked
  /\ focus = "review" => Review!SnapshotIsTheGeneration
  /\ focus = "repair" => Repair!RoundsAreSound
  /\ focus = "action" => Action!OneWinner

\* See TextualDiff, whose name this is.
PayloadIsProtected == focus = "diff" => Diff!PayloadIsProtected

\* See ReviewSnapshot, whose name this is.
ReviewAgain == focus = "review" => Review!ReviewAgain

===============================================================================
