---------------------------- MODULE ManagedWorktrees ---------------------------
(***************************************************************************)
(* The worktrees the desktop application keeps for one project: the        *)
(* projects and managed_worktrees tables (crates/sentinel-core), the       *)
(* directories and git's own records of them (crates/sentinel-git), and    *)
(* the commands that create, remove and reconcile them                     *)
(* (src-tauri/src/main.rs).                                                *)
(*                                                                         *)
(* A command holds the project's entry in a set in memory, looks at the    *)
(* disk and updates a row if it is still in the state it read.  Others     *)
(* commit, delete and prune meanwhile, git fails half way, and the         *)
(* application may die at any point.                                       *)
(***************************************************************************)
EXTENDS Naturals, Sequences, SequencesExt, FiniteSets

CONSTANTS
  Worktrees,   \* ids of worktrees
  MaxOutside,  \* bound: what others do to the repository and the directories
  MaxFaults,   \* bound: commands of git and writes of the store that fail
  Boots        \* bound: restarts

ASSUME WorktreesAssumption == IsFiniteSet(Worktrees)
ASSUME BoundAssumption == {MaxOutside, MaxFaults, Boots} \subseteq Nat

VARIABLES
  project,  \* its row: "none", "weak" (to be trusted again), "strong",
  known,    \*   and the fingerprint in it
  rows,     \* managed_worktrees: the state and the base commit
  repo,     \* the repository: its fingerprint now,
  tip,      \*   and its head
  leaf,     \* the directory of a worktree: "missing", "dir", "other",
  meta,     \*   does git have it on its list?
  at,       \*   the commit it is at
  busy,     \* worktree_projects: is the project in the set?
  making,   \* create_project_worktree: where the call for an id is,
  base,     \*   and the commit it resolved
  removing, \* remove_project_worktree: where the call for an id is
  rec,      \* reconcile_project_worktrees: where it is,
  listed,   \*   the rows it has still to visit, as it read them,
  verdict,  \*   and what it makes of the first
  leaving,  \* unregister_project: "idle", "counted", "swept"
  outside, faults, boots  \* what happened so far

projectVars == <<project, known>>
diskVars    == <<repo, tip, leaf, meta, at>>
makeVars    == <<making, base>>
recVars     == <<rec, listed, verdict>>
bounds      == <<outside, faults, boots>>
worktreeVars == <<projectVars, rows, diskVars, busy, makeVars, removing, recVars,
                  leaving, bounds>>

-------------------------------------------------------------------------------
States == {"creating", "ready", "removing", "removed", "failed", "missing",
           "identity_changed", "retained_dirty"}
\* What no later command makes usable again.
Broken == {"failed", "missing", "identity_changed", "removed"}
NoRow  == [st |-> "none", base |-> 0]

Unregistered == project = "none"
Kept == {w \in Worktrees : rows[w].st \notin {"none", "removed"}}

Fault == faults < MaxFaults /\ faults' = faults + 1

\* strict_project_for_worktree: the row is trusted and the repository is still
\* the one it names.
StrictProject == project = "strong" /\ repo = known

\* validate_managed_leaf and worktree_metadata_lookup: a real directory, which
\* git lists; inspect_repository: of this repository and at the base commit.
Listed(w)     == leaf[w] = "dir" /\ meta[w]
Inspects(w)   == repo = known /\ at[w] = rows[w].base
Validated(w)  == Listed(w) /\ Inspects(w)

\* Mutant: the row is written whatever it says now.
MoveAnyway(w, from, to) == rows' = [rows EXCEPT ![w].st = to]

\* transition_worktree: compare and set.
Move(w, from, to) ==
  rows' = IF rows[w].st = from THEN [rows EXCEPT ![w].st = to] ELSE rows

-------------------------------------------------------------------------------
\* The rows and directories an earlier run has left: worktrees that are ready, and
\* perhaps the rows of others that were removed.
WorktreeStart ==
  /\ project \in {"none", "weak", "strong"} /\ known = 0
  /\ repo = 0 /\ tip = 0
  /\ \E kept \in SUBSET Worktrees, rest \in {"none", "removed"} :
       /\ kept # {} \/ rest = "removed" => project = "strong"
       /\ rows = [w \in Worktrees |->
                   [st |-> IF w \in kept THEN "ready" ELSE rest, base |-> 0]]
       /\ leaf = [w \in Worktrees |-> IF w \in kept THEN "dir" ELSE "missing"]
       /\ meta = [w \in Worktrees |-> w \in kept]
       /\ making = [w \in Worktrees |-> IF rows[w] = NoRow THEN "idle" ELSE "done"]
  /\ at = [w \in Worktrees |-> 0] /\ base = [w \in Worktrees |-> 0]
  /\ busy = FALSE
  /\ removing = [w \in Worktrees |-> "idle"]
  /\ rec = "idle" /\ listed = <<>> /\ verdict = "none"
  /\ leaving = "idle"

WorktreeInit == WorktreeStart /\ outside = 0 /\ faults = 0 /\ boots = 0

\* register_project and revalidate_project: what is found is adopted unless the
\* row is already trusted.
TrustProject ==
  /\ project # "strong"
  /\ project' = "strong" /\ known' = repo
  /\ UNCHANGED <<rows, diskVars, busy, makeVars, removing, recVars, leaving, bounds>>

\* unregister_project: three statements and no transaction.  The last is refused
\* while a row refers to the project.
CountWorktrees ==
  /\ leaving = "idle" /\ ~Unregistered /\ Kept = {}
  /\ leaving' = "counted"
  /\ UNCHANGED <<projectVars, rows, diskVars, busy, makeVars, removing, recVars, bounds>>

DeleteRemoved ==
  /\ leaving = "counted"
  /\ rows' = [w \in Worktrees |-> IF rows[w].st = "removed" THEN NoRow ELSE rows[w]]
  /\ leaving' = "swept"
  /\ UNCHANGED <<projectVars, diskVars, busy, makeVars, removing, recVars, bounds>>

DeleteProject ==
  /\ leaving = "swept"
  /\ leaving' = "idle"
  /\ project' = IF \A w \in Worktrees : rows[w] = NoRow THEN "none" ELSE project
  /\ UNCHANGED <<known, rows, diskVars, busy, makeVars, removing, recVars, bounds>>

-------------------------------------------------------------------------------
\* create_project_worktree

CreateBegins(w) ==
  /\ making[w] = "idle" /\ rows[w] = NoRow /\ ~busy
  /\ StrictProject
  /\ busy' = TRUE
  /\ making' = [making EXCEPT ![w] = "insert"] /\ base' = [base EXCEPT ![w] = tip]
  /\ UNCHANGED <<projectVars, rows, diskVars, removing, recVars, leaving, bounds>>

\* The call returns, and the project is free again.
CreateEnds(w) == making' = [making EXCEPT ![w] = "done"] /\ busy' = FALSE

\* The foreign key refuses a project that is gone.
CreateInserts(w) ==
  /\ making[w] = "insert"
  /\ \/ /\ ~Unregistered
        /\ rows' = [rows EXCEPT ![w] = [st |-> "creating", base |-> base[w]]]
        /\ making' = [making EXCEPT ![w] = "add"] /\ UNCHANGED <<busy, faults>>
     \/ Unregistered /\ CreateEnds(w) /\ UNCHANGED <<rows, faults>>
     \/ Fault /\ CreateEnds(w) /\ UNCHANGED rows
  /\ UNCHANGED <<projectVars, diskVars, base, removing, recVars, leaving, outside, boots>>

\* What `git worktree add` has done when it ends, or is killed: everything, or
\* some of it.
Added(w) ==
  /\ leaf' = [leaf EXCEPT ![w] = "dir"] /\ meta' = [meta EXCEPT ![w] = TRUE]
  /\ at' = [at EXCEPT ![w] = base[w]]
PartlyAdded(w) ==
  /\ \/ UNCHANGED <<leaf, meta>>
     \/ leaf' = [leaf EXCEPT ![w] = "dir"] /\ UNCHANGED meta
     \/ leaf' = [leaf EXCEPT ![w] = "dir"] /\ meta' = [meta EXCEPT ![w] = TRUE]
  /\ UNCHANGED at

\* add_detached_worktree
CreateAdds(w) ==
  /\ making[w] = "add"
  /\ \/ leaf[w] = "missing" /\ Added(w)
        /\ making' = [making EXCEPT ![w] = "verify"] /\ UNCHANGED faults
     \/ leaf[w] = "missing" /\ Fault /\ PartlyAdded(w)
        /\ making' = [making EXCEPT ![w] = "fail"]
     \/ leaf[w] # "missing" /\ UNCHANGED <<leaf, meta, at, faults>>
        /\ making' = [making EXCEPT ![w] = "fail"]
  /\ UNCHANGED <<projectVars, rows, repo, tip, busy, base, removing, recVars, leaving,
                 outside, boots>>

\* A failed step is recorded; that write may be refused as well.
CreateFails(w) ==
  /\ making[w] = "fail"
  /\ \/ Move(w, "creating", "failed") /\ UNCHANGED faults
     \/ Fault /\ UNCHANGED rows
  /\ CreateEnds(w)
  /\ UNCHANGED <<projectVars, diskVars, base, removing, recVars, leaving, outside, boots>>

\* The directory and git's list; then the repository seen from inside it.  An
\* error of git itself returns at once and leaves the row creating.
CreateVerifies(w) ==
  /\ making[w] \in {"verify", "inspect"}
  /\ LET good == IF making[w] = "verify" THEN Listed(w) ELSE leaf[w] = "dir" /\ Inspects(w)
     IN \/ /\ making' = [making EXCEPT ![w] =
                           IF ~good THEN "fail"
                           ELSE IF @ = "verify" THEN "inspect" ELSE "finish"]
           /\ UNCHANGED <<busy, faults>>
        \/ Fault /\ CreateEnds(w)
  /\ UNCHANGED <<projectVars, rows, diskVars, base, removing, recVars, leaving,
                 outside, boots>>

CreateFinishes(w) ==
  /\ making[w] = "finish"
  /\ \/ Move(w, "creating", "ready") /\ UNCHANGED faults
     \/ Fault /\ UNCHANGED rows
  /\ CreateEnds(w)
  /\ UNCHANGED <<projectVars, diskVars, base, removing, recVars, leaving, outside, boots>>

-------------------------------------------------------------------------------
\* remove_project_worktree: nothing is deleted; what may be dirty is retained.

\* The row is read before the project is taken, and not read again.
RemoveReads(w) ==
  /\ removing[w] = "idle" /\ rows[w].st = "ready"
  /\ removing' = [removing EXCEPT ![w] = "read"]
  /\ UNCHANGED <<projectVars, rows, diskVars, busy, makeVars, recVars, leaving, bounds>>

RemoveEnds(w) == removing' = [removing EXCEPT ![w] = "idle"] /\ busy' = FALSE

RemoveTakes(w) ==
  /\ removing[w] = "read"
  /\ \/ ~busy /\ busy' = TRUE /\ removing' = [removing EXCEPT ![w] = "check"]
     \/ busy /\ removing' = [removing EXCEPT ![w] = "idle"] /\ UNCHANGED busy
  /\ UNCHANGED <<projectVars, rows, diskVars, makeVars, recVars, leaving, bounds>>

RemoveChecks(w) ==
  /\ removing[w] = "check"
  /\ \/ /\ StrictProject /\ Validated(w)
        /\ removing' = [removing EXCEPT ![w] = "mark"] /\ UNCHANGED <<busy, faults>>
     \/ ~(StrictProject /\ Validated(w)) /\ RemoveEnds(w) /\ UNCHANGED faults
     \/ Fault /\ RemoveEnds(w)
  /\ UNCHANGED <<projectVars, rows, diskVars, makeVars, recVars, leaving, outside, boots>>

RemoveMarks(w) ==
  /\ removing[w] = "mark"
  /\ \/ /\ rows[w].st = "ready" /\ Move(w, "ready", "removing")
        /\ removing' = [removing EXCEPT ![w] = "retain"] /\ UNCHANGED <<busy, faults>>
     \/ rows[w].st # "ready" /\ RemoveEnds(w) /\ UNCHANGED <<rows, faults>>
     \/ Fault /\ RemoveEnds(w) /\ UNCHANGED rows
  /\ UNCHANGED <<projectVars, diskVars, makeVars, recVars, leaving, outside, boots>>

RemoveRetains(w) ==
  /\ removing[w] = "retain"
  /\ \/ Move(w, "removing", "retained_dirty") /\ UNCHANGED faults
     \/ Fault /\ UNCHANGED rows
  /\ RemoveEnds(w)
  /\ UNCHANGED <<projectVars, diskVars, makeVars, recVars, leaving, outside, boots>>

-------------------------------------------------------------------------------
\* reconcile_project_worktrees: the rows are listed first and visited one by one.

ListRows ==
  /\ rec = "idle" /\ Kept # {}
  /\ \E s \in SetToSeqs(Kept) : listed' = [i \in DOMAIN s |-> [w |-> s[i], st |-> rows[s[i]].st]]
  /\ rec' = "visit"
  /\ UNCHANGED <<projectVars, rows, diskVars, busy, makeVars, removing, verdict, leaving,
                 bounds>>

\* On to the next row; after the last the call returns.
VisitNext == listed' = Tail(listed) /\ rec' = IF Len(listed) = 1 THEN "idle" ELSE "visit"

\* Mutant: the project is let go although it was somebody else's.
SkipAndRelease ==
  /\ rec = "visit" /\ busy
  /\ VisitNext /\ busy' = FALSE
  /\ UNCHANGED <<projectVars, rows, diskVars, makeVars, removing, verdict, leaving, bounds>>

SkipBusy ==
  /\ rec = "visit" /\ busy
  /\ VisitNext
  /\ UNCHANGED <<projectVars, rows, diskVars, busy, makeVars, removing, verdict, leaving,
                 bounds>>

\* What the disk says of a row that was listed in state st; "none" leaves it.
Judge(w, st) ==
  IF leaf[w] = "missing"
  THEN IF st = "removing" /\ ~meta[w] THEN "removed"
       ELSE IF st = "creating" THEN "failed" ELSE "missing"
  ELSE IF leaf[w] = "other" THEN "failed"
  ELSE IF st \in {"creating", "ready"}
       THEN IF ~Listed(w) THEN "failed"
            ELSE IF ~Inspects(w) THEN "identity_changed"
            ELSE IF st = "creating" THEN "ready" ELSE "none"
  ELSE IF st = "removing" THEN "failed" ELSE "none"

\* Mutant: the error's category is written for the state.
CategoryForState(w, st) == "recovery_required"

\* The same when git cannot be asked.
Unanswered(w, st) ==
  IF leaf[w] = "missing" THEN IF st = "creating" THEN "failed" ELSE "missing"
  ELSE IF leaf[w] = "dir" /\ st \notin {"creating", "ready", "removing"} THEN "none"
  ELSE "failed"

\* Mutant: the project is not taken.
VisitAnyway ==
  /\ rec = "visit"
  /\ rec' = "write" /\ verdict' = Judge(Head(listed).w, Head(listed).st)
  /\ UNCHANGED <<projectVars, rows, diskVars, busy, makeVars, removing, listed, leaving,
                 bounds>>

Visit ==
  /\ rec = "visit" /\ ~busy
  /\ busy' = TRUE /\ rec' = "write"
  /\ LET w == Head(listed).w  st == Head(listed).st
     IN \/ Unregistered /\ verdict' = "failed" /\ UNCHANGED faults
        \/ ~Unregistered /\ verdict' = Judge(w, st) /\ UNCHANGED faults
        \/ ~Unregistered /\ Fault /\ verdict' = Unanswered(w, st)
  /\ UNCHANGED <<projectVars, rows, diskVars, makeVars, removing, listed, leaving,
                 outside, boots>>

WriteVerdict ==
  /\ rec = "write"
  /\ \/ verdict # "none" /\ Move(Head(listed).w, Head(listed).st, verdict)
     \/ verdict = "none" /\ UNCHANGED rows
  /\ busy' = FALSE /\ verdict' = "none" /\ VisitNext
  /\ UNCHANGED <<projectVars, diskVars, makeVars, removing, leaving, bounds>>

-------------------------------------------------------------------------------
\* Others, and the end of the process.

CommitOutside ==
  \/ tip' = tip + 1 /\ UNCHANGED at
  \/ \E w \in Worktrees : leaf[w] = "dir" /\ at' = [at EXCEPT ![w] = @ + 1]
                          /\ UNCHANGED tip

Outsider ==
  /\ outside < MaxOutside /\ outside' = outside + 1
  /\ \/ CommitOutside /\ UNCHANGED <<repo, leaf, meta>>
     \/ repo' = repo + 1 /\ meta' = [w \in Worktrees |-> FALSE] /\ UNCHANGED <<tip, leaf, at>>
     \/ \E w \in Worktrees : leaf[w] = "dir" /\ UNCHANGED <<repo, tip, meta, at>>
          /\ \E l \in {"missing", "other"} : leaf' = [leaf EXCEPT ![w] = l]
     \/ \E w \in Worktrees : meta[w] /\ leaf[w] # "dir" /\ UNCHANGED <<repo, tip, leaf, at>>
          /\ meta' = [meta EXCEPT ![w] = FALSE]
  /\ UNCHANGED <<projectVars, rows, busy, makeVars, removing, recVars, leaving, faults,
                 boots>>

\* The process dies; a `git worktree add` that was running gets as far as it gets.
Dies ==
  /\ boots < Boots /\ boots' = boots + 1
  /\ busy' = FALSE
  /\ making' = [w \in Worktrees |-> IF rows[w] = NoRow THEN "idle" ELSE "done"]
  /\ base' = [w \in Worktrees |-> rows[w].base]
  /\ removing' = [w \in Worktrees |-> "idle"]
  /\ rec' = "idle" /\ listed' = <<>> /\ verdict' = "none" /\ leaving' = "idle"
  /\ \/ UNCHANGED <<leaf, meta, at>>
     \/ \E w \in Worktrees : making[w] = "add" /\ leaf[w] = "missing"
                             /\ (Added(w) \/ PartlyAdded(w))
  /\ UNCHANGED <<projectVars, rows, repo, tip, outside, faults>>

-------------------------------------------------------------------------------
Creating(w) == \/ CreateBegins(w) \/ CreateInserts(w) \/ CreateAdds(w) \/ CreateFails(w)
               \/ CreateVerifies(w) \/ CreateFinishes(w)
Removing(w) == \/ RemoveReads(w) \/ RemoveTakes(w) \/ RemoveChecks(w) \/ RemoveMarks(w)
               \/ RemoveRetains(w)
Reconcile == ListRows \/ SkipBusy \/ Visit \/ WriteVerdict
Unregister == CountWorktrees \/ DeleteRemoved \/ DeleteProject

WorktreeNext == \/ \E w \in Worktrees : Creating(w) \/ Removing(w)
                \/ Reconcile \/ Unregister \/ TrustProject \/ Outsider

-------------------------------------------------------------------------------
WorktreeTypeOK ==
  /\ project \in {"none", "weak", "strong"} /\ {known, repo, tip} \subseteq Nat
  /\ rows \in [Worktrees -> [st: States \union {"none"}, base: Nat]]
  /\ leaf \in [Worktrees -> {"missing", "dir", "other"}]
  /\ meta \in [Worktrees -> BOOLEAN] /\ at \in [Worktrees -> Nat]
  /\ busy \in BOOLEAN
  /\ making \in [Worktrees -> {"idle", "insert", "add", "fail", "verify", "inspect",
                               "finish", "done"}]
  /\ base \in [Worktrees -> Nat]
  /\ removing \in [Worktrees -> {"idle", "read", "check", "mark", "retain"}]
  /\ rec \in {"idle", "visit", "write"}
  /\ listed \in Seq([w: Worktrees, st: States])
  /\ verdict \in States \union {"none"}
  /\ leaving \in {"idle", "counted", "swept"}
  /\ outside \in 0..MaxOutside /\ faults \in 0..MaxFaults /\ boots \in 0..Boots

\* The commands that hold the project, by what they are in the middle of.
Holders ==
  {<<"create", w>> : w \in {v \in Worktrees : making[v] \notin {"idle", "done"}}}
  \union {<<"remove", w>> : w \in {v \in Worktrees : removing[v] \notin {"idle", "read"}}}
  \union (IF rec = "write" THEN {<<"reconcile">>} ELSE {})

\* The rows account for the disk: a directory or a record of git that a command
\* made has a row that keeps its project registered; and unless somebody else was
\* at work, a worktree that is ready is there, on git's list, at its base commit.
RowsMatchDisk ==
  /\ \A w \in Worktrees : leaf[w] = "dir" \/ meta[w] => w \in Kept /\ ~Unregistered
  /\ outside = 0 => \A w \in Worktrees : rows[w].st = "ready" => Validated(w)
  /\ outside + faults + boots = 0 => \A w \in Worktrees : rows[w].st \notin Broken \ {"removed"}

\* A worktree once found broken is never usable again, however old the rows are
\* that a command works from.
BrokenStaysBroken ==
  [][\A w \in Worktrees : rows[w].st \in Broken =>
       rows'[w].st \in Broken \union {"none"}]_worktreeVars

===============================================================================
