---------------------------- MODULE ChangeInspection ---------------------------
(***************************************************************************)
(* How the desktop application looks at the changes in a managed worktree: *)
(* the inventory (crates/sentinel-git), the classification of one file in  *)
(* three passes and the capture of its diff (src-tauri/src/main.rs).       *)
(*                                                                         *)
(* Nothing can be locked against the agent that edits the worktree, so     *)
(* every answer is read several times over and accepted if the readings    *)
(* agree.  The commands of ManagedWorktrees are kept out by the project's  *)
(* entry; the row is read before it is taken and once more at the end.     *)
(***************************************************************************)
EXTENDS ManagedWorktrees

CONSTANTS
  MaxEdits,       \* bound: edits of the file in the inspected worktree
  MaxInspections  \* bound: inspections

ASSUME InspectionAssumption == {MaxEdits, MaxInspections} \subseteq Nat

VARIABLES
  kind,    \* of the selected file: "text", "binary" or, what the inventory alone
           \*   classifies (untracked, conflict, submodule, link), "deferred"
  file,    \* its version in the index and in the directory
  edits,   \* edits so far
  seen,    \* history: what the file was since the inspection began
  inspections,  \* inspections so far
  insp,    \* the inspection: which, of which worktree, and where it is
  reads,   \* what it has read
  answer   \* what it returned: an operation and a result; until the next edit

inspectVars == <<kind, file, edits, inspections, seen, insp, reads, answer>>
vars == <<worktreeVars, inspectVars>>

-------------------------------------------------------------------------------
\* What git says of the file; version 0 of the index is the base commit's.

Files == [index: 0..2, work: 0..1]

Staged(f)   == f.index # 0
Unstaged(f) == f.work # f.index
Changed(f)  == Staged(f) \/ Unstaged(f)
Status(f)   == <<Staged(f), Unstaged(f)>>

\* The numbers of a section depend on the versions it compares, if it has any.
Numbers(changed, versions) ==
  IF ~changed \/ kind = "deferred" THEN <<>>
  ELSE IF kind = "binary" THEN <<"binary">> ELSE versions
StagedNumbers(f)   == Numbers(Staged(f), <<f.index>>)
UnstagedNumbers(f) == Numbers(Unstaged(f), <<f.index, f.work>>)

\* What an operation would return if the file stood still.
Result(op, f) ==
  IF op = "inventory" THEN Status(f) ELSE <<StagedNumbers(f), UnstagedNumbers(f)>>

Eligible(w) == rows[w].st \in {"ready", "retained_dirty"}
Owned(w)    == Eligible(w) /\ StrictProject /\ Validated(w)

Idle     == [op |-> "none", w |-> CHOOSE w \in Worktrees : TRUE, pc |-> "idle", pass |-> 1]
NoAnswer == [op |-> "none", is |-> <<>>]

InspectInit ==
  /\ kind \in {"text", "binary", "deferred"}
  /\ file \in {f \in Files : Changed(f)} /\ seen = {}
  /\ insp = Idle /\ reads = <<>> /\ answer = NoAnswer

\* The agent writes or stages.
Edit ==
  /\ edits < MaxEdits /\ edits' = edits + 1
  /\ \E f \in Files :
       /\ (f.index = file.index) # (f.work = file.work)
       /\ file' = f
       /\ seen' = IF insp = Idle THEN {} ELSE seen \union {f}
  /\ answer' = NoAnswer
  /\ UNCHANGED <<worktreeVars, kind, inspections, insp, reads>>

Goes(pc) == insp' = [insp EXCEPT !.pc = pc]

InspectReads(w, op) ==
  /\ insp = Idle /\ rows[w] # NoRow
  /\ inspections < MaxInspections /\ inspections' = inspections + 1
  /\ insp' = [op |-> op, w |-> w, pc |-> "take", pass |-> 1]
  /\ reads' = <<>> /\ seen' = {file} /\ answer' = NoAnswer
  /\ UNCHANGED <<worktreeVars, kind, file, edits>>

InspectTakes ==
  /\ insp.pc = "take"
  /\ \/ ~busy /\ busy' = TRUE
        /\ Goes(IF insp.op = "inventory" THEN "before" ELSE "pass")
        /\ UNCHANGED seen
     \/ busy /\ insp' = Idle /\ seen' = {} /\ UNCHANGED busy
  /\ UNCHANGED <<projectVars, rows, diskVars, makeVars, removing, recVars, leaving, bounds,
                 kind, file, edits, inspections, reads, answer>>

\* The call returns: with an answer, or an error (a command of git that failed or
\* took too long, a worktree that is not the application's any more, a change).
Returns(a) ==
  /\ insp' = Idle /\ reads' = <<>> /\ answer' = a
  /\ busy' = IF insp.pc = "capture" THEN busy ELSE FALSE
  /\ UNCHANGED <<projectVars, rows, diskVars, makeVars, removing, recVars, leaving, bounds,
                 kind, file, edits, inspections>>

InspectFails ==
  /\ insp.pc \notin {"idle", "take"}
  /\ Returns(NoAnswer) /\ seen' = {}

Reads(r, pc) ==
  /\ reads' = Append(reads, r) /\ Goes(pc)
  /\ UNCHANGED <<worktreeVars, kind, file, edits, inspections, seen, answer>>

-------------------------------------------------------------------------------
\* The inventory: two snapshots, each between two readings of the index.

InventoryBefore ==
  /\ insp.pc = "before" /\ Owned(insp.w)
  /\ Reads(file.index, "staged")

InventoryStaged ==
  /\ insp.pc = "staged"
  /\ Reads(Staged(file), "unstaged")

\* The directory is compared with the index as it was listed.
InventoryUnstaged ==
  /\ insp.pc = "unstaged"
  /\ Reads(file.work # reads[Len(reads) - 1], "after")

\* An index that moved is an error.
InventoryAfter ==
  /\ insp.pc = "after" /\ file.index = reads[Len(reads) - 2]
  /\ Goes(IF Len(reads) = 3 THEN "again" ELSE "owned")
  /\ UNCHANGED <<worktreeVars, kind, file, edits, inspections, seen, reads, answer>>

InventoryAgain ==
  /\ insp.pc = "again"
  /\ Reads(file.index, "staged")

\* Both snapshots agree, and the worktree still is what it was.
InventoryReturns ==
  /\ insp.pc = "owned" /\ Owned(insp.w)
  /\ \A i \in 1..3 : i + 3 \in DOMAIN reads => reads[i] = reads[i + 3]
  /\ Returns([op |-> "inventory", is |-> <<reads[2], reads[3]>>])
  /\ UNCHANGED seen

-------------------------------------------------------------------------------
\* The classification of the file: inventory and evidence, three times.

\* An inventory as one step, and the file in it.
InventoryOf(f) == Status(f)

PassBegins ==
  /\ insp.pc = "pass" /\ Owned(insp.w) /\ Changed(file)
  /\ insp.pass > 1 => reads[1] = InventoryOf(file)
  /\ IF insp.pass = 1 THEN Reads(InventoryOf(file), "fresh")
     ELSE Goes("fresh") /\ UNCHANGED <<worktreeVars, kind, file, edits, inspections, seen, reads, answer>>

\* The section a pass is at: the staged one, then the unstaged one.
Section == 1 + (Len(reads) - 1) - 2 * (insp.pass - 1)
AfterSection == IF Section = 1 THEN "fresh" ELSE "compare"

\* What the inventory says is enough: classify_without_numstat.
ClassifySkips ==
  /\ insp.pc = "fresh"
  /\ kind = "deferred" \/ ~reads[1][Section]
  /\ Reads(<<>>, AfterSection)

\* Otherwise the file is looked up afresh,
ClassifyFresh ==
  /\ insp.pc = "fresh" /\ Owned(insp.w)
  /\ kind # "deferred" /\ reads[1][Section]
  /\ InventoryOf(file) = reads[1]
  /\ Goes("count")
  /\ UNCHANGED <<worktreeVars, kind, file, edits, inspections, seen, reads, answer>>

\* and its lines are counted; a section without changes is stale by now.
ClassifyCounts ==
  /\ insp.pc = "count" /\ Owned(insp.w)
  /\ LET numbers == IF Section = 1 THEN StagedNumbers(file) ELSE UnstagedNumbers(file)
     IN numbers # <<>> /\ Reads(numbers, AfterSection)

\* Mutant: two passes are enough.
TwoPasses ==
  /\ insp.pc = "compare"
  /\ insp.pass > 1 => \A i \in {0, 1} : reads[Len(reads) - i] = reads[Len(reads) - i - 2]
  /\ insp' = [insp EXCEPT !.pc = IF insp.pass = 2 THEN "refresh" ELSE "pass",
                          !.pass = IF @ < 2 THEN @ + 1 ELSE @]
  /\ UNCHANGED <<worktreeVars, kind, file, edits, inspections, seen, reads, answer>>

\* The evidence of this pass is that of the last.
PassEnds ==
  /\ insp.pc = "compare"
  /\ insp.pass > 1 => \A i \in {0, 1} : reads[Len(reads) - i] = reads[Len(reads) - i - 2]
  /\ insp' = [insp EXCEPT !.pc = IF insp.pass = 3 THEN "refresh" ELSE "pass",
                          !.pass = IF @ < 3 THEN @ + 1 ELSE @]
  /\ UNCHANGED <<worktreeVars, kind, file, edits, inspections, seen, reads, answer>>

\* refresh_b1_acceptance_state: the rows once more,
Refresh ==
  /\ insp.pc = "refresh" /\ Eligible(insp.w) /\ StrictProject
  /\ Goes("final")
  /\ UNCHANGED <<worktreeVars, kind, file, edits, inspections, seen, reads, answer>>

\* and the repository.  For the diff of a text the captures follow, without the
\* project; of anything else the classification is all there is.
FinalValidation ==
  /\ insp.pc = "final" /\ Validated(insp.w)
  /\ \/ /\ insp.op = "classification" \/ kind # "text"
        /\ Returns([op |-> "classification", is |-> SubSeq(reads, Len(reads) - 1, Len(reads))])
        /\ UNCHANGED seen
     \/ /\ insp.op = "diff" /\ kind = "text"
        /\ insp' = [insp EXCEPT !.pc = "capture", !.pass = 1] /\ reads' = <<>>
        /\ busy' = FALSE
        /\ UNCHANGED <<projectVars, rows, diskVars, makeVars, removing, recVars, leaving,
                       bounds, kind, file, edits, inspections, seen, answer>>

-------------------------------------------------------------------------------
\* inspect_textual_diff: the staged and the unstaged diff, three times, compared
\* with each other and not with the classification.

Capture ==
  /\ insp.pc = "capture" /\ Len(reads) < 6
  /\ Reads(IF Len(reads) % 2 = 0 THEN StagedNumbers(file) ELSE UnstagedNumbers(file),
           "capture")

DiffReturns ==
  /\ insp.pc = "capture" /\ Len(reads) = 6
  /\ \A i \in 1..4 : reads[i] = reads[i + 2]
  /\ Returns([op |-> "diff", is |-> SubSeq(reads, 5, 6)])
  /\ UNCHANGED seen

-------------------------------------------------------------------------------
Inspect == \/ \E w \in Worktrees, op \in {"inventory", "classification", "diff"} :
                InspectReads(w, op)
           \/ InspectTakes \/ InspectFails
           \/ InventoryBefore \/ InventoryStaged \/ InventoryUnstaged \/ InventoryAfter
           \/ InventoryAgain \/ InventoryReturns
           \/ PassBegins \/ ClassifySkips \/ ClassifyFresh \/ ClassifyCounts \/ PassEnds
           \/ Refresh \/ FinalValidation \/ Capture \/ DiffReturns

Crash == Dies /\ insp' = Idle /\ reads' = <<>> /\ seen' = {} /\ answer' = NoAnswer
              /\ UNCHANGED <<kind, file, edits, inspections>>

Init == WorktreeInit /\ InspectInit /\ edits = 0 /\ inspections = 0

Next == (WorktreeNext /\ UNCHANGED inspectVars) \/ Edit \/ Inspect \/ Crash

Spec == Init /\ [][Next]_vars

-------------------------------------------------------------------------------
TypeOK ==
  /\ WorktreeTypeOK
  /\ kind \in {"text", "binary", "deferred"}
  /\ file \in Files /\ edits \in 0..MaxEdits
  /\ inspections \in 0..MaxInspections /\ seen \subseteq Files
  /\ insp \in [op: {"none", "inventory", "classification", "diff"}, w: Worktrees,
               pc: {"idle", "take", "before", "staged", "unstaged", "after", "again",
                    "owned", "pass", "fresh", "count", "compare", "refresh", "final",
                    "capture"},
               pass: 1..3]
  /\ Len(reads) <= 7
  /\ answer.op \in {"none", "inventory", "classification", "diff"}

\* One command at a time holds the project, and while one does the project is
\* taken: no command that found it busy, and no return, lets go of another's.
OneHolder ==
  LET all == Holders \union (IF insp.pc \notin {"idle", "take", "capture"}
                             THEN {<<"inspect">>} ELSE {})
  IN Cardinality(all) <= 1 /\ (all # {} => busy)

\* Edits that can deceive an operation: the file is changed and changed back
\* between each two readings.
Deceiving(op) == IF op = "inventory" THEN 4 ELSE 5

\* What is shown of a file is what the file was at one moment of the inspection,
\* however the agent edits it meanwhile, short of as many edits as it has readings.
ShownWasReal ==
  answer.op # "none" /\ edits < Deceiving(answer.op) =>
    \E f \in seen : answer.is = Result(answer.op, f)

===============================================================================
