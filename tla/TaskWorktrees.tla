----------------------------- MODULE TaskWorktrees ------------------------------
(***************************************************************************)
(* The worktree of a task over its whole life: crates/sentinel-worktree    *)
(* creates it, opens it again, prepares its merge and discards it, command *)
(* of git by command of git, while the provider works in it, others change *)
(* what is on disk, commands and the store fail and the host dies.         *)
(*                                                                         *)
(* The supervisor creates, opens and prepares; in this version only tests  *)
(* discard.                                                                *)
(***************************************************************************)
EXTENDS Naturals

CONSTANTS
  MaxCommits, \* bound: commits in the worktree and on the target branch
  MaxOthers,  \* bound: edits, and what others do to the disk
  MaxTrouble  \* bound: commands and writes that fail, and ends of the host

VARIABLES
  row,      \* v3_task_worktrees: its state and base commit
  outcome,  \* v3_task_worktree_cleanup_outcomes: the state and the reason
  merge,    \* v3_task_worktree_merge_preparations
  approval, \* of the discard: its lifecycle, and the head it is for
  dir,      \* the worktree's path: "none", "linked" or "other"
  branch,   \* the commit of the task's branch, if there is one
  tree,     \* of the worktree: its commit, whether it is on its branch, and edited
  main,     \* of the primary checkout: the target branch's commit, and whether it is usable
  call,     \* the call that is running: which, where it is and what it has read
  late,     \* history: commits made since the call compared the head,
  lost,     \*   what was removed with the worktree and the branch,
  touched,  \*   and has anybody tampered with what is on disk?
  others,   \* edits and tampering so far
  trouble   \* failures so far

diskVars == <<dir, branch, tree, main>>
rowVars  == <<row, outcome, merge>>
histVars == <<late, lost, touched>>
taskTreeVars == <<rowVars, approval, diskVars, call, histVars, others, trouble>>

None == MaxCommits + 1
Idle == [op |-> "none", pc |-> "idle", base |-> None, target |-> None]

TreeStart ==
  /\ row = [st |-> "none", base |-> None] /\ outcome = [st |-> "none", why |-> "none"]
  /\ merge = [target |-> None, head |-> None]
  /\ approval = [lc |-> "none", head |-> None]
  /\ dir = "none" /\ branch = None /\ tree = [head |-> None, on |-> TRUE, edited |-> FALSE]
  /\ main = [target |-> 0, usable |-> TRUE]
  /\ call = Idle /\ late = {} /\ lost = {} /\ touched = FALSE /\ others = 0 /\ trouble = 0

-------------------------------------------------------------------------------
(* The provider, the user and others.                                      *)

Other == others < MaxOthers /\ others' = others + 1

EditTree ==
  /\ Other /\ dir = "linked" /\ ~tree.edited /\ tree' = [tree EXCEPT !.edited = TRUE]
  /\ UNCHANGED <<rowVars, approval, dir, branch, main, call, histVars, trouble>>

CommitTree ==
  /\ dir = "linked" /\ tree.edited /\ tree.head < MaxCommits
  /\ tree' = [tree EXCEPT !.head = @ + 1, !.edited = FALSE]
  /\ branch' = IF tree.on THEN tree'.head ELSE branch
  /\ late' = IF call.op = "discard" THEN late \union {tree'.head} ELSE late
  /\ UNCHANGED <<rowVars, approval, dir, main, call, lost, touched, others, trouble>>

\* Another branch is checked out, or the directory goes, or something else is in its place,
\* or the primary checkout is moved on, or away.
Tamper ==
  /\ Other /\ touched' = TRUE
  /\ \/ dir = "linked" /\ tree' = [tree EXCEPT !.on = FALSE] /\ UNCHANGED <<dir, main>>
     \/ dir' = (IF dir = "none" THEN "other" ELSE "none")
        /\ UNCHANGED main /\ tree' = [tree EXCEPT !.edited = FALSE]
     \/ main.target < MaxCommits /\ main' = [main EXCEPT !.target = @ + 1]
        /\ UNCHANGED <<dir, tree>>
     \/ main' = [main EXCEPT !.usable = ~@] /\ UNCHANGED <<dir, tree>>
  /\ UNCHANGED <<rowVars, approval, branch, call, late, lost, trouble>>

\* A human is shown the tree as it is, asked, and answers.
Answer ==
  /\ \/ approval.lc = "none" /\ dir = "linked"
        /\ approval' = [lc |-> "pending", head |-> tree.head]
     \/ approval.lc = "pending"
        /\ \E lc \in {"approved", "denied"} : approval' = [approval EXCEPT !.lc = lc]
  /\ UNCHANGED <<rowVars, diskVars, call, histVars, others, trouble>>

-------------------------------------------------------------------------------
(* The calls.                                                              *)
Trouble == trouble < MaxTrouble /\ trouble' = trouble + 1
Smooth  == UNCHANGED trouble

At(op, pc) == call.op = op /\ call.pc = pc
Goes(pc)   == call' = [call EXCEPT !.pc = pc]
Returns    == call' = Idle

\* The worktree is the one that is on record.
Matches ==
  /\ main.usable /\ dir = "linked" /\ tree.on /\ branch # None

BeginCreate ==
  /\ call = Idle /\ row.st = "none" /\ main.usable
  /\ call' = [Idle EXCEPT !.op = "create", !.pc = "add", !.base = main.target]
  /\ UNCHANGED <<rowVars, approval, diskVars, histVars, others, trouble>>

\* git refuses a path that is taken and a branch that exists.
AddWorktree ==
  /\ At("create", "add")
  /\ \/ /\ Smooth /\ dir = "none" /\ branch = None
        /\ dir' = "linked" /\ branch' = call.base
        /\ tree' = [head |-> call.base, on |-> TRUE, edited |-> FALSE]
        /\ Goes("record") /\ UNCHANGED main
     \/ /\ \/ Smooth /\ (dir # "none" \/ branch # None)
           \/ Trouble
        /\ Returns /\ UNCHANGED diskVars
  /\ UNCHANGED <<rowVars, approval, histVars, others>>

RecordWorktree ==
  /\ At("create", "record") /\ Returns
  /\ \/ Smooth /\ row' = [st |-> "ready", base |-> call.base]
     \/ Trouble /\ UNCHANGED row
  /\ UNCHANGED <<outcome, merge, approval, diskVars, histVars, others>>

\* A create of a task that has a row, and every other call, opens it first.
Open ==
  /\ call = Idle /\ row.st = "ready"
  /\ \E op \in {"open", "prepare"} : call' = [Idle EXCEPT !.op = op, !.pc = "match"]
  /\ UNCHANGED <<rowVars, approval, diskVars, histVars, others, trouble>>

Match ==
  /\ call.pc = "match" /\ Smooth
  /\ IF ~Matches THEN Goes("mark")
     ELSE IF call.op = "open" THEN Returns
     ELSE Goes(IF call.op = "prepare" THEN "target" ELSE "head")
  /\ UNCHANGED <<rowVars, approval, diskVars, histVars, others>>

\* What a refused discard leaves behind.
Retain(why) == outcome' = [st |-> "retained", why |-> why]

Mark ==
  /\ call.pc = "mark" /\ Smooth
  /\ row' = [row EXCEPT !.st = "recovery_required"]
  /\ IF call.op = "discard" THEN Goes("unverified") ELSE Returns
  /\ UNCHANGED <<outcome, merge, approval, diskVars, histVars, others>>

-------------------------------------------------------------------------------
(* prepare_merge reads the two heads one after the other.                  *)
ReadTarget ==
  /\ At("prepare", "target") /\ Smooth
  /\ IF main.usable THEN call' = [call EXCEPT !.pc = "heads", !.target = main.target] ELSE Returns
  /\ UNCHANGED <<rowVars, approval, diskVars, histVars, others>>

SavePreparation ==
  /\ At("prepare", "heads") /\ Smooth /\ Returns
  /\ merge' = IF dir = "linked" THEN [target |-> call.target, head |-> tree.head] ELSE merge
  /\ UNCHANGED <<row, outcome, approval, diskVars, histVars, others>>

-------------------------------------------------------------------------------
(* discard.                                                                *)
BeginDiscard ==
  /\ call = Idle /\ outcome.st # "discarded" /\ approval.lc = "approved" /\ row.st # "none"
  /\ call' = [Idle EXCEPT !.op = "discard", !.pc = IF row.st = "ready" THEN "match" ELSE "unverified"]
  /\ UNCHANGED <<rowVars, approval, diskVars, histVars, others, trouble>>

Unverified ==
  /\ At("discard", "unverified") /\ Returns
  /\ \/ Smooth /\ Retain("identity_unverified")
     \/ Trouble /\ UNCHANGED outcome
  /\ UNCHANGED <<row, merge, approval, diskVars, histVars, others>>

\* Commits are late from the moment the head was compared.
Compared == late' = {} /\ UNCHANGED <<row, merge, approval, diskVars, lost, touched, others>>

\* Mutant: the head is not compared with the one that was approved.
AnyHead ==
  /\ At("discard", "head") /\ Smooth /\ Goes("status") /\ Compared
  /\ UNCHANGED outcome

CheckHead ==
  /\ At("discard", "head")
  /\ \/ Smooth /\ dir = "linked" /\ tree.head = approval.head
        /\ Goes("status") /\ UNCHANGED outcome
     \/ /\ (Smooth /\ ~(dir = "linked" /\ tree.head = approval.head)) \/ Trouble
        /\ Returns /\ Retain("head_changed")
  /\ Compared

CheckStatus ==
  /\ At("discard", "status")
  /\ \/ Smooth /\ dir = "linked" /\ ~tree.edited /\ Goes("primary") /\ UNCHANGED outcome
     \/ Smooth /\ dir = "linked" /\ tree.edited /\ Returns /\ Retain("dirty_worktree")
     \/ ((dir # "linked" /\ Smooth) \/ Trouble) /\ Returns /\ UNCHANGED outcome
  /\ UNCHANGED <<row, merge, approval, diskVars, histVars, others>>

CheckPrimary ==
  /\ At("discard", "primary")
  /\ \/ Smooth /\ main.usable /\ Goes("remove") /\ UNCHANGED outcome
     \/ Smooth /\ ~main.usable /\ Returns /\ Retain("primary_or_identity_changed")
     \/ Trouble /\ Returns /\ UNCHANGED outcome
  /\ UNCHANGED <<row, merge, approval, diskVars, histVars, others>>

\* git refuses to remove a worktree with edits, and what is no worktree; one whose directory
\* is gone it takes off its list.
Removable == dir = "none" \/ (dir = "linked" /\ ~tree.edited)

RemoveWorktree ==
  /\ At("discard", "remove")
  /\ \/ /\ Smooth /\ Removable
        /\ dir' = "none" /\ Goes("branch") /\ UNCHANGED outcome
        /\ lost' = lost \union {[is |-> "worktree", head |-> tree.head, fine |-> ~tree.edited]}
     \/ /\ (Smooth /\ ~Removable) \/ Trouble
        /\ Returns /\ (Retain("worktree_remove_failed") \/ UNCHANGED outcome)
        /\ UNCHANGED <<dir, lost>>
  /\ UNCHANGED <<row, merge, approval, branch, tree, main, late, touched, others>>

\* Whatever is on the branch goes with it.
RemoveBranch ==
  /\ At("discard", "branch")
  /\ \/ /\ Smooth /\ branch # None
        /\ branch' = None /\ Goes("outcome") /\ UNCHANGED outcome
        /\ lost' = lost \union {[is |-> "branch", head |-> branch,
                                 fine |-> branch = approval.head \/ branch \in late]}
     \/ /\ (Smooth /\ branch = None) \/ Trouble
        /\ Returns /\ (Retain("branch_remove_failed") \/ UNCHANGED outcome)
        /\ UNCHANGED <<branch, lost>>
  /\ UNCHANGED <<row, merge, approval, dir, tree, main, late, touched, others>>

RecordOutcome ==
  /\ At("discard", "outcome") /\ Returns
  /\ \/ Smooth /\ outcome' = [st |-> "discarded", why |-> "none"]
     \/ Trouble /\ UNCHANGED outcome
  /\ UNCHANGED <<row, merge, approval, diskVars, histVars, others>>

\* The host dies in a call.
Die ==
  /\ Trouble /\ call # Idle /\ Returns
  /\ UNCHANGED <<rowVars, approval, diskVars, histVars, others>>

TreeNext ==
  \/ EditTree \/ CommitTree \/ Tamper \/ Answer
  \/ BeginCreate \/ AddWorktree \/ RecordWorktree \/ Open \/ Match \/ Mark
  \/ ReadTarget \/ SavePreparation
  \/ BeginDiscard \/ Unverified \/ CheckHead \/ CheckStatus \/ CheckPrimary
  \/ RemoveWorktree \/ RemoveBranch \/ RecordOutcome \/ Die

-------------------------------------------------------------------------------
Commits == 0..MaxCommits

TreeTypeOK ==
  /\ row.st \in {"none", "ready", "recovery_required"} /\ row.base \in 0..None
  /\ outcome.st \in {"none", "retained", "discarded"}
  /\ merge.target \in 0..None /\ merge.head \in 0..None
  /\ approval.lc \in {"none", "pending", "approved", "denied"}
  /\ dir \in {"none", "linked", "other"} /\ branch \in 0..None
  /\ tree.head \in 0..None /\ {tree.on, tree.edited, main.usable, touched} \subseteq BOOLEAN
  /\ call.op \in {"none", "create", "open", "prepare", "discard"} /\ late \subseteq Commits

\* Whatever is edited, committed, tampered with or fails between the commands of a discard, and
\* however often it is tried: nothing goes that was not approved to go, except what was committed
\* after the head was compared; edits that are not committed never do; and a task is
\* "discarded" only if its worktree and its branch are gone.
DiscardIsJust ==
  /\ \A x \in lost : x.fine /\ approval.lc = "approved"
  /\ outcome.st = "discarded" => {x.is : x \in lost} = {"worktree", "branch"} /\ branch = None

\* What is on record was there: unless somebody else tampered with it or it was discarded, a
\* worktree that is recorded as ready can be opened, and none is given up for recovery.
RecordIsBacked ==
  touched \/ lost # {} \/ (row.st # "recovery_required" /\ (row.st = "ready" => Matches))

===============================================================================
