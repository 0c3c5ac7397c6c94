--------------------------- MODULE MCWorktrees_proof ---------------------------
(***************************************************************************)
(* Theorems about the components that MCWorktrees brings together, for     *)
(* every value of their constants: the worktree of a task is discarded     *)
(* with an approval of what goes, and the checks, the snapshot, the        *)
(* reviews and the use of an approval are what they say.                   *)
(*                                                                         *)
(* Each component has an inductive invariant of its own, named after it;   *)
(* it says what a call may rely on at each of its points.  The last part   *)
(* puts them together.                                                     *)
(***************************************************************************)
EXTENDS MCWorktrees, FiniteSetTheorems, SequenceTheorems, WellFoundedInduction, TLAPS

-------------------------------------------------------------------------------
(* TaskWorktrees.                                                          *)

CallSteps ==
  {"idle", "add", "record", "match", "mark", "target", "heads", "head", "unverified", "status",
   "primary", "remove", "branch", "outcome"}
TreeCalls ==
  [op : {"none", "create", "open", "prepare", "discard"}, pc : CallSteps, base : 0..Task!None,
   target : 0..Task!None]
TreeTypes ==
  /\ row \in [st : {"none", "ready", "recovery_required"}, base : 0..Task!None]
  /\ outcome.st \in {"none", "retained", "discarded"}
  /\ merge \in [target : 0..Task!None, head : 0..Task!None]
  /\ approval \in [lc : {"none", "pending", "approved", "denied"}, head : 0..Task!None]
  /\ dir \in {"none", "linked", "other"} /\ branch \in 0..Task!None
  /\ tree \in [head : 0..Task!None, on : BOOLEAN, edited : BOOLEAN]
  /\ main \in [target : 0..MaxCommits, usable : BOOLEAN]
  /\ call \in TreeCalls /\ (call.op = "create" => call.base <= MaxCommits)
  /\ late \subseteq 0..MaxCommits /\ touched \in BOOLEAN
  /\ \A x \in lost : x.is \in {"worktree", "branch"}

\* What the disk holds, and what was approved of it.
DiskInv ==
  /\ tree.edited = TRUE => dir = "linked"
  /\ branch = Task!None => dir # "linked"
  /\ branch # Task!None => branch <= tree.head /\ tree.head <= MaxCommits
  /\ dir = "linked" /\ tree.on = TRUE => branch = tree.head
  /\ approval.lc # "none" =>
       /\ approval.head <= tree.head /\ approval.head # Task!None
       /\ row.st # "none" \/ branch # Task!None

\* What a call may rely on at each of its steps.
TreeCallInv ==
  /\ call.op = "create" => row.st = "none"
  /\ call.op = "discard" => approval.lc = "approved" /\ row.st # "none"
  /\ call.pc \in {"match", "mark"} => row.st = "ready"
  /\ Task!At("discard", "head") => branch # Task!None /\ approval.head <= branch
  /\ call.op = "discard" /\ call.pc \in {"status", "primary", "remove", "branch"} =>
       branch = approval.head \/ branch \in late
  /\ call.op = "discard" /\ call.pc \in {"branch", "outcome"} =>
       dir # "linked" /\ \E x \in lost : x.is = "worktree"
  /\ Task!At("discard", "outcome") => branch = Task!None /\ \E x \in lost : x.is = "branch"
  /\ outcome.st = "discarded" => row.st # "none"

\* What nobody has tampered with.
RecordInv ==
  touched = FALSE /\ lost = {} =>
    /\ main.usable = TRUE /\ tree.on = TRUE /\ row.st # "recovery_required"
    /\ call.pc # "mark"
    /\ row.st = "ready" \/ Task!At("create", "record") => dir = "linked" /\ branch # Task!None

TreeInv == TreeTypes /\ DiskInv /\ TreeCallInv /\ RecordInv /\ Task!DiscardIsJust

\* There is no worktree.
LEMMA TreeInit == ASSUME MaxCommits \in Nat PROVE Task!TreeStart => TreeInv
<1> SUFFICES ASSUME Task!TreeStart PROVE TreeInv
  OBVIOUS
<1>1. TreeTypes
  <2>1. /\ row = [st |-> "none", base |-> Task!None] /\ outcome.st = "none"
        /\ merge = [target |-> Task!None, head |-> Task!None]
        /\ approval = [lc |-> "none", head |-> Task!None]
        /\ dir = "none" /\ branch = Task!None
        /\ tree = [head |-> Task!None, on |-> TRUE, edited |-> FALSE]
        /\ main = [target |-> 0, usable |-> TRUE] /\ call = Task!Idle
        /\ late = {} /\ lost = {} /\ touched = FALSE
    BY DEF Task!TreeStart
  <2>2. call \in TreeCalls /\ call.op = "none"
    BY <2>1 DEF TreeCalls, CallSteps, Task!Idle, Task!None
  <2>3. QED
    <3>1. Task!None \in 0..Task!None /\ 0 \in 0..MaxCommits
      BY DEF Task!None
    <3>2. row \in [st : {"none", "ready", "recovery_required"}, base : 0..Task!None]
            /\ merge \in [target : 0..Task!None, head : 0..Task!None]
      BY <2>1, <3>1
    <3>3. approval \in [lc : {"none", "pending", "approved", "denied"}, head : 0..Task!None]
            /\ tree \in [head : 0..Task!None, on : BOOLEAN, edited : BOOLEAN]
      BY <2>1, <3>1
    <3>4. main \in [target : 0..MaxCommits, usable : BOOLEAN]
      BY <2>1, <3>1
    <3>5. QED
      BY <2>1, <2>2, <3>1, <3>2, <3>3, <3>4 DEF TreeTypes
<1>2. DiskInv /\ TreeCallInv /\ RecordInv /\ Task!DiscardIsJust
  BY DEF Task!TreeStart, DiskInv, TreeCallInv, RecordInv, Task!DiscardIsJust, Task!At, Task!Idle,
     Task!None
<1>3. QED
  BY <1>1, <1>2 DEF TreeInv

\* The provider, the user and others.
LEMMA OthersStep ==
  ASSUME MaxCommits \in Nat, TreeInv, Task!EditTree \/ Task!CommitTree \/ Task!Tamper \/ Task!Answer
  PROVE  TreeInv'
<1> USE DEF Task!None
<1>0. TreeTypes /\ DiskInv /\ TreeCallInv /\ RecordInv /\ Task!DiscardIsJust
  BY DEF TreeInv
<1>1. UNCHANGED <<row, outcome, merge, call, lost>>
  BY DEF Task!EditTree, Task!CommitTree, Task!Tamper, Task!Answer, Task!rowVars, Task!histVars
<1>2. CASE Task!EditTree
  <2>1. /\ UNCHANGED <<approval, dir, branch, main, late, touched>> /\ dir = "linked"
        /\ tree' = [tree EXCEPT !.edited = TRUE]
    BY <1>2 DEF Task!EditTree, Task!histVars
  <2>2. /\ tree' \in [head : 0..Task!None, on : BOOLEAN, edited : BOOLEAN]
        /\ tree'.head = tree.head /\ tree'.on = tree.on
    BY <1>0, <2>1 DEF TreeTypes
  <2>3. TreeTypes'
    BY <1>0, <1>1, <2>1, <2>2 DEF TreeTypes
  <2>4. DiskInv' /\ TreeCallInv' /\ RecordInv'
    BY <1>0, <1>1, <2>1, <2>2 DEF DiskInv, TreeCallInv, RecordInv, Task!At
  <2>5. Task!DiscardIsJust'
    BY <1>0, <1>1, <2>1 DEF Task!DiscardIsJust
  <2>6. QED
    BY <2>3, <2>4, <2>5 DEF TreeInv
<1>3. CASE Task!CommitTree
  <2>1. /\ UNCHANGED <<approval, dir, main, touched>> /\ dir = "linked"
        /\ tree.head < MaxCommits
        /\ tree' = [tree EXCEPT !.head = @ + 1, !.edited = FALSE]
        /\ branch' = IF tree.on THEN tree'.head ELSE branch
        /\ late' = IF call.op = "discard" THEN late \union {tree'.head} ELSE late
    BY <1>3 DEF Task!CommitTree
  <2>2. /\ tree.head \in 0..MaxCommits /\ tree.head + 1 \in 0..MaxCommits
    BY <1>0, <2>1 DEF TreeTypes
  <2>3. tree' = [head |-> tree.head + 1, on |-> tree.on, edited |-> FALSE]
    BY <1>0, <2>1 DEF TreeTypes
  <2>4. branch # Task!None /\ branch \in 0..MaxCommits /\ branch <= tree.head
    BY <1>0, <2>1 DEF DiskInv, TreeTypes
  <2>5. /\ tree.on \in BOOLEAN
        /\ (tree.on = TRUE /\ branch' = tree.head + 1) \/ (tree.on = FALSE /\ branch' = branch)
        /\ late \subseteq late' /\ late' \subseteq 0..MaxCommits
        /\ call.op = "discard" => tree.head + 1 \in late'
    BY <1>0, <2>1, <2>2, <2>3 DEF TreeTypes
  <2>6. TreeTypes'
    <3>1. tree' \in [head : 0..Task!None, on : BOOLEAN, edited : BOOLEAN]
      BY <2>2, <2>3, <2>5
    <3>2. branch' \in 0..Task!None
      BY <2>2, <2>4, <2>5
    <3>3. QED
      BY <1>0, <1>1, <2>1, <2>5, <3>1, <3>2 DEF TreeTypes
  <2>7. DiskInv'
    BY <1>0, <1>1, <2>1, <2>2, <2>3, <2>4, <2>5 DEF DiskInv, TreeTypes
  <2>8. TreeCallInv'
    <3>1. ~Task!At("discard", "outcome")
            /\ ~(call.op = "discard" /\ call.pc \in {"branch", "outcome"})
      BY <1>0, <2>1 DEF TreeCallInv, Task!At
    <3>2. Task!At("discard", "head") => branch' # Task!None /\ approval.head <= branch'
      BY <1>0, <2>2, <2>4, <2>5 DEF TreeCallInv, TreeTypes
    <3>3. call.op = "discard" /\ call.pc \in {"status", "primary", "remove", "branch"} =>
            branch' = approval.head \/ branch' \in late'
      BY <1>0, <2>5 DEF TreeCallInv
    <3>4. QED
      BY <1>0, <1>1, <2>1, <3>1, <3>2, <3>3 DEF TreeCallInv, Task!At
  <2>9. RecordInv'
    BY <1>0, <1>1, <2>1, <2>2, <2>3, <2>4, <2>5 DEF RecordInv, Task!At
  <2>10. Task!DiscardIsJust'
    <3>1. outcome.st # "discarded"
      BY <1>0, <2>4 DEF Task!DiscardIsJust
    <3>2. QED
      BY <1>0, <1>1, <2>1, <3>1 DEF Task!DiscardIsJust
  <2>11. QED
    BY <2>6, <2>7, <2>8, <2>9, <2>10 DEF TreeInv
<1>4. CASE Task!Tamper
  <2>1. UNCHANGED <<approval, branch, late>> /\ touched' = TRUE
    BY <1>4 DEF Task!Tamper
  <2>2. \/ /\ dir = "linked" /\ dir' = dir /\ main' = main
           /\ tree' = [tree EXCEPT !.on = FALSE]
        \/ /\ dir' \in {"none", "other"} /\ main' = main
           /\ tree' = [tree EXCEPT !.edited = FALSE]
        \/ /\ dir' = dir /\ tree' = tree
           /\ \/ main.target < MaxCommits /\ main' = [main EXCEPT !.target = @ + 1]
              \/ main' = [main EXCEPT !.usable = ~@]
    BY <1>4 DEF Task!Tamper
  <2>3. main' \in [target : 0..MaxCommits, usable : BOOLEAN]
    <3>1. CASE main.target < MaxCommits /\ main' = [main EXCEPT !.target = @ + 1]
      <4>1. main.target + 1 \in 0..MaxCommits
        BY <1>0, <3>1 DEF TreeTypes
      <4>2. QED
        BY <1>0, <3>1, <4>1 DEF TreeTypes
    <3>2. CASE main' = [main EXCEPT !.usable = ~@]
      BY <1>0, <3>2 DEF TreeTypes
    <3>3. QED
      BY <1>0, <2>2, <3>1, <3>2 DEF TreeTypes
  <2>4. /\ tree' \in [head : 0..Task!None, on : BOOLEAN, edited : BOOLEAN]
        /\ tree'.head = tree.head
        /\ tree'.edited = TRUE => dir' = "linked" /\ tree.edited = TRUE
        /\ dir' = "linked" => dir = "linked" /\ (tree'.on = TRUE => tree.on = TRUE)
        /\ dir' \in {"none", "linked", "other"} /\ (dir = "linked" \/ dir' # "linked")
        /\ tree.edited = TRUE => dir = "linked"
    BY <1>0, <2>2 DEF TreeTypes, DiskInv
  <2>5. TreeTypes'
    BY <1>0, <1>1, <2>1, <2>3, <2>4 DEF TreeTypes
  <2>6. DiskInv'
    BY <1>0, <1>1, <2>1, <2>4 DEF DiskInv
  <2>7. TreeCallInv' /\ RecordInv'
    BY <1>0, <1>1, <2>1, <2>4 DEF TreeCallInv, RecordInv, Task!At
  <2>8. Task!DiscardIsJust'
    BY <1>0, <1>1, <2>1 DEF Task!DiscardIsJust
  <2>9. QED
    BY <2>5, <2>6, <2>7, <2>8 DEF TreeInv
<1>5. CASE Task!Answer
  <2>1. /\ UNCHANGED <<dir, branch, tree, main, late, touched>>
        /\ \/ /\ approval.lc = "none" /\ dir = "linked"
              /\ approval' = [lc |-> "pending", head |-> tree.head]
           \/ /\ approval.lc = "pending"
              /\ \E lc \in {"approved", "denied"} : approval' = [approval EXCEPT !.lc = lc]
    BY <1>5 DEF Task!Answer, Task!diskVars, Task!histVars
  <2>2. /\ approval' \in [lc : {"none", "pending", "approved", "denied"}, head : 0..Task!None]
        /\ \/ approval'.head = tree.head /\ dir = "linked"
           \/ approval.lc = "pending" /\ approval'.head = approval.head
    BY <1>0, <2>1 DEF TreeTypes
  <2>3. call.op # "discard" /\ lost = {}
    BY <1>0, <2>1 DEF TreeCallInv, Task!DiscardIsJust
  <2>4. TreeTypes'
    BY <1>0, <1>1, <2>1, <2>2 DEF TreeTypes
  <2>5. DiskInv'
    BY <1>0, <1>1, <2>1, <2>2 DEF DiskInv, TreeTypes
  <2>6. TreeCallInv' /\ RecordInv'
    BY <1>0, <1>1, <2>1, <2>3 DEF TreeCallInv, RecordInv, Task!At
  <2>7. Task!DiscardIsJust'
    BY <1>0, <1>1, <2>1, <2>3 DEF Task!DiscardIsJust
  <2>8. QED
    BY <2>4, <2>5, <2>6, <2>7 DEF TreeInv
<1>6. QED
  BY <1>2, <1>3, <1>4, <1>5

\* The calls that create, open and prepare, and the host's end.
LEMMA CallStep ==
  ASSUME MaxCommits \in Nat, TreeInv,
         \/ Task!BeginCreate \/ Task!AddWorktree \/ Task!RecordWorktree \/ Task!Open \/ Task!Match
              \/ Task!Mark
         \/ Task!ReadTarget \/ Task!SavePreparation \/ Task!BeginDiscard \/ Task!Die
  PROVE  TreeInv'
<1> USE DEF Task!None
<1>0. TreeTypes /\ DiskInv /\ TreeCallInv /\ RecordInv /\ Task!DiscardIsJust
  BY DEF TreeInv
<1>1. UNCHANGED <<approval, main, late, lost, touched, outcome>>
  BY DEF Task!BeginCreate, Task!AddWorktree, Task!RecordWorktree, Task!Open, Task!Match,
     Task!Mark, Task!ReadTarget,
         Task!SavePreparation, Task!BeginDiscard, Task!Die, Task!rowVars, Task!histVars, Task!diskVars
<1>2. CASE Task!AddWorktree
  <2>1. UNCHANGED <<row, merge>> /\ call.op = "create" /\ call.pc = "add"
    BY <1>2 DEF Task!AddWorktree, Task!At, Task!rowVars
  <2>2. CASE Task!Returns /\ UNCHANGED Task!diskVars
    <3>1. call' = Task!Idle /\ UNCHANGED <<dir, branch, tree>>
      BY <2>2 DEF Task!Returns, Task!diskVars
    <3>2. TreeTypes'
      BY <1>0, <1>1, <2>1, <3>1 DEF TreeTypes, TreeCalls, CallSteps, Task!Idle
    <3>3. DiskInv' /\ TreeCallInv' /\ RecordInv'
      BY <1>0, <1>1, <2>1, <3>1 DEF DiskInv, TreeCallInv, RecordInv, Task!At, Task!Idle
    <3>4. Task!DiscardIsJust'
      BY <1>0, <1>1, <3>1 DEF Task!DiscardIsJust
    <3>5. QED
      BY <3>2, <3>3, <3>4 DEF TreeInv
  <2>3. CASE /\ dir = "none" /\ branch = Task!None /\ dir' = "linked" /\ branch' = call.base
             /\ tree' = [head |-> call.base, on |-> TRUE, edited |-> FALSE]
             /\ Task!Goes("record")
    <3>1. /\ call' \in TreeCalls /\ call'.op = "create" /\ call'.pc = "record"
          /\ call'.base = call.base /\ call.base \in 0..MaxCommits
      BY <1>0, <2>1, <2>3 DEF TreeTypes, TreeCalls, Task!Goes, CallSteps
    <3>2. row.st = "none" /\ approval.lc = "none" /\ outcome.st # "discarded"
      BY <1>0, <2>1, <2>3 DEF DiskInv, TreeCallInv
    <3>3. TreeTypes'
      BY <1>0, <1>1, <2>1, <2>3, <3>1 DEF TreeTypes
    <3>4. DiskInv' /\ TreeCallInv' /\ RecordInv'
      BY <1>0, <1>1, <2>1, <2>3, <3>1, <3>2 DEF DiskInv, TreeCallInv, RecordInv, Task!At
    <3>5. Task!DiscardIsJust'
      BY <1>0, <1>1, <2>1, <3>2 DEF Task!DiscardIsJust
    <3>6. QED
      BY <3>3, <3>4, <3>5 DEF TreeInv
  <2>4. QED
    BY <1>2, <2>2, <2>3 DEF Task!AddWorktree
<1>3. CASE ~Task!AddWorktree
  <2>1. UNCHANGED <<dir, branch, tree>>
    BY <1>3
    DEF Task!BeginCreate, Task!RecordWorktree, Task!Open, Task!Match, Task!Mark, Task!ReadTarget, Task!SavePreparation,
        Task!BeginDiscard, Task!Die, Task!diskVars
  <2>2. Task!DiscardIsJust'
    BY <1>0, <1>1, <2>1 DEF Task!DiscardIsJust
  <2>3. merge' \in [target : 0..Task!None, head : 0..Task!None]
    <3>1. merge' = merge \/ merge' = [target |-> call.target, head |-> tree.head]
      BY <1>3
      DEF Task!BeginCreate, Task!RecordWorktree, Task!Open, Task!Match, Task!Mark, Task!ReadTarget, Task!SavePreparation,
          Task!BeginDiscard, Task!Die, Task!rowVars
    <3>2. QED
      BY <1>0, <3>1 DEF TreeTypes, TreeCalls
  <2>4. row' \in [st : {"none", "ready", "recovery_required"}, base : 0..Task!None]
    <3>1. \/ row' = row \/ row' = [st |-> "ready", base |-> call.base]
          \/ row' = [row EXCEPT !.st = "recovery_required"]
      BY <1>3
      DEF Task!BeginCreate, Task!RecordWorktree, Task!Open, Task!Match, Task!Mark, Task!ReadTarget, Task!SavePreparation,
          Task!BeginDiscard, Task!Die, Task!rowVars
    <3>2. QED
      BY <1>0, <3>1 DEF TreeTypes, TreeCalls
  <2>5. CASE UNCHANGED row /\ call' = Task!Idle
    <3>1. TreeTypes'
      BY <1>0, <1>1, <2>1, <2>3, <2>5 DEF TreeTypes, TreeCalls, CallSteps, Task!Idle
    <3>2. DiskInv' /\ TreeCallInv' /\ RecordInv'
      BY <1>0, <1>1, <2>1, <2>5 DEF DiskInv, TreeCallInv, RecordInv, Task!At, Task!Idle
    <3>3. QED
      BY <2>2, <3>1, <3>2 DEF TreeInv
  <2>6. CASE Task!BeginCreate
    <3>1. /\ row' = row /\ row.st = "none"
          /\ call' = [op |-> "create", pc |-> "add", base |-> main.target, target |-> Task!None]
      BY <2>6 DEF Task!BeginCreate, Task!Idle, Task!rowVars
    <3>2. main.target \in 0..MaxCommits
      BY <1>0 DEF TreeTypes
    <3>3. TreeTypes'
      BY <1>0, <1>1, <2>1, <2>3, <3>1, <3>2 DEF TreeTypes, TreeCalls, CallSteps
    <3>4. DiskInv' /\ TreeCallInv' /\ RecordInv'
      BY <1>0, <1>1, <2>1, <3>1 DEF DiskInv, TreeCallInv, RecordInv, Task!At
    <3>5. QED
      BY <2>2, <3>3, <3>4 DEF TreeInv
  <2>7. CASE Task!RecordWorktree /\ row' = [st |-> "ready", base |-> call.base]
    <3>1. call' = Task!Idle /\ Task!At("create", "record") /\ row'.st = "ready"
      BY <2>7 DEF Task!RecordWorktree, Task!Returns
    <3>2. TreeTypes'
      BY <1>0, <1>1, <2>1, <2>3, <2>4, <3>1 DEF TreeTypes, TreeCalls, CallSteps, Task!Idle
    <3>3. DiskInv' /\ TreeCallInv' /\ RecordInv'
      BY <1>0, <1>1, <2>1, <3>1 DEF DiskInv, TreeCallInv, RecordInv, Task!At, Task!Idle
    <3>4. QED
      BY <2>2, <3>2, <3>3 DEF TreeInv
  <2>8. CASE Task!Open \/ Task!BeginDiscard
    <3>1. PICK op \in {"open", "prepare", "discard"}, pc \in {"match", "unverified"} :
            /\ call' = [op |-> op, pc |-> pc, base |-> Task!None, target |-> Task!None]
            /\ pc = "match" => row.st = "ready"
            /\ op = "discard" => approval.lc = "approved" /\ row.st # "none"
            /\ row' = row
      <4>1. CASE Task!Open
        <5>1. PICK op \in {"open", "prepare"} : call' = [Task!Idle EXCEPT !.op = op, !.pc = "match"]
          BY <4>1 DEF Task!Open
        <5>2. row.st = "ready" /\ row' = row
          BY <4>1 DEF Task!Open, Task!rowVars
        <5>3. QED
          BY <5>1, <5>2 DEF Task!Idle
      <4>2. CASE Task!BeginDiscard
        <5>1. CASE row.st = "ready"
          BY <4>2, <5>1 DEF Task!BeginDiscard, Task!Idle, Task!rowVars
        <5>2. CASE row.st # "ready"
          BY <4>2, <5>2 DEF Task!BeginDiscard, Task!Idle, Task!rowVars
        <5>3. QED
          BY <5>1, <5>2
      <4>3. QED
        BY <2>8, <4>1, <4>2
    <3>2. TreeTypes'
      BY <1>0, <1>1, <2>1, <2>3, <3>1 DEF TreeTypes, TreeCalls, CallSteps
    <3>3. DiskInv' /\ TreeCallInv' /\ RecordInv'
      BY <1>0, <1>1, <2>1, <3>1 DEF DiskInv, TreeCallInv, RecordInv, Task!At
    <3>4. QED
      BY <2>2, <3>2, <3>3 DEF TreeInv
  <2>9. CASE Task!Match
    <3>0. call.pc = "match" /\ row.st = "ready" /\ row' = row
      BY <1>0, <2>9 DEF Task!Match, TreeCallInv, Task!rowVars
    <3>1. CASE ~Task!Matches
      <4>1. call' = [call EXCEPT !.pc = "mark"] /\ (touched = TRUE \/ lost # {})
        <5>1. call' = [call EXCEPT !.pc = "mark"]
          BY <2>9, <3>1 DEF Task!Match, Task!Goes
        <5>2. touched = FALSE /\ lost = {} => Task!Matches
          BY <1>0, <3>0 DEF RecordInv, Task!Matches
        <5>3. QED
          BY <1>0, <3>1, <5>1, <5>2 DEF TreeTypes
      <4>2. /\ call' \in TreeCalls /\ call'.op = call.op /\ call'.pc = "mark"
            /\ call'.base = call.base
        BY <1>0, <4>1 DEF TreeTypes, TreeCalls, CallSteps
      <4>3. TreeTypes'
        BY <1>0, <1>1, <2>1, <2>3, <3>0, <4>2 DEF TreeTypes
      <4>4. DiskInv' /\ TreeCallInv' /\ RecordInv'
        BY <1>0, <1>1, <2>1, <3>0, <4>1, <4>2 DEF DiskInv, TreeCallInv, RecordInv, Task!At
      <4>5. QED
        BY <2>2, <4>3, <4>4 DEF TreeInv
    <3>2. CASE Task!Matches /\ call' # Task!Idle
      <4>1. PICK pc \in {"target", "head"} :
              call' = [call EXCEPT !.pc = pc] /\ (pc = "target" => call.op = "prepare")
        BY <2>9, <3>2 DEF Task!Match, Task!Goes, Task!Returns
      <4>2. /\ call' \in TreeCalls /\ call'.op = call.op /\ call'.pc = pc
            /\ call'.base = call.base
        BY <1>0, <4>1 DEF TreeTypes, TreeCalls, CallSteps
      <4>3. TreeTypes'
        BY <1>0, <1>1, <2>1, <2>3, <3>0, <4>2 DEF TreeTypes
      <4>4. Task!At("discard", "head")' => branch # Task!None /\ approval.head <= branch
        <5>1. dir = "linked" /\ tree.on = TRUE /\ branch # Task!None
          BY <1>0, <3>2 DEF Task!Matches, TreeTypes
        <5>2. QED
          BY <1>0, <4>2, <5>1 DEF DiskInv, TreeCallInv, Task!At
      <4>5. DiskInv' /\ TreeCallInv' /\ RecordInv'
        BY <1>0, <1>1, <2>1, <3>0, <4>2, <4>4 DEF DiskInv, TreeCallInv, RecordInv, Task!At
      <4>6. QED
        BY <2>2, <4>3, <4>5 DEF TreeInv
    <3>3. QED
      BY <2>5, <3>0, <3>1, <3>2
  <2>10. CASE Task!Mark
    <3>0. /\ call.pc = "mark" /\ row.st = "ready" /\ row'.st = "recovery_required"
          /\ (touched = TRUE \/ lost # {})
      <4>1. call.pc = "mark" /\ row.st = "ready"
        BY <1>0, <2>10 DEF Task!Mark, TreeCallInv
      <4>2. row'.st = "recovery_required"
        BY <1>0, <2>10 DEF Task!Mark, TreeTypes
      <4>3. touched = TRUE \/ lost # {}
        BY <1>0, <4>1 DEF RecordInv, TreeTypes
      <4>4. QED
        BY <4>1, <4>2, <4>3
    <3>1. /\ call' \in TreeCalls /\ call'.pc \in {"unverified", "idle"}
          /\ call'.op \in {call.op, "none"} /\ call'.op # "create"
      <4>1. call.op # "create" /\ call \in TreeCalls
        BY <1>0, <3>0 DEF TreeCallInv, TreeTypes
      <4>2. call' = [call EXCEPT !.pc = "unverified"] \/ call' = Task!Idle
        BY <2>10 DEF Task!Mark, Task!Goes, Task!Returns
      <4>3. QED
        BY <4>1, <4>2 DEF TreeCalls, CallSteps, Task!Idle
    <3>2. TreeTypes'
      BY <1>0, <1>1, <2>1, <2>3, <2>4, <3>1 DEF TreeTypes
    <3>3. DiskInv' /\ TreeCallInv' /\ RecordInv'
      BY <1>0, <1>1, <2>1, <3>0, <3>1 DEF DiskInv, TreeCallInv, RecordInv, Task!At
    <3>4. QED
      BY <2>2, <3>2, <3>3 DEF TreeInv
  <2>11. CASE Task!ReadTarget
    <3>1. /\ row' = row /\ call.op = "prepare"
          /\ call' = Task!Idle \/ call' = [call EXCEPT !.pc = "heads", !.target = main.target]
      BY <2>11 DEF Task!ReadTarget, Task!At, Task!Returns, Task!rowVars
    <3>2. CASE call' = [call EXCEPT !.pc = "heads", !.target = main.target]
      <4>1. /\ call' \in TreeCalls /\ call'.op = "prepare" /\ call'.pc = "heads"
        <5>1. call \in TreeCalls /\ main.target \in 0..Task!None
          BY <1>0 DEF TreeTypes
        <5>2. QED
          BY <3>1, <3>2, <5>1 DEF TreeCalls, CallSteps
      <4>2. TreeTypes'
        BY <1>0, <1>1, <2>1, <2>3, <3>1, <4>1 DEF TreeTypes
      <4>3. DiskInv' /\ TreeCallInv' /\ RecordInv'
        BY <1>0, <1>1, <2>1, <3>1, <4>1 DEF DiskInv, TreeCallInv, RecordInv, Task!At
      <4>4. QED
        BY <2>2, <4>2, <4>3 DEF TreeInv
    <3>3. QED
      BY <2>5, <3>1, <3>2
  <2>12. QED
    BY <1>3, <2>5, <2>6, <2>7, <2>8, <2>9, <2>10, <2>11
    DEF Task!RecordWorktree, Task!SavePreparation, Task!Die, Task!Returns, Task!rowVars
<1>4. QED
  BY <1>2, <1>3


\* A discard is refused, fails or is interrupted.
LEMMA DiscardReturns ==
  ASSUME MaxCommits \in Nat, TreeInv, UNCHANGED <<row, merge, approval, dir, branch, tree, main>>,
         UNCHANGED <<lost, touched>>, late' \subseteq late, call' = Task!Idle,
         outcome'.st \in {"none", "retained", outcome.st}
  PROVE  TreeInv'
<1>0. TreeTypes /\ DiskInv /\ TreeCallInv /\ RecordInv /\ Task!DiscardIsJust
  BY DEF TreeInv
<1>1. TreeTypes'
  BY <1>0 DEF TreeTypes, TreeCalls, CallSteps, Task!Idle, Task!None
<1>2. DiskInv' /\ TreeCallInv' /\ RecordInv'
  BY <1>0 DEF DiskInv, TreeCallInv, RecordInv, Task!At, Task!Idle, Task!None
<1>3. Task!DiscardIsJust'
  BY <1>0 DEF Task!DiscardIsJust, Task!None
<1>4. QED
  BY <1>1, <1>2, <1>3 DEF TreeInv

\* A discard, step by step.
LEMMA DiscardStep ==
  ASSUME MaxCommits \in Nat, TreeInv,
         \/ Task!Unverified \/ Task!CheckHead \/ Task!CheckStatus \/ Task!CheckPrimary
         \/ Task!RemoveWorktree \/ Task!RemoveBranch \/ Task!RecordOutcome
  PROVE  TreeInv'
<1> USE DEF Task!None
<1>0. TreeTypes /\ DiskInv /\ TreeCallInv /\ RecordInv /\ Task!DiscardIsJust
  BY DEF TreeInv
<1>1. UNCHANGED <<row, merge, approval, tree, main, touched>> /\ call.op = "discard"
  BY DEF Task!Unverified, Task!CheckHead, Task!Compared, Task!CheckStatus, Task!CheckPrimary,
     Task!RemoveWorktree, Task!RemoveBranch,
         Task!RecordOutcome, Task!At, Task!rowVars, Task!diskVars, Task!histVars
<1>2. approval.lc = "approved" /\ row.st # "none"
  BY <1>0, <1>1 DEF TreeCallInv
<1>3. ASSUME UNCHANGED <<dir, branch, lost>>, late' \subseteq late, Task!Returns,
             outcome'.st \in {"none", "retained", outcome.st}
      PROVE  TreeInv'
  BY <1>1, <1>3, DiscardReturns DEF Task!Returns
<1>4. ASSUME NEW pc \in CallSteps, Task!Goes(pc)
      PROVE  call' \in TreeCalls /\ call'.op = "discard" /\ call'.pc = pc
  BY <1>0, <1>1, <1>4 DEF TreeTypes, TreeCalls, Task!Goes
<1>5. CASE Task!Unverified \/ Task!RecordOutcome
  <2>1. UNCHANGED <<dir, branch, lost, late>> /\ Task!Returns
    BY <1>5 DEF Task!Unverified, Task!RecordOutcome, Task!diskVars, Task!histVars
  <2>2. CASE outcome'.st \in {"retained", outcome.st}
    BY <1>3, <2>1, <2>2
  <2>3. CASE Task!At("discard", "outcome") /\ outcome' = [st |-> "discarded", why |-> "none"]
    <3>1. TreeTypes'
      BY <1>0, <1>1, <2>1, <2>3 DEF TreeTypes, TreeCalls, CallSteps, Task!Idle, Task!Returns
    <3>2. DiskInv' /\ TreeCallInv' /\ RecordInv'
      BY <1>0, <1>1, <1>2, <2>1, <2>3 DEF DiskInv, TreeCallInv, RecordInv, Task!At, Task!Idle,
         Task!Returns
    <3>3. Task!DiscardIsJust'
      <4>1. \A x \in lost : x.is \in {"worktree", "branch"}
        BY <1>0 DEF TreeTypes
      <4>2. branch = Task!None /\ (\E x \in lost : x.is = "branch") /\ \E x \in lost : x.is = "worktree"
        BY <1>0, <2>3 DEF TreeCallInv, Task!At
      <4>3. {x.is : x \in lost} = {"worktree", "branch"}
        BY <4>1, <4>2
      <4>4. QED
        BY <1>0, <1>1, <2>1, <4>2, <4>3 DEF Task!DiscardIsJust
    <3>4. QED
      BY <3>1, <3>2, <3>3 DEF TreeInv
  <2>4. QED
    BY <1>5, <2>2, <2>3 DEF Task!Unverified, Task!RecordOutcome, Task!Retain
<1>6. CASE Task!CheckHead \/ Task!CheckStatus \/ Task!CheckPrimary
  <2>1. UNCHANGED <<dir, branch, lost>> /\ late' \subseteq late
    BY <1>6 DEF Task!CheckHead, Task!Compared, Task!CheckStatus, Task!CheckPrimary, Task!diskVars,
       Task!histVars
  <2>2. \/ Task!Returns /\ outcome'.st \in {"retained", outcome.st}
        \/ /\ Task!At("discard", "head") /\ tree.head = approval.head /\ Task!Goes("status")
           /\ outcome' = outcome
        \/ /\ call.pc \in {"status", "primary"} /\ late' = late /\ outcome' = outcome
           /\ Task!Goes("primary") \/ Task!Goes("remove")
    BY <1>6 DEF Task!CheckHead, Task!CheckStatus, Task!CheckPrimary, Task!Retain, Task!At,
       Task!histVars
  <2>3. CASE Task!Returns /\ outcome'.st \in {"retained", outcome.st}
    BY <1>3, <2>1, <2>3
  <2>4. ASSUME NEW pc \in {"status", "primary", "remove"}, Task!Goes(pc), outcome' = outcome,
               branch = approval.head \/ branch \in late'
        PROVE  TreeInv'
    <3>1. call' \in TreeCalls /\ call'.op = "discard" /\ call'.pc = pc
      BY <1>4, <2>4 DEF CallSteps
    <3>2. TreeTypes'
      BY <1>0, <1>1, <2>1, <2>4, <3>1 DEF TreeTypes
    <3>3. DiskInv' /\ TreeCallInv' /\ RecordInv'
      BY <1>0, <1>1, <1>2, <2>1, <2>4, <3>1 DEF DiskInv, TreeCallInv, RecordInv, Task!At
    <3>4. Task!DiscardIsJust'
      BY <1>0, <1>1, <2>1, <2>4 DEF Task!DiscardIsJust
    <3>5. QED
      BY <3>2, <3>3, <3>4 DEF TreeInv
  <2>5. CASE /\ Task!At("discard", "head") /\ tree.head = approval.head /\ Task!Goes("status")
             /\ outcome' = outcome
    <3>1. branch = approval.head
      BY <1>0, <2>5 DEF TreeCallInv, DiskInv, TreeTypes
    <3>2. QED
      BY <2>4, <2>5, <3>1
  <2>6. CASE /\ call.pc \in {"status", "primary"} /\ late' = late /\ outcome' = outcome
             /\ Task!Goes("primary") \/ Task!Goes("remove")
    <3>1. branch = approval.head \/ branch \in late'
      BY <1>0, <1>1, <2>6 DEF TreeCallInv
    <3>2. QED
      BY <2>4, <2>6, <3>1
  <2>7. QED
    BY <2>2, <2>3, <2>5, <2>6
<1>7. CASE Task!RemoveWorktree
  <2>1. UNCHANGED <<branch, late>> /\ call.pc = "remove"
    BY <1>7 DEF Task!RemoveWorktree, Task!At
  <2>2. CASE UNCHANGED <<dir, lost>> /\ Task!Returns /\ outcome'.st \in {"retained", outcome.st}
    BY <1>3, <2>1, <2>2
  <2>3. CASE /\ Task!Removable /\ dir' = "none" /\ Task!Goes("branch") /\ UNCHANGED outcome
             /\ lost' = lost \union
                  {[is |-> "worktree", head |-> tree.head, fine |-> ~tree.edited]}
    <3> DEFINE x == [is |-> "worktree", head |-> tree.head, fine |-> ~tree.edited]
    <3>0. call' \in TreeCalls /\ call'.op = "discard" /\ call'.pc = "branch"
      BY <1>4, <2>3 DEF CallSteps
    <3>1. tree.edited = FALSE
      BY <1>0, <2>3 DEF Task!Removable, DiskInv, TreeTypes
    <3>2. x.is = "worktree" /\ x.fine
      BY <3>1
    <3> HIDE DEF x
    <3>3. lost' = lost \union {x}
      BY <2>3 DEF x
    <3>4. TreeTypes'
      BY <1>0, <1>1, <2>1, <2>3, <3>0, <3>2, <3>3 DEF TreeTypes
    <3>5. DiskInv' /\ TreeCallInv' /\ RecordInv'
      BY <1>0, <1>1, <1>2, <2>1, <2>3, <3>0, <3>1, <3>2, <3>3
      DEF DiskInv, TreeCallInv, RecordInv, Task!At
    <3>6. \A y \in lost' : y.fine /\ approval.lc = "approved"
      BY <1>0, <1>2, <3>2, <3>3 DEF Task!DiscardIsJust
    <3>7. Task!DiscardIsJust'
      <4>1. outcome.st = "discarded" => {y.is : y \in lost'} = {y.is : y \in lost}
        BY <1>0, <3>2, <3>3 DEF Task!DiscardIsJust
      <4>2. QED
        BY <1>0, <1>1, <2>1, <2>3, <3>6, <4>1 DEF Task!DiscardIsJust
    <3>8. QED
      BY <3>4, <3>5, <3>7 DEF TreeInv
  <2>4. QED
    BY <1>7, <2>2, <2>3 DEF Task!RemoveWorktree, Task!Retain
<1>8. CASE Task!RemoveBranch
  <2>1. UNCHANGED <<dir, late>> /\ call.pc = "branch"
    BY <1>8 DEF Task!RemoveBranch, Task!At
  <2>2. CASE UNCHANGED <<branch, lost>> /\ Task!Returns /\ outcome'.st \in {"retained", outcome.st}
    BY <1>3, <2>1, <2>2
  <2>3. CASE /\ branch # Task!None /\ branch' = Task!None /\ Task!Goes("outcome") /\ UNCHANGED outcome
             /\ lost' = lost \union {[is |-> "branch", head |-> branch,
                                      fine |-> branch = approval.head \/ branch \in late]}
    <3> DEFINE x == [is |-> "branch", head |-> branch,
                     fine |-> branch = approval.head \/ branch \in late]
    <3>0. call' \in TreeCalls /\ call'.op = "discard" /\ call'.pc = "outcome"
      BY <1>4, <2>3 DEF CallSteps
    <3>1. branch = approval.head \/ branch \in late
      BY <1>0, <1>1, <2>1 DEF TreeCallInv
    <3>2. x.is = "branch" /\ x.fine
      BY <3>1
    <3> HIDE DEF x
    <3>3. lost' = lost \union {x}
      BY <2>3 DEF x
    <3>4. TreeTypes'
      BY <1>0, <1>1, <2>1, <2>3, <3>0, <3>2, <3>3 DEF TreeTypes
    <3>5. dir # "linked" /\ \E y \in lost : y.is = "worktree"
      BY <1>0, <1>1, <2>1 DEF TreeCallInv
    <3>6. DiskInv' /\ TreeCallInv' /\ RecordInv'
      BY <1>0, <1>1, <1>2, <2>1, <2>3, <3>0, <3>2, <3>3, <3>5
      DEF DiskInv, TreeCallInv, RecordInv, Task!At
    <3>7. \A y \in lost' : y.fine /\ approval.lc = "approved"
      BY <1>0, <1>2, <3>2, <3>3 DEF Task!DiscardIsJust
    <3>8. Task!DiscardIsJust'
      <4>1. outcome.st # "discarded"
        BY <1>0, <2>3 DEF Task!DiscardIsJust
      <4>2. QED
        BY <1>1, <2>3, <3>7, <4>1 DEF Task!DiscardIsJust
    <3>9. QED
      BY <3>4, <3>6, <3>8 DEF TreeInv
  <2>4. QED
    BY <1>8, <2>2, <2>3 DEF Task!RemoveBranch, Task!Retain
<1>9. QED
  BY <1>5, <1>6, <1>7, <1>8

\* Every step of a call, of a discard and of everybody else keeps it.
LEMMA TreeStep ==
  ASSUME MaxCommits \in Nat, TreeInv, Task!TreeNext
  PROVE  TreeInv'
BY OthersStep, CallStep, DiscardStep, Zenon DEF Task!TreeNext

\* What it is for.
LEMMA TreeHolds ==
  ASSUME MaxCommits \in Nat, TreeInv
  PROVE  Task!DiscardIsJust /\ Task!RecordIsBacked /\ Task!TreeTypeOK
<1>1. TreeTypes /\ RecordInv /\ Task!DiscardIsJust
  BY DEF TreeInv
<1>2. Task!RecordIsBacked
  <2>1. CASE touched = FALSE /\ lost = {}
    BY <1>1, <2>1 DEF RecordInv, Task!RecordIsBacked, Task!Matches
  <2>2. QED
    BY <1>1, <2>1 DEF TreeTypes, Task!RecordIsBacked
<1>3. Task!TreeTypeOK
  BY <1>1 DEF TreeTypes, TreeCalls, Task!TreeTypeOK, Task!Commits, Task!None
<1>4. QED
  BY <1>1, <1>2, <1>3

-------------------------------------------------------------------------------
(* ValidationChecks.                                                       *)

CheckRows ==
  [step : Nat,
   lc : {"Pending", "Running", "Passed", "Failed", "Incomplete"},
   saved : {"none", "passed", "failed", "timed_out", "cancelled", "invalid"}]
PrintedLines == [from : Checks!Streams, what : {"line", "wide", "bad"}]

Runners ==
  [at : {"idle", "create", "start", "spawn", "select", "wait", "save", "settle", "conclude"},
   step : Nat, first : Nat,
   outcome : {"none", "passed", "failed", "timed_out", "cancelled", "invalid"}]
Children == [state : {"none", "running", "exited"}, open : SUBSET Checks!Streams]

CheckTypes ==
  /\ checks \in Seq(CheckRows) /\ exited \in Seq(0..2) /\ Len(exited) = Len(checks)
  /\ runner \in Runners
  /\ child \in Children
  /\ orphans \subseteq 1..Len(checks)
  /\ channel \in Seq(PrintedLines) /\ Len(channel) <= ChannelSize
  /\ reading \subseteq Checks!Streams /\ kept \in [Checks!Streams -> 0..OutputLimit]
  /\ made \in Seq(SUBSET (1..Len(checks)))

\* The row of the check that is at work, and which of the run's are settled.
AtWork == {"start", "spawn", "select", "wait", "save", "settle"}

RunnerInv ==
  /\ runner.at # "idle" => runner.first # 0
  /\ runner.at \in AtWork => Checks!This # 0 /\ checks[Checks!This].lc \in {"Pending", "Running"}
  /\ runner.at \in AtWork \ {"settle"} => checks[Checks!This].saved = "none"
  /\ runner.at = "settle" => checks[Checks!This].saved = runner.outcome
  /\ Checks!Running => runner.at \in {"select", "wait"}
  /\ runner.at \in {"start", "spawn"} => Checks!This \notin orphans
  /\ runner.at \in {"save", "settle"} =>
       /\ runner.outcome = "passed" => exited[Checks!This] = 0
       /\ runner.outcome \in {"timed_out", "cancelled", "invalid"} =>
            Checks!This \notin orphans
  /\ runner.at # "idle" =>
       \A c \in runner.first..Checks!This :
         checks[c].saved = "passed" /\ (c = Checks!This => runner.at \notin AtWork) =>
           checks[c].lc = "Passed"

ChecksInv == CheckTypes /\ RunnerInv /\ Checks!ChecksAreBacked

\* No check was created.
LEMMA ChecksInit ==
  ASSUME {OutputLimit, ChannelSize} \subseteq Nat
  PROVE  Checks!ChecksStart => ChecksInv
<1> SUFFICES ASSUME Checks!ChecksStart PROVE ChecksInv
  OBVIOUS
<1>1. CheckTypes
  BY DEF Checks!ChecksStart, CheckTypes, Runners, Children, Checks!Off, Checks!NoChild,
     Checks!Streams
<1>2. QED
  BY <1>1
  DEF Checks!ChecksStart, ChecksInv, RunnerInv, Checks!ChecksAreBacked, Checks!Off, Checks!NoChild, Checks!This,
      Checks!Running, AtWork

\* One row is written, or one more is made.
LEMMA RowsWritten ==
  ASSUME CheckTypes, NEW c \in 1..Len(checks), NEW r \in CheckRows
  PROVE  /\ [checks EXCEPT ![c] = r] \in Seq(CheckRows)
         /\ Len([checks EXCEPT ![c] = r]) = Len(checks)
         /\ DOMAIN [checks EXCEPT ![c] = r] = 1..Len(checks)
         /\ \A d \in 1..Len(checks) :
              [checks EXCEPT ![c] = r][d] = IF d = c THEN r ELSE checks[d]
BY DEF CheckTypes, Runners, Children

\* An exit status is recorded for one check.
LEMMA ExitedWritten ==
  ASSUME CheckTypes, NEW c \in 1..Len(checks), NEW e \in 0..2
  PROVE  /\ [exited EXCEPT ![c] = e] \in Seq(0..2)
         /\ Len([exited EXCEPT ![c] = e]) = Len(checks)
         /\ \A d \in 1..Len(checks) :
              [exited EXCEPT ![c] = e][d] = IF d = c THEN e ELSE exited[d]
BY DEF CheckTypes, Runners, Children

\* The child, its descendants and the readers leave the rows alone.
LEMMA ChildStep ==
  ASSUME ChecksInv, OutputLimit \in Nat, ChannelSize \in Nat,
         Checks!Prints \/ Checks!Forks \/ Checks!ClosesOutput \/ Checks!Exits \/ Checks!OrphansEnd
  PROVE  ChecksInv'
<1>0. CheckTypes /\ RunnerInv /\ Checks!ChecksAreBacked
  BY DEF ChecksInv
<1>1. /\ Len(checks) \in Nat /\ DOMAIN checks = 1..Len(checks)
      /\ Checks!This \in 1..Len(checks) <=> Checks!This # 0
  BY <1>0 DEF CheckTypes, Runners, Children, Checks!This
<1>2. Checks!Running => Checks!This # 0 /\ checks[Checks!This].saved = "none"
  BY <1>0 DEF RunnerInv, AtWork
<1>3. UNCHANGED <<checks, profile, runner, kept, made>>
  BY DEF Checks!Prints, Checks!Forks, Checks!ClosesOutput, Checks!Exits, Checks!OrphansEnd
<1>4. CASE Checks!Prints
  <2>1. /\ channel' \in Seq(PrintedLines) /\ Len(channel') <= ChannelSize
        /\ reading' \subseteq Checks!Streams
    BY <1>0, <1>4 DEF Checks!Prints, CheckTypes, Runners, Children, PrintedLines
  <2>2. UNCHANGED <<child, orphans, exited>>
    BY <1>4 DEF Checks!Prints
  <2>3. QED
    BY <1>0, <1>3, <2>1, <2>2
    DEF ChecksInv, CheckTypes, Runners, Children, RunnerInv, Checks!ChecksAreBacked, Checks!This, Checks!Running
<1>5. CASE Checks!Forks
  <2>1. UNCHANGED <<child, channel, reading, exited>> /\ Checks!Running
        /\ orphans' = orphans \union {Checks!This}
    BY <1>5 DEF Checks!Forks
  <2>2. runner.at \in {"select", "wait"}
    BY <1>0, <2>1 DEF RunnerInv
  <2>3. CheckTypes'
    BY <1>0, <1>1, <1>2, <1>3, <2>1 DEF CheckTypes, Runners, Children
  <2>4. RunnerInv'
    BY <1>0, <1>3, <2>1, <2>2 DEF RunnerInv, Checks!This, Checks!Running
  <2>5. Checks!ChecksAreBacked'
    BY <1>0, <1>2, <1>3, <2>1 DEF Checks!ChecksAreBacked
  <2>6. QED
    BY <2>3, <2>4, <2>5 DEF ChecksInv
<1>6. CASE Checks!ClosesOutput
  <2>1. UNCHANGED <<orphans, channel, reading, exited>>
        /\ child' \in Children
        /\ child'.state = child.state
    BY <1>0, <1>6 DEF Checks!ClosesOutput, CheckTypes, Runners, Children
  <2>2. QED
    BY <1>0, <1>3, <2>1
    DEF ChecksInv, CheckTypes, Runners, Children, RunnerInv, Checks!ChecksAreBacked, Checks!This, Checks!Running
<1>7. CASE Checks!Exits
  <2>1. PICK status \in {0, 1} : exited' = [exited EXCEPT ![Checks!This] = status]
    BY <1>7 DEF Checks!Exits
  <2>2. /\ UNCHANGED <<orphans, channel, reading>> /\ Checks!Running
        /\ child' = [state |-> "exited",
                     open |-> IF Checks!This \in orphans THEN child.open ELSE {}]
    BY <1>7 DEF Checks!Exits
  <2>3. /\ exited' \in Seq(0..2) /\ Len(exited') = Len(checks)
        /\ \A d \in 1..Len(checks) : exited'[d] = IF d = Checks!This THEN status ELSE exited[d]
    BY <1>0, <1>1, <1>2, <2>1, <2>2, ExitedWritten
  <2>4. CheckTypes'
    BY <1>0, <1>3, <2>2, <2>3 DEF CheckTypes, Runners, Children
  <2>5. runner.at \in {"select", "wait"}
    BY <1>0, <2>2 DEF RunnerInv
  <2>6. RunnerInv'
    BY <1>0, <1>3, <2>2, <2>5 DEF RunnerInv, Checks!This, Checks!Running
  <2>7. Checks!ChecksAreBacked'
    BY <1>0, <1>1, <1>2, <1>3, <2>2, <2>3 DEF Checks!ChecksAreBacked
  <2>8. QED
    BY <2>4, <2>6, <2>7 DEF ChecksInv
<1>8. CASE Checks!OrphansEnd
  <2>1. UNCHANGED <<channel, reading, exited>> /\ orphans' \subseteq orphans
        /\ child' \in Children
        /\ child'.state = child.state
    BY <1>0, <1>8 DEF Checks!OrphansEnd, CheckTypes, Runners, Children
  <2>2. QED
    BY <1>0, <1>3, <2>1
    DEF ChecksInv, CheckTypes, Runners, Children, RunnerInv, Checks!ChecksAreBacked, Checks!This, Checks!Running
<1>9. QED
  BY <1>4, <1>5, <1>6, <1>7, <1>8

\* The runner goes on, and writes no row.
LEMMA RunnerReads ==
  ASSUME ChecksInv, OutputLimit \in Nat, ChannelSize \in Nat,
         Checks!Begin \/ Checks!Spawn \/ Checks!TakeLine \/ Checks!TakeEnd \/ Checks!CutShort
           \/ Checks!WaitEnds \/ Checks!StepFails
  PROVE  ChecksInv'
<1>0. CheckTypes /\ RunnerInv /\ Checks!ChecksAreBacked
  BY DEF ChecksInv
<1>1. Len(checks) \in Nat /\ DOMAIN checks = 1..Len(checks)
  BY <1>0 DEF CheckTypes, Runners, Children
<1>2. UNCHANGED <<checks, exited, made>>
  BY DEF Checks!Begin, Checks!Spawn, Checks!TakeLine, Checks!TakeEnd, Checks!CutShort,
     Checks!WaitEnds, Checks!StepFails
<1>3. CheckTypes'
  <2>1. CASE Checks!Begin
    <3>1. runner' = [at |-> "create", step |-> 1, first |-> Len(checks) + 1,
                     outcome |-> "none"]
      BY <2>1 DEF Checks!Begin, Checks!Off, Checks!This
    <3>2. UNCHANGED <<child, orphans, channel, reading, kept>>
      BY <2>1 DEF Checks!Begin
    <3>3. QED
      BY <1>0, <1>1, <1>2, <3>1, <3>2 DEF CheckTypes, Runners, Children
  <2>2. CASE Checks!Spawn
    <3>1. /\ \/ runner' = [runner EXCEPT !.at = "save", !.outcome = "invalid"]
             \/ runner' = [runner EXCEPT !.at = "select"]
          /\ \/ UNCHANGED <<child, reading, kept>>
             \/ /\ child' = [state |-> "running", open |-> Checks!Streams]
                /\ reading' = Checks!Streams /\ kept' = [s \in Checks!Streams |-> 0]
          /\ UNCHANGED <<orphans, channel>>
      BY <2>2 DEF Checks!Spawn, Checks!Stays
    <3>2. runner' \in Runners
      BY <1>0, <3>1 DEF CheckTypes, Runners
    <3>3. child' \in Children /\ reading' \subseteq Checks!Streams
            /\ kept' \in [Checks!Streams -> 0..OutputLimit]
      BY <1>0, <3>1 DEF CheckTypes, Children
    <3>4. QED
      BY <1>0, <1>2, <3>1, <3>2, <3>3 DEF CheckTypes
  <2>3. CASE Checks!TakeLine
    <3>1. /\ channel # <<>> /\ channel \in Seq(PrintedLines) /\ Len(channel) <= ChannelSize
          /\ channel' = Tail(channel)
      BY <1>0, <2>3 DEF Checks!TakeLine, CheckTypes, Runners, Children
    <3>2. /\ Head(channel) \in PrintedLines /\ channel' \in Seq(PrintedLines)
          /\ Len(channel') <= ChannelSize
      BY <3>1, HeadTailProperties, LenProperties
    <3>3. kept' \in [Checks!Streams -> 0..OutputLimit]
      <4> DEFINE l == Head(channel)
                 cut == kept[l.from] + (IF Checks!Width(l) <= Checks!Left(l.from) THEN Checks!Width(l)
                                        ELSE Checks!Left(l.from))
      <4>1. l.from \in Checks!Streams /\ kept \in [Checks!Streams -> 0..OutputLimit]
        BY <1>0, <3>2 DEF PrintedLines, CheckTypes, Runners, Children
      <4>2. kept[l.from] \in 0..OutputLimit
        BY <4>1
      <4>3. cut \in 0..OutputLimit
        BY <4>2 DEF Checks!Left, Checks!Width
      <4>4. kept' = [kept EXCEPT ![l.from] = IF cut < OutputLimit THEN cut + 1 ELSE cut]
        BY <2>3 DEF Checks!TakeLine
      <4>5. (IF cut < OutputLimit THEN cut + 1 ELSE cut) \in 0..OutputLimit
        BY <4>3
      <4> HIDE DEF cut, l
      <4>6. QED
        BY <4>1, <4>4, <4>5
    <3>4. UNCHANGED <<runner, child, orphans, reading>>
      BY <2>3 DEF Checks!TakeLine
    <3>5. QED
      BY <1>0, <1>2, <3>2, <3>3, <3>4 DEF CheckTypes, Runners, Children
  <2>4. CASE Checks!TakeEnd
    <3>1. /\ channel \in Seq(PrintedLines) /\ Len(channel) <= ChannelSize
          /\ channel' = channel \/ (channel # <<>> /\ channel' = Tail(channel))
      BY <1>0, <2>4 DEF Checks!TakeEnd, CheckTypes, Runners, Children
    <3>2. channel' \in Seq(PrintedLines) /\ Len(channel') <= ChannelSize
      BY <3>1, HeadTailProperties, LenProperties
    <3>3. UNCHANGED <<child, orphans, reading, kept>> /\ runner' = [runner EXCEPT !.at = "wait"]
      BY <2>4 DEF Checks!TakeEnd, Checks!Stays
    <3>4. QED
      BY <1>0, <1>2, <3>2, <3>3 DEF CheckTypes, Runners, Children
  <2>5. CASE Checks!CutShort
    <3>1. PICK o \in {"timed_out", "cancelled"} :
            runner' = [runner EXCEPT !.at = "save", !.outcome = o]
      BY <2>5 DEF Checks!CutShort
    <3>2. /\ orphans' \subseteq orphans /\ child' = [state |-> "exited", open |-> {}]
          /\ channel' = <<>> /\ reading' = {} /\ kept' = kept
      BY <2>5 DEF Checks!CutShort, Checks!KillGroup, Checks!HangUp
    <3>3. runner' \in Runners
      BY <1>0, <3>1 DEF CheckTypes, Runners
    <3>4. child' \in Children
      BY <3>2 DEF Children
    <3>5. QED
      BY <1>0, <1>2, <3>2, <3>3, <3>4 DEF CheckTypes
  <2>6. CASE Checks!WaitEnds
    <3>1. /\ \/ runner' = [runner EXCEPT !.at = "save", !.outcome = "passed"]
             \/ runner' = [runner EXCEPT !.at = "save", !.outcome = "failed"]
          /\ UNCHANGED <<child, orphans, kept>> /\ channel' = <<>> /\ reading' = {}
      BY <2>6 DEF Checks!WaitEnds, Checks!HangUp
    <3>2. runner' \in Runners
      BY <1>0, <3>1 DEF CheckTypes, Runners
    <3>3. QED
      BY <1>0, <1>2, <3>1, <3>2 DEF CheckTypes
  <2>7. CASE Checks!StepFails
    BY <1>0, <2>7 DEF Checks!StepFails, Checks!Leaves, Checks!Off, CheckTypes, Runners, Children
  <2>8. QED
    BY <2>1, <2>2, <2>3, <2>4, <2>5, <2>6, <2>7
<1>4. orphans' \subseteq orphans
  BY DEF Checks!Begin, Checks!Spawn, Checks!TakeLine, Checks!TakeEnd, Checks!CutShort,
     Checks!KillGroup, Checks!WaitEnds, Checks!StepFails
<1>5. RunnerInv'
  <2> USE <1>0, <1>1, <1>2 DEF RunnerInv, Checks!This, Checks!Running, AtWork
  <2>1. CASE Checks!Begin
    <3>1. runner' = [at |-> "create", step |-> 1, first |-> Len(checks) + 1,
                     outcome |-> "none"]
      BY <2>1 DEF Checks!Begin, Checks!Off
    <3>2. runner.at = "idle" /\ UNCHANGED <<child, orphans>>
      BY <2>1 DEF Checks!Begin, Checks!Off
    <3>3. QED
      BY <3>1, <3>2
  <2>2. CASE Checks!Spawn
    <3>1. /\ runner.at = "spawn" /\ orphans' = orphans
          /\ \/ runner'.at = "save" /\ runner'.outcome = "invalid" /\ child' = child
             \/ runner'.at = "select"
          /\ runner'.first = runner.first
      BY <2>2 DEF Checks!Spawn, Checks!Stays, CheckTypes, Runners, Children
    <3>2. QED
      BY <3>1
  <2>3. CASE Checks!TakeLine
    BY <2>3 DEF Checks!TakeLine
  <2>4. CASE Checks!TakeEnd
    BY <2>4 DEF Checks!TakeEnd, Checks!Stays, CheckTypes, Runners, Children, Checks!Off
  <2>5. CASE Checks!CutShort
    <3>1. PICK o \in {"timed_out", "cancelled"} :
            runner' = [runner EXCEPT !.at = "save", !.outcome = o]
      BY <2>5 DEF Checks!CutShort
    <3>2. /\ runner.at = "select" /\ orphans' = orphans \ {Checks!This}
          /\ child'.state = "exited"
      BY <2>5 DEF Checks!CutShort, Checks!KillGroup
    <3>3. runner'.at = "save" /\ runner'.outcome = o /\ runner'.first = runner.first
      BY <3>1 DEF CheckTypes, Runners, Children
    <3>4. QED
      BY <3>2, <3>3
  <2>6. CASE Checks!WaitEnds
    BY <2>6 DEF Checks!WaitEnds, CheckTypes, Runners, Children, Checks!Off
  <2>7. CASE Checks!StepFails
    BY <2>7 DEF Checks!StepFails, Checks!Leaves, Checks!Off
  <2>8. QED
    BY <2>1, <2>2, <2>3, <2>4, <2>5, <2>6, <2>7
<1>6. Checks!ChecksAreBacked'
  BY <1>0, <1>2, <1>4 DEF Checks!ChecksAreBacked
<1>7. QED
  BY <1>3, <1>5, <1>6 DEF ChecksInv

\* The runner writes the row of its check.
LEMMA RunnerWrites ==
  ASSUME ChecksInv, OutputLimit \in Nat, ChannelSize \in Nat,
         Checks!StartResult \/ Checks!Save \/ Checks!Settled
  PROVE  ChecksInv'
<1>0. CheckTypes /\ RunnerInv /\ Checks!ChecksAreBacked
  BY DEF ChecksInv
<1>1. /\ Len(checks) \in Nat /\ DOMAIN checks = 1..Len(checks)
      /\ Checks!This \in 1..Len(checks) /\ checks[Checks!This] \in CheckRows
      /\ checks[Checks!This].lc \in {"Pending", "Running"}
      /\ runner.at \in {"start", "save", "settle"}
  BY <1>0 DEF CheckTypes, Runners, Children, Checks!This, Checks!StartResult, Checks!Save,
     Checks!Settled, RunnerInv, AtWork
<1>2. UNCHANGED <<child, orphans, channel, reading, kept, exited, made>>
  BY DEF Checks!StartResult, Checks!Save, Checks!Settled
<1>3. PICK r \in CheckRows :
        /\ checks' = [checks EXCEPT ![Checks!This] = r]
        /\ Checks!StartResult => r.lc = "Running" /\ r.saved = "none"
        /\ Checks!Save => r.lc = checks[Checks!This].lc /\ r.saved = runner.outcome
        /\ Checks!Settled => r.lc = Checks!Lifecycle /\ r.saved = checks[Checks!This].saved
  <2>1. CASE Checks!StartResult
    <3>1. checks' = [checks EXCEPT ![Checks!This] = [checks[Checks!This] EXCEPT !.lc = "Running"]]
      BY <2>1 DEF Checks!StartResult, Checks!Store
    <3>2. checks[Checks!This].saved = "none" /\ runner.at = "start"
      BY <1>0, <2>1 DEF RunnerInv, Checks!StartResult, AtWork
    <3>3. ~Checks!Save /\ ~Checks!Settled
      BY <3>2 DEF Checks!Save, Checks!Settled
    <3>4. QED
      BY <1>1, <3>1, <3>2, <3>3 DEF CheckRows
  <2>2. CASE Checks!Save
    <3>1. checks' = [checks EXCEPT ![Checks!This] = [checks[Checks!This] EXCEPT !.saved = runner.outcome]]
      BY <2>2 DEF Checks!Save
    <3>2. ~Checks!StartResult /\ ~Checks!Settled /\ runner.outcome \in
             {"none", "passed", "failed", "timed_out", "cancelled", "invalid"}
      BY <1>0, <2>2 DEF Checks!Save, Checks!Settled, Checks!StartResult, CheckTypes, Runners,
         Children
    <3>3. QED
      BY <1>1, <3>1, <3>2 DEF CheckRows
  <2>3. CASE Checks!Settled
    <3>1. checks' = [checks EXCEPT ![Checks!This] = [checks[Checks!This] EXCEPT !.lc = Checks!Lifecycle]]
      BY <2>3 DEF Checks!Settled, Checks!Store
    <3>2. ~Checks!StartResult /\ ~Checks!Save
      BY <2>3 DEF Checks!Save, Checks!Settled, Checks!StartResult
    <3>3. Checks!Lifecycle \in {"Passed", "Failed", "Incomplete"}
      BY DEF Checks!Lifecycle
    <3> HIDE DEF Checks!Lifecycle
    <3>4. [checks[Checks!This] EXCEPT !.lc = Checks!Lifecycle] \in CheckRows
      BY <1>1, <3>3 DEF CheckRows
    <3>5. /\ [checks[Checks!This] EXCEPT !.lc = Checks!Lifecycle].lc = Checks!Lifecycle
          /\ [checks[Checks!This] EXCEPT !.lc = Checks!Lifecycle].saved = checks[Checks!This].saved
      BY <1>1 DEF CheckRows
    <3>6. QED
      BY <3>1, <3>2, <3>4, <3>5
  <2>4. QED
    BY <2>1, <2>2, <2>3
<1>4. /\ checks' \in Seq(CheckRows) /\ Len(checks') = Len(checks)
      /\ DOMAIN checks' = 1..Len(checks)
      /\ \A d \in 1..Len(checks) : checks'[d] = IF d = Checks!This THEN r ELSE checks[d]
  BY <1>0, <1>1, <1>3, RowsWritten
<1>5. /\ runner' \in [at : {"spawn", "settle", "create", "conclude"}, step : Nat,
                      first : {runner.first}, outcome : {"none", runner.outcome}]
      /\ Checks!StartResult => runner'.at = "spawn"
      /\ Checks!Save => runner'.at = "settle" /\ runner'.outcome = runner.outcome
      /\ Checks!Settled => runner'.at \in {"create", "conclude"}
  <2>0. runner \in Runners
    BY <1>0 DEF CheckTypes, Runners, Children
  <2>1. CASE Checks!StartResult
    BY <2>0, <2>1 DEF Checks!StartResult, Checks!Stays, Checks!Save, Checks!Settled, Runners
  <2>2. CASE Checks!Save
    BY <2>0, <2>2 DEF Checks!StartResult, Checks!Stays, Checks!Save, Checks!Settled, Runners
  <2>3. CASE Checks!Settled
    <3>1. runner.at = "settle"
          /\ \/ runner' = [runner EXCEPT !.at = "create", !.step = @ + 1, !.outcome = "none"]
             \/ runner' = [runner EXCEPT !.at = "conclude"]
      BY <2>3 DEF Checks!Settled
    <3>2. runner.step + 1 \in Nat
      BY <2>0 DEF Runners
    <3>3. ~Checks!StartResult /\ ~Checks!Save
      BY <3>1 DEF Checks!StartResult, Checks!Save
    <3>4. CASE runner' = [runner EXCEPT !.at = "conclude"]
      BY <2>0, <3>3, <3>4 DEF Runners
    <3>5. CASE runner' = [runner EXCEPT !.at = "create", !.step = @ + 1, !.outcome = "none"]
      <4>1. runner' = [at |-> "create", step |-> runner.step + 1, first |-> runner.first,
                       outcome |-> "none"]
        BY <2>0, <3>5 DEF Runners
      <4>2. QED
        BY <3>2, <3>3, <4>1
    <3>6. QED
      BY <3>1, <3>4, <3>5
  <2>4. QED
    BY <2>1, <2>2, <2>3
<1>6. CheckTypes'
  BY <1>0, <1>2, <1>4, <1>5 DEF CheckTypes, Runners, Children
<1>7. Checks!Settled => (r.saved = "passed" <=> r.lc = "Passed") /\ r.saved = runner.outcome
  BY <1>0, <1>3 DEF RunnerInv, Checks!Settled, Checks!Lifecycle
<1>8. RunnerInv'
  <2>0. /\ Checks!This' = Checks!This /\ runner'.first = runner.first /\ Checks!This = Len(checks)
        /\ \A d \in runner.first..Checks!This : d # Checks!This => checks'[d] = checks[d]
        /\ checks'[Checks!This] = r /\ runner'.at # "idle" /\ runner.first \in Nat
        /\ Checks!Running' = Checks!Running
    <3>1. runner.first \in Nat
      BY <1>0 DEF CheckTypes, Runners
    <3>2. runner.first # 0
      BY <1>0, <1>1 DEF RunnerInv
    <3>3. Checks!This' = Checks!This /\ Checks!This = Len(checks) /\ Checks!Running' = Checks!Running
      BY <1>2, <1>4 DEF Checks!This, Checks!Running
    <3>4. checks'[Checks!This] = r /\
            \A d \in runner.first..Checks!This : d # Checks!This => checks'[d] = checks[d]
      <4>1. \A d \in runner.first..Checks!This : d \in 1..Len(checks)
        BY <1>1, <3>1, <3>2, <3>3
      <4>2. \A d \in 1..Len(checks) : checks'[d] = IF d = Checks!This THEN r ELSE checks[d]
        BY <1>4
      <4>3. QED
        BY <1>1, <4>1, <4>2
    <3>5. runner'.first = runner.first /\ runner'.at # "idle"
      BY <1>5
    <3>6. QED
      BY <3>1, <3>3, <3>4, <3>5
  <2>1. CASE Checks!StartResult
    <3>1. /\ runner.at = "start" /\ runner'.at = "spawn" /\ r.lc = "Running"
          /\ r.saved = "none"
      BY <1>3, <1>5, <2>1 DEF Checks!StartResult
    <3>2. QED
      BY <1>0, <1>1, <1>2, <2>0, <3>1 DEF RunnerInv, AtWork
  <2>2. CASE Checks!Save
    <3>1. /\ runner.at = "save" /\ runner'.at = "settle" /\ r.lc = checks[Checks!This].lc
          /\ r.saved = runner.outcome /\ runner'.outcome = runner.outcome
      BY <1>3, <1>5, <2>2 DEF Checks!Save
    <3>2. QED
      BY <1>0, <1>1, <1>2, <2>0, <3>1 DEF RunnerInv, AtWork
  <2>3. CASE Checks!Settled
    <3>1. /\ runner.at = "settle" /\ runner'.at \in {"create", "conclude"}
          /\ r.saved = "passed" => r.lc = "Passed"
      BY <1>5, <1>7, <2>3 DEF Checks!Settled
    <3>2. ~Checks!Running /\ runner.first # 0
      BY <1>0, <3>1 DEF RunnerInv
    <3>3. \A c \in runner.first..Checks!This : checks'[c].saved = "passed" => checks'[c].lc = "Passed"
      BY <1>0, <2>0, <3>1 DEF RunnerInv, AtWork
    <3>4. QED
      BY <2>0, <3>1, <3>2, <3>3 DEF RunnerInv, AtWork
  <2>4. QED
    BY <2>1, <2>2, <2>3
<1>9. Checks!ChecksAreBacked'
  <2>1. \A g \in DOMAIN made : \A c \in made[g] : c # Checks!This /\ c \in 1..Len(checks)
    BY <1>0, <1>1 DEF Checks!ChecksAreBacked, CheckTypes, Runners, Children
  <2>2. /\ r.lc = "Passed" => r.saved = "passed"
        /\ r.saved = "passed" => exited[Checks!This] = 0
        /\ r.saved \in {"timed_out", "cancelled", "invalid"} => Checks!This \notin orphans
    BY <1>0, <1>1, <1>3, <1>7 DEF RunnerInv, Checks!Save, Checks!Settled, Checks!StartResult
  <2>3. QED
    BY <1>0, <1>1, <1>2, <1>4, <2>1, <2>2 DEF Checks!ChecksAreBacked
<1>10. QED
  BY <1>6, <1>8, <1>9 DEF ChecksInv

\* The rows of a run are created together, all of them pending.
LEMMA RunnerCreates ==
  ASSUME ChecksInv, OutputLimit \in Nat, ChannelSize \in Nat, Checks!CreateResult
  PROVE  ChecksInv'
<1> DEFINE n == Len(checks) + 1
           r == [step |-> runner.step, lc |-> "Pending", saved |-> "none"]
<1>0. CheckTypes /\ RunnerInv /\ Checks!ChecksAreBacked
  BY DEF ChecksInv
<1>1. /\ Len(checks) \in Nat /\ DOMAIN checks = 1..Len(checks)
      /\ r \in CheckRows /\ orphans \subseteq 1..Len(checks)
      /\ made \in Seq(SUBSET (1..Len(checks)))
  BY <1>0 DEF CheckTypes, Runners, Children, CheckRows
<1>2. /\ checks' \in Seq(CheckRows) /\ Len(checks') = n /\ DOMAIN checks' = 1..n
      /\ \A d \in 1..n : checks'[d] = IF d = n THEN r ELSE checks[d]
  BY <1>0, <1>1 DEF Checks!CreateResult, CheckTypes, Runners, Children
<1>3. /\ exited' \in Seq(0..2) /\ Len(exited') = n
      /\ \A d \in 1..n : exited'[d] = IF d = n THEN Checks!NoCode ELSE exited[d]
  BY <1>0, <1>1 DEF Checks!CreateResult, CheckTypes, Runners, Children, Checks!NoCode
<1>4. made \in Seq(SUBSET (1..n))
  <2>1. SUBSET (1..Len(checks)) \subseteq SUBSET (1..n)
    BY <1>1
  <2>2. QED
    BY <1>1, <2>1, SeqMonotonic
<1>5. UNCHANGED <<profile, orphans, channel, reading, kept, made>> /\ child' = Checks!NoChild
      /\ runner.at = "create" /\ runner' = [runner EXCEPT !.at = "start"]
  BY DEF Checks!CreateResult, Checks!Stays
<1> HIDE DEF r
<1>r. r.lc = "Pending" /\ r.saved = "none"
  BY DEF r
<1>t. /\ runner' \in [at : {"start"}, step : Nat, first : {runner.first},
                      outcome : {runner.outcome}]
      /\ runner.first \in Nat /\ runner.first # 0
      /\ runner.outcome \in {"none", "passed", "failed", "timed_out", "cancelled", "invalid"}
  BY <1>0, <1>5 DEF CheckTypes, Runners, Children, RunnerInv
<1>6. CheckTypes'
  <2>1. runner' \in Runners
    BY <1>t DEF Runners
  <2>2. child' \in Children
    BY <1>5 DEF Checks!NoChild, Children
  <2>3. orphans' \subseteq 1..n
    BY <1>1, <1>5
  <2>4. QED
    BY <1>0, <1>2, <1>3, <1>4, <1>5, <2>1, <2>2, <2>3 DEF CheckTypes, Runners, Children
<1>7. RunnerInv'
  <2>1. /\ Checks!This' = n /\ checks'[n] = r /\ n \notin orphans' /\ ~Checks!Running' /\ n # 0
        /\ runner'.first = runner.first /\ runner'.at = "start"
    BY <1>1, <1>2, <1>5, <1>t DEF Checks!This, Checks!Running, Checks!NoChild
  <2>2. \A c \in runner.first..n : c # n => checks'[c] = checks[c] /\ c \in runner.first..Checks!This
    BY <1>1, <1>2, <1>t DEF Checks!This
  <2>3. QED
    BY <1>0, <1>5, <1>r, <1>t, <2>1, <2>2 DEF RunnerInv, AtWork
<1>8. \A g \in DOMAIN made : made[g] \subseteq 1..Len(checks)
  BY <1>1
<1>9. Checks!ChecksAreBacked'
  <2>1. \A g \in DOMAIN made' : \A c \in made'[g] : checks'[c] = checks[c]
    BY <1>1, <1>2, <1>5, <1>8
  <2>2. \A c \in 1..n : \/ c = n /\ checks'[c] = r
                        \/ c \in 1..Len(checks) /\ checks'[c] = checks[c] /\ exited'[c] = exited[c]
    BY <1>1, <1>2, <1>3
  <2>3. QED
    BY <1>0, <1>1, <1>2, <1>5, <1>r, <2>1, <2>2 DEF Checks!ChecksAreBacked
<1>10. QED
  BY <1>6, <1>7, <1>9 DEF ChecksInv

\* A generation is made of settled rows.
LEMMA RunnerConcludes ==
  ASSUME ChecksInv, OutputLimit \in Nat, ChannelSize \in Nat, Checks!Conclude
  PROVE  ChecksInv'
<1>0. CheckTypes /\ RunnerInv /\ Checks!ChecksAreBacked
  BY DEF ChecksInv
<1>1. /\ UNCHANGED <<checks, profile, child, orphans, channel, reading, kept, exited>>
      /\ runner.at = "conclude" /\ runner' = Checks!Off
      /\ made' = made \/ (Checks!AllPassed /\ made' = Append(made, Checks!OfRun))
  BY DEF Checks!Conclude, Checks!Leaves
<1>2. /\ Checks!OfRun \subseteq 1..Len(checks) /\ Len(checks) \in Nat
      /\ DOMAIN checks = 1..Len(checks)
  BY <1>0, <1>1 DEF Checks!OfRun, Checks!This, CheckTypes, Runners, Children, RunnerInv
<1>3. made' \in Seq(SUBSET (1..Len(checks)))
  <2>1. Checks!OfRun \in SUBSET (1..Len(checks)) /\ made \in Seq(SUBSET (1..Len(checks)))
    BY <1>0, <1>2 DEF CheckTypes, Runners, Children
  <2>2. made' = made \/ made' = Append(made, Checks!OfRun)
    BY <1>1
  <2>3. Append(made, Checks!OfRun) \in Seq(SUBSET (1..Len(checks)))
    BY <2>1, AppendProperties, Zenon
  <2>4. QED
    BY <2>1, <2>2, <2>3, Zenon
<1>4. CheckTypes'
  BY <1>0, <1>1, <1>3 DEF CheckTypes, Runners, Children, Checks!Off
<1>5. RunnerInv'
  BY <1>0, <1>1 DEF RunnerInv, Checks!Off, Checks!This, Checks!Running, AtWork
<1>6. Checks!AllPassed => \A c \in Checks!OfRun : checks[c].lc = "Passed"
  BY <1>0, <1>1 DEF Checks!AllPassed, Checks!OfRun, RunnerInv, AtWork
<1>7. \A g \in DOMAIN made' : \A c \in made'[g] : checks[c].lc = "Passed"
  <2>1. CASE made' = made
    BY <1>0, <2>1 DEF Checks!ChecksAreBacked
  <2>2. CASE Checks!AllPassed /\ made' = Append(made, Checks!OfRun)
    <3>1. \A g \in DOMAIN made' : made'[g] = Checks!OfRun \/ (g \in DOMAIN made /\ made'[g] = made[g])
      BY <1>0, <1>2, <2>2 DEF CheckTypes, Runners, Children
    <3>2. QED
      BY <1>0, <1>6, <2>2, <3>1 DEF Checks!ChecksAreBacked
  <2>3. QED
    BY <1>1, <2>1, <2>2
<1>8. Checks!ChecksAreBacked'
  BY <1>0, <1>1, <1>7 DEF Checks!ChecksAreBacked
<1>9. QED
  BY <1>4, <1>5, <1>8 DEF ChecksInv

\* The application ends: what runs is left behind, and the rows stay as they are.
LEMMA HostEndsStep ==
  ASSUME ChecksInv, OutputLimit \in Nat, ChannelSize \in Nat, Checks!HostEnds
  PROVE  ChecksInv'
<1>0. CheckTypes /\ RunnerInv /\ Checks!ChecksAreBacked
  BY DEF ChecksInv
<1>1. Len(checks) \in Nat /\ DOMAIN checks = 1..Len(checks)
      /\ \A c \in 1..Len(checks) : checks[c] \in CheckRows
  BY <1>0 DEF CheckTypes, Runners, Children
<1>2. PICK recovers \in BOOLEAN :
        checks' = [c \in DOMAIN checks |-> IF recovers /\ checks[c].lc = "Running"
                                           THEN [checks[c] EXCEPT !.lc = "Incomplete"]
                                           ELSE checks[c]]
  BY DEF Checks!HostEnds
<1>3. /\ DOMAIN checks' = 1..Len(checks)
      /\ \A c \in 1..Len(checks) :
           /\ checks'[c] \in CheckRows /\ checks'[c].saved = checks[c].saved
           /\ checks'[c].lc = checks[c].lc
                \/ (checks[c].lc = "Running" /\ checks'[c].lc = "Incomplete")
  BY <1>1, <1>2 DEF CheckRows
<1>4. checks' \in Seq(CheckRows) /\ Len(checks') = Len(checks)
  <2>1. checks' \in [1..Len(checks) -> CheckRows]
    BY <1>1, <1>2, <1>3
  <2>2. checks' \in Seq(CheckRows)
    BY <1>1, <2>1, SeqDef
  <2>3. QED
    BY <1>1, <1>3, <2>2, LenProperties
<1>5. /\ runner' = Checks!Off /\ channel' = <<>> /\ reading' = {}
      /\ orphans' = IF Checks!Running THEN orphans \union {Checks!This} ELSE orphans
      /\ child' = IF Checks!Running THEN [child EXCEPT !.state = "exited"] ELSE child
      /\ UNCHANGED <<profile, kept, exited, made>>
  BY DEF Checks!HostEnds, Checks!Leaves, Checks!HangUp
<1>6. Checks!Running => Checks!This \in 1..Len(checks) /\ checks[Checks!This].saved = "none"
  <2>1. Checks!Running => Checks!This # 0 /\ checks[Checks!This].saved = "none"
    BY <1>0 DEF RunnerInv, AtWork
  <2>2. QED
    BY <1>1, <2>1 DEF Checks!This
<1>t. /\ child' \in Children
      /\ child'.state # "running"
  BY <1>0, <1>5 DEF CheckTypes, Runners, Children, Checks!Running
<1>7. CheckTypes'
  <2>1. orphans' \subseteq 1..Len(checks)
    BY <1>0, <1>5, <1>6 DEF CheckTypes, Runners, Children
  <2>2. runner' \in Runners /\ channel' \in Seq(PrintedLines) /\ Len(channel') <= ChannelSize
    BY <1>5 DEF Runners, Checks!Off
  <2>3. QED
    BY <1>0, <1>1, <1>4, <1>5, <1>t, <2>1, <2>2 DEF CheckTypes
<1>8. RunnerInv'
  BY <1>5, <1>t DEF RunnerInv, Checks!Off, Checks!Running, AtWork
<1>9. \A g \in DOMAIN made : made[g] \subseteq 1..Len(checks)
  BY <1>0 DEF CheckTypes, Runners, Children
<1>10. Checks!ChecksAreBacked'
  BY <1>0, <1>1, <1>3, <1>5, <1>6, <1>9 DEF Checks!ChecksAreBacked
<1>11. QED
  BY <1>7, <1>8, <1>10 DEF ChecksInv

\* Every step of the runner, of a check's process and of the application keeps it.
LEMMA ChecksStep ==
  ASSUME {OutputLimit, ChannelSize} \subseteq Nat, ChecksInv, Checks!ChecksNext
  PROVE  ChecksInv'
BY ChildStep, RunnerReads, RunnerWrites, RunnerCreates, RunnerConcludes, HostEndsStep
DEF Checks!ChecksNext

\* What it is for.
LEMMA ChecksHold ==
  ASSUME {OutputLimit, ChannelSize} \subseteq Nat, ChecksInv
  PROVE  Checks!ChecksAreBacked /\ Checks!ChecksTypeOK
<1>1. CheckTypes /\ Checks!ChecksAreBacked
  BY DEF ChecksInv
<1>2. DOMAIN checks = 1..Len(checks) /\ \A c \in DOMAIN checks : checks[c] \in CheckRows
  BY <1>1 DEF CheckTypes, Runners, Children
<1>3. QED
  BY <1>1, <1>2 DEF CheckTypes, Runners, Children, CheckRows, Checks!ChecksTypeOK

-------------------------------------------------------------------------------
(* ReviewSnapshot.                                                         *)

SnapshotSteps ==
  {Review!Idle} \union ({"validate", "before", "after"}
                   \X {"commit", "tracked", "untracked", "read"})
    \union {Review!At("copy", "tracked"), Review!At("copy", "untracked"), Review!At("make", "base"),
            Review!At("make", "patched"), Review!At("seal", "root")}

SnapshotTypes ==
  /\ Review!SnapshotTypeOK /\ step \in SnapshotSteps
  /\ root \in [is : {"none", "open", "sealed"}, of : [Review!Parts -> 0..2]]
  /\ edited \in [Review!Parts -> Nat]

\* What was read of a part is still there, or the part was written since the
\* review began.
StillRead(p) == read[p] = content[p] \/ edited[p] >= 1
StillValid(p) == generation[p] = content[p] \/ edited[p] >= 1

\* A copy of a part is what was validated; or the part was written, and is
\* still what was copied; or it was written twice.
CopiedWell(p, copy) ==
  \/ copy = generation[p] \/ edited[p] >= 2
  \/ edited[p] >= 1 /\ copy = content[p]

\* So that what is read of it afterwards tells.
ReadAfter(p) ==
  root.of[p] = generation[p] \/ edited[p] >= 2 \/ root.of[p] = read[p]

SnapshotInv ==
  /\ SnapshotTypes
  /\ step = Review!At("before", "untracked") => StillRead("tracked")
  /\ step = Review!At("before", "read") => \A p \in Review!Copied : StillRead(p)
  /\ step = Review!At("copy", "tracked") => \A p \in Review!Copied : StillValid(p)
  /\ step = Review!At("copy", "untracked") =>
       CopiedWell("tracked", read["tracked"]) /\ StillValid("untracked")
  /\ step \in {Review!At("make", "base"), Review!At("make", "patched")} =>
       \A p \in Review!Copied : CopiedWell(p, read[p])
  /\ step \in {Review!At("after", "commit"), Review!At("after", "tracked")} =>
       \A p \in Review!Copied : CopiedWell(p, root.of[p])
  /\ step = Review!At("after", "untracked") =>
       ReadAfter("tracked") /\ CopiedWell("untracked", root.of["untracked"])
  /\ step = Review!At("after", "read") => \A p \in Review!Copied : ReadAfter(p)
  /\ step = Review!At("seal", "root") \/ result = "snapshot" =>
       \A p \in Review!Copied : root.of[p] = generation[p] \/ edited[p] >= 2
  /\ result = "snapshot" =>
       root.is = "sealed" /\ (step = Review!Idle \/ step[1] = "validate")

\* No review has begun.
LEMMA SnapshotInit ==
  ASSUME {MaxWrites, MaxReviews, MaxFailures} \subseteq Nat
  PROVE  Review!SnapshotStart => SnapshotInv
BY DEF Review!SnapshotStart, SnapshotInv, SnapshotTypes, Review!SnapshotTypeOK, SnapshotSteps,
       Review!Unread, Review!NoRoot, Review!Idle, Review!At, Review!Parts, Review!Copied

\* Every step has its types.
LEMMA SnapshotTypesStep ==
  ASSUME {MaxWrites, MaxReviews, MaxFailures} \subseteq Nat,
         SnapshotTypes, Review!SnapshotNext
  PROVE  SnapshotTypes'
<1> USE DEF SnapshotTypes, Review!SnapshotTypeOK, SnapshotSteps, Review!At, Review!Idle, Review!Parts, Review!Unread,
            Review!NoRoot, Review!Copied, Review!Returns
<1>1. CASE Review!WritePart
  BY <1>1 DEF Review!WritePart
<1>2. CASE Review!Validate
  BY <1>2 DEF Review!Validate, Review!ReadEvidence, Review!ReadPart
<1>3. CASE Review!SnapshotFails
  BY <1>3 DEF Review!SnapshotFails
<1>4. CASE Review!MakeRoom
  BY <1>4 DEF Review!MakeRoom, Review!CanRemove
<1>5. CASE Review!ReadEvidence("before") \/ Review!Capture \/ Review!ReadEvidence("after")
  BY <1>5 DEF Review!ReadEvidence, Review!Capture, Review!ReadPart
<1>6. CASE Review!MakeBase \/ Review!Patch \/ Review!Seal
  BY <1>6 DEF Review!MakeBase, Review!Patch, Review!Seal
<1>7. CASE Review!CompareTwice
  BY <1>7 DEF Review!CompareTwice, Review!Compare
<1>8. QED
  BY <1>1, <1>2, <1>3, <1>4, <1>5, <1>6, <1>7 DEF Review!SnapshotNext, Review!Materialize

\* Every step of a review and every edit beside it keeps it.
LEMMA SnapshotStep ==
  ASSUME {MaxWrites, MaxReviews, MaxFailures} \subseteq Nat,
         SnapshotInv, Review!SnapshotNext
  PROVE  SnapshotInv'
<1>0. SnapshotTypes /\ SnapshotTypes'
  BY SnapshotTypesStep DEF SnapshotInv
<1> USE <1>0 DEF SnapshotInv, Review!At, Review!Idle, Review!Copied, StillRead, StillValid, CopiedWell, ReadAfter
<1>t. /\ content \in [Review!Parts -> 1..2] /\ generation \in [Review!Parts -> 0..2]
      /\ read \in [Review!Parts -> 0..2] /\ edited \in [Review!Parts -> Nat]
      /\ root.of \in [Review!Parts -> 0..2] /\ Review!Parts = {"commit", "tracked", "untracked"}
  BY DEF SnapshotTypes, Review!SnapshotTypeOK, Review!Parts
<1>1. CASE Review!WritePart
  BY <1>1, <1>t DEF Review!WritePart
<1>2. CASE Review!Validate
  BY <1>2, <1>t DEF Review!Validate, Review!ReadEvidence, Review!ReadPart, Review!Returns
<1>3. CASE Review!SnapshotFails
  BY <1>3 DEF Review!SnapshotFails, Review!Returns
<1>4. CASE Review!MakeRoom
  BY <1>4 DEF Review!MakeRoom, Review!CanRemove, Review!Returns
<1>5. CASE Review!ReadEvidence("before")
  BY <1>5, <1>t DEF Review!ReadEvidence, Review!ReadPart
<1>6. CASE Review!Capture
  BY <1>6, <1>t DEF Review!Capture, Review!ReadPart
<1>7. CASE Review!ReadEvidence("after")
  BY <1>7, <1>t DEF Review!ReadEvidence, Review!ReadPart
<1>8. CASE Review!MakeBase \/ Review!Patch \/ Review!Seal
  BY <1>8, <1>t DEF Review!MakeBase, Review!Patch, Review!Seal, Review!Returns, SnapshotTypes
<1>9. CASE Review!CompareTwice
  BY <1>9, <1>t DEF Review!CompareTwice, Review!Compare, Review!Returns
<1>10. QED
  BY <1>1, <1>2, <1>3, <1>4, <1>5, <1>6, <1>7, <1>8, <1>9
  DEF Review!SnapshotNext, Review!Materialize

\* What a review is given is the generation that was validated.
LEMMA SnapshotHolds == SnapshotInv => Review!SnapshotIsTheGeneration /\ Review!SnapshotTypeOK
BY DEF SnapshotInv, SnapshotTypes, Review!SnapshotIsTheGeneration

-------------------------------------------------------------------------------
(* RepairRounds.                                                           *)

FindingRows == [issue : Issues, gen : Nat, disp : Repair!Disposition, round : Nat]
InRound ==
  {"opened", "assign", "handoff", "repair", "await", "validate", "dispose", "resolved",
   "exhausted"}
Turns ==
  [at : {"idle", "review", "persist", "verify"} \union InRound, max : Nat, used : Nat,
   target : Nat, todo : SUBSET Issues, claimed : BOOLEAN, passed : BOOLEAN]

RoundTypes ==
  /\ findings \in Seq(FindingRows)
  /\ \A f \in 1..Len(findings) :
       findings[f].gen \in 1..Len(gens) /\ findings[f].round \in 0..Len(rounds)
  /\ rounds \in Seq(Repair!RoundLifecycle) /\ gens \in Seq(1..MaxVersions) /\ Len(gens) # 0
  /\ code \in [version : 1..MaxVersions, differs : SUBSET Issues]
  /\ turn \in Turns /\ turn.used <= turn.max /\ turn.target <= Len(findings)
  /\ heard \in [gen : Nat, issues : SUBSET Issues]
  /\ sent \in Seq(Nat \ {0}) /\ \A k \in 1..Len(sent) : sent[k] \in 1..Len(findings)
  /\ conclusion \in {"none", "storage", "limit", "unresolved", "invalid", "ready"}

\* Where the last round stands, and whose it is.
RoundInv ==
  /\ turn.at \in InRound => turn.used < turn.max /\ Len(rounds) # 0
  /\ turn.at = "opened" => rounds[Len(rounds)] = "Pending"
  /\ turn.at \in {"assign", "handoff", "repair", "await"} => rounds[Len(rounds)] = "Active"
  /\ turn.at \in {"validate", "dispose", "resolved", "exhausted"} =>
       rounds[Len(rounds)] = "AwaitingValidation"
  /\ turn.at \in {"handoff", "repair", "await", "validate", "dispose", "resolved"} =>
       turn.target # 0 /\ findings[turn.target].round = Len(rounds)
  /\ turn.at = "handoff" => \A k \in 1..Len(sent) : sent[k] # turn.target
  /\ turn.at \in {"repair", "await", "validate", "dispose", "resolved"} =>
       \E k \in 1..Len(sent) : sent[k] = turn.target
  /\ turn.at \in {"validate", "dispose", "exhausted"} =>
       \A f \in 1..Len(findings) :
         findings[f].round = Len(rounds) => findings[f].disp # "Repaired"
  /\ turn.at = "dispose" /\ turn.passed = TRUE => findings[turn.target].gen < Len(gens)
  /\ turn.at = "resolved" => findings[turn.target].disp = "Repaired"
  /\ \A k \in 1..Len(sent) : findings[sent[k]].round # 0

\* What the last review saw, while it is acted upon.
HeardInv ==
  /\ turn.at \in {"persist", "verify"} =>
       heard.gen = Len(gens) /\ gens[Len(gens)] = code.version
  /\ turn.at = "persist" =>
       \A i \in heard.issues :
         i \in turn.todo
           \/ \E f \in 1..Len(findings) : findings[f].issue = i /\ findings[f].gen = Len(gens)
  /\ turn.at = "verify" =>
       \A i \in heard.issues : \E f \in 1..Len(findings) :
         findings[f].issue = i /\ findings[f].gen = Len(gens)
           /\ findings[f].disp = "Dismissed"
  /\ conclusion = "ready" => turn.at = "idle"

RoundsInv == RoundTypes /\ RoundInv /\ HeardInv /\ Repair!RoundsAreSound

\* Last, without its guard.
LEMMA LastIs == ASSUME NEW s PROVE Repair!Last(s) = s[Len(s)]
BY DEF Repair!Last

\* Nothing was found yet.
LEMMA RoundsInit ==
  ASSUME MaxVersions \in Nat \ {0}
  PROVE  Repair!RoundStart => RoundsInv
<1> SUFFICES ASSUME Repair!RoundStart PROVE RoundsInv
  OBVIOUS
<1>1. /\ findings = <<>> /\ rounds = <<>> /\ gens = <<1>> /\ turn = Repair!Quiet /\ sent = <<>>
      /\ code = [version |-> 1, differs |-> Issues] /\ heard = [gen |-> 0, issues |-> {}]
      /\ conclusion = "none" /\ Len(gens) = 1 /\ Len(findings) = 0 /\ Len(sent) = 0
  BY DEF Repair!RoundStart
<1>2. gens \in Seq(1..MaxVersions)
  BY <1>1
<1>3. Repair!Quiet \in Turns
  BY DEF Repair!Quiet, Turns
<1>4. RoundTypes
  BY <1>1, <1>2, <1>3 DEF RoundTypes, Repair!Quiet
<1>5. RoundInv /\ HeardInv
  BY <1>1 DEF RoundInv, HeardInv, Repair!Quiet, InRound
<1>6. Repair!RoundsAreSound
  BY <1>1 DEF Repair!RoundsAreSound, Repair!HandedOnce, Repair!RepairsAreBacked,
     Repair!ReadyWasReviewed
<1>7. QED
  BY <1>4, <1>5, <1>6 DEF RoundsInv

\* A call moves on or ends, and nothing is written.
LEMMA RoundQuietStep ==
  ASSUME RoundsInv, MaxRoundsOfCall \in Nat,
         Repair!Prepare \/ Repair!StaleRound \/ Repair!Settle \/ Repair!NoRound \/ Repair!Verify
           \/ Repair!Lapse
  PROVE  RoundsInv'
<1>0. RoundTypes /\ RoundInv /\ HeardInv /\ Repair!RoundsAreSound
  BY DEF RoundsInv
<1>1. UNCHANGED <<findings, rounds, gens, code, heard, sent>>
  BY DEF Repair!Prepare, Repair!StaleRound, Repair!Settle, Repair!NoRound, Repair!Verify,
     Repair!Lapse
<1>2. \/ turn' = Repair!Quiet /\ conclusion' \in {"none", "storage", "limit", "unresolved", "invalid"}
      \/ turn' = Repair!Quiet /\ conclusion' = "ready" /\ turn.at = "verify"
      \/ /\ \E n \in 1..MaxRoundsOfCall : turn' = [Repair!Quiet EXCEPT !.at = "review", !.max = n]
         /\ conclusion' = "none"
      \/ /\ turn.at = "persist" /\ turn.todo = {} /\ turn' = [turn EXCEPT !.at = "verify"]
         /\ conclusion' = conclusion
         /\ \A f \in DOMAIN findings : findings[f].disp \in {"Repaired", "Dismissed"}
  BY Zenon DEF Repair!Prepare, Repair!StaleRound, Repair!Settle, Repair!NoRound, Repair!Verify,
     Repair!Lapse, Repair!Returns, Repair!To, Repair!Persisted
<1>3. DOMAIN findings = 1..Len(findings) /\ DOMAIN sent = 1..Len(sent)
  BY <1>0 DEF RoundTypes
<1>4. Repair!HandedOnce' /\ Repair!RepairsAreBacked'
  BY <1>0, <1>1 DEF Repair!RoundsAreSound, Repair!HandedOnce, Repair!RepairsAreBacked
<1>5. CASE turn' = Repair!Quiet /\ conclusion' # "ready"
             /\ conclusion' \in {"none", "storage", "limit", "unresolved", "invalid"}
  <2>1. RoundTypes'
    BY <1>0, <1>1, <1>5 DEF RoundTypes, Repair!Quiet, Turns
  <2>2. RoundInv' /\ HeardInv'
    BY <1>0, <1>1, <1>5 DEF RoundInv, HeardInv, Repair!Quiet, InRound
  <2>3. Repair!ReadyWasReviewed'
    BY <1>5 DEF Repair!ReadyWasReviewed
  <2>4. QED
    BY <1>4, <2>1, <2>2, <2>3 DEF RoundsInv, Repair!RoundsAreSound
<1>6. CASE turn' = Repair!Quiet /\ conclusion' = "ready" /\ turn.at = "verify"
  <2>1. RoundTypes'
    BY <1>0, <1>1, <1>6 DEF RoundTypes, Repair!Quiet, Turns
  <2>2. RoundInv' /\ HeardInv'
    BY <1>0, <1>1, <1>6 DEF RoundInv, HeardInv, Repair!Quiet, InRound
  <2>3. Repair!ReadyWasReviewed'
    <3>1. /\ heard.gen = Len(gens) /\ Repair!Last(gens) = code.version
          /\ \A i \in heard.issues : \E f \in DOMAIN findings :
               findings[f].issue = i /\ findings[f].gen = heard.gen
                 /\ findings[f].disp = "Dismissed"
      <4>1. /\ heard.gen = Len(gens) /\ gens[Len(gens)] = code.version
            /\ \A i \in heard.issues : \E f \in 1..Len(findings) :
                 findings[f].issue = i /\ findings[f].gen = Len(gens)
                   /\ findings[f].disp = "Dismissed"
        BY <1>0, <1>6 DEF HeardInv
      <4>2. Repair!Last(gens) = code.version
        BY <4>1, LastIs
      <4>3. QED
        BY <1>3, <4>1, <4>2
    <3>2. QED
      BY <1>1, <3>1 DEF Repair!ReadyWasReviewed
  <2>4. QED
    BY <1>4, <2>1, <2>2, <2>3 DEF RoundsInv, Repair!RoundsAreSound
<1>7. CASE /\ \E n \in 1..MaxRoundsOfCall : turn' = [Repair!Quiet EXCEPT !.at = "review", !.max = n]
           /\ conclusion' = "none"
  <2>0. turn' \in Turns /\ turn'.at = "review" /\ turn'.used = 0 /\ turn'.target = 0
    <3>1. PICK n \in 1..MaxRoundsOfCall : turn' = [Repair!Quiet EXCEPT !.at = "review", !.max = n]
      BY <1>7
    <3>2. n \in Nat
      OBVIOUS
    <3>3. QED
      BY <3>1, <3>2 DEF Repair!Quiet, Turns
  <2>1. RoundTypes'
    BY <1>0, <1>1, <1>7, <2>0 DEF RoundTypes, Turns
  <2>2. RoundInv' /\ HeardInv'
    BY <1>0, <1>1, <1>7, <2>0 DEF RoundInv, HeardInv, InRound
  <2>3. Repair!ReadyWasReviewed'
    BY <1>7 DEF Repair!ReadyWasReviewed
  <2>4. QED
    BY <1>4, <2>1, <2>2, <2>3 DEF RoundsInv, Repair!RoundsAreSound
<1>8. CASE /\ turn.at = "persist" /\ turn.todo = {} /\ turn' = [turn EXCEPT !.at = "verify"]
           /\ conclusion' = conclusion
           /\ \A f \in DOMAIN findings : findings[f].disp \in {"Repaired", "Dismissed"}
  <2>0. turn' \in Turns /\ turn'.at = "verify" /\ turn'.used = turn.used
        /\ turn'.target = turn.target /\ turn'.max = turn.max
    BY <1>0, <1>8 DEF RoundTypes, Turns
  <2>1. RoundTypes'
    BY <1>0, <1>1, <1>8, <2>0 DEF RoundTypes
  <2>2. RoundInv'
    BY <1>0, <1>1, <1>8, <2>0 DEF RoundInv, InRound
  <2>3. conclusion # "ready"
    BY <1>0, <1>8 DEF HeardInv
  <2>4. HeardInv'
    <3>1. \A f \in 1..Len(findings) :
            findings[f].gen = Len(gens) => findings[f].disp = "Dismissed"
      BY <1>0, <1>3, <1>8 DEF Repair!RoundsAreSound, Repair!RepairsAreBacked, RoundTypes
    <3>2. QED
      BY <1>0, <1>1, <1>8, <2>0, <2>3, <3>1 DEF HeardInv
  <2>5. Repair!ReadyWasReviewed'
    BY <1>8, <2>3 DEF Repair!ReadyWasReviewed
  <2>6. QED
    BY <1>4, <2>1, <2>2, <2>4, <2>5 DEF RoundsInv, Repair!RoundsAreSound
<1>9. QED
  BY <1>2, <1>5, <1>6, <1>7, <1>8

\* Versions of the tree, generations of it and reviews of them.
LEMMA RoundTreeStep ==
  ASSUME RoundsInv, MaxVersions \in Nat \ {0},
         Repair!Validate \/ Repair!Edit \/ Repair!Review \/ Repair!Repair \/ Repair!ValidateRepair
  PROVE  RoundsInv'
<1>0. RoundTypes /\ RoundInv /\ HeardInv /\ Repair!RoundsAreSound
  BY DEF RoundsInv
<1>1. UNCHANGED <<findings, rounds, sent>>
  BY DEF Repair!Validate, Repair!Edit, Repair!Review, Repair!Repair, Repair!ValidateRepair
<1>2. /\ DOMAIN findings = 1..Len(findings) /\ DOMAIN sent = 1..Len(sent)
      /\ Len(gens) \in Nat \ {0} /\ code.version \in 1..MaxVersions
      /\ Append(gens, code.version) \in Seq(1..MaxVersions)
      /\ Len(Append(gens, code.version)) = Len(gens) + 1
      /\ Append(gens, code.version)[Len(gens) + 1] = code.version
  BY <1>0 DEF RoundTypes
<1>3. Repair!HandedOnce'
  BY <1>0, <1>1 DEF Repair!RoundsAreSound, Repair!HandedOnce
<1>4. CASE Repair!Validate
  <2>1. /\ turn.at = "idle" /\ gens' = Append(gens, code.version)
        /\ UNCHANGED <<code, turn, heard, conclusion>> /\ conclusion # "ready"
    <3>1. Repair!Last(gens) # code.version /\ turn = Repair!Quiet /\ gens' = Append(gens, code.version)
          /\ UNCHANGED <<code, turn, heard, conclusion>>
      BY <1>4 DEF Repair!Validate
    <3>2. QED
      BY <1>0, <3>1 DEF Repair!RoundsAreSound, Repair!ReadyWasReviewed, Repair!Quiet
  <2>2. RoundTypes'
    BY <1>0, <1>1, <1>2, <2>1 DEF RoundTypes
  <2>3. RoundInv' /\ HeardInv'
    BY <1>0, <1>1, <2>1 DEF RoundInv, HeardInv, InRound
  <2>4. Repair!ReadyWasReviewed'
    BY <2>1 DEF Repair!ReadyWasReviewed
  <2>5. Repair!RepairsAreBacked'
    <3>1. \A f \in DOMAIN findings : findings[f].gen < Len(gens')
      BY <1>0, <1>2, <2>1 DEF RoundTypes, FindingRows, RoundInv
    <3>2. QED
      BY <1>0, <1>1, <2>1, <3>1 DEF Repair!RoundsAreSound, Repair!RepairsAreBacked
  <2>6. QED
    BY <1>3, <2>2, <2>3, <2>4, <2>5 DEF RoundsInv, Repair!RoundsAreSound
<1>5. CASE Repair!Edit
  <2>1. /\ turn.at = "idle" /\ UNCHANGED <<gens, turn, heard>> /\ conclusion' = "none"
        /\ code' = [version |-> code.version + 1, differs |-> code.differs]
        /\ code.version < MaxVersions
    BY <1>5 DEF Repair!Edit, Repair!Change, Repair!Quiet
  <2>2. code' \in [version : 1..MaxVersions, differs : SUBSET Issues]
    BY <1>0, <2>1 DEF RoundTypes
  <2>3. RoundTypes'
    BY <1>0, <1>1, <2>1, <2>2 DEF RoundTypes
  <2>4. RoundInv' /\ HeardInv'
    BY <1>0, <1>1, <2>1 DEF RoundInv, HeardInv, InRound
  <2>5. Repair!RepairsAreBacked' /\ Repair!ReadyWasReviewed'
    BY <1>0, <1>1, <2>1 DEF Repair!RoundsAreSound, Repair!RepairsAreBacked, Repair!ReadyWasReviewed
  <2>6. QED
    BY <1>3, <2>3, <2>4, <2>5 DEF RoundsInv, Repair!RoundsAreSound
<1>6. CASE Repair!Review
  <2>1. PICK reported \in SUBSET Issues :
          /\ heard' = [gen |-> Len(gens), issues |-> reported]
          /\ turn' = [turn EXCEPT !.at = "persist", !.todo = {i \in reported : ~Repair!Known(i)}]
    BY <1>6 DEF Repair!Review
  <2>2. /\ turn.at = "review" /\ gens[Len(gens)] = code.version
        /\ UNCHANGED <<gens, code, conclusion>>
    BY <1>6, LastIs DEF Repair!Review
  <2>3. /\ turn' \in Turns /\ turn'.at = "persist" /\ turn'.used = turn.used
        /\ turn'.max = turn.max /\ turn'.target = turn.target
        /\ turn'.todo = {i \in reported : ~Repair!Known(i)}
    BY <1>0, <2>1 DEF RoundTypes, Turns
  <2>4. RoundTypes'
    BY <1>0, <1>1, <1>2, <2>1, <2>2, <2>3 DEF RoundTypes
  <2>5. RoundInv'
    BY <1>0, <1>1, <2>3 DEF RoundInv, InRound
  <2>6. conclusion # "ready"
    BY <1>0, <2>2 DEF HeardInv
  <2>7. HeardInv'
    BY <1>0, <1>1, <1>2, <2>1, <2>2, <2>3, <2>6 DEF HeardInv, Repair!Known
  <2>8. Repair!RepairsAreBacked' /\ Repair!ReadyWasReviewed'
    BY <1>0, <1>1, <2>2, <2>6 DEF Repair!RoundsAreSound, Repair!RepairsAreBacked,
       Repair!ReadyWasReviewed
  <2>9. QED
    BY <1>3, <2>4, <2>5, <2>7, <2>8 DEF RoundsInv, Repair!RoundsAreSound
<1>7. CASE Repair!Repair
  <2>1. PICK claimed \in BOOLEAN : turn' = [turn EXCEPT !.at = "await", !.claimed = claimed]
    BY <1>7 DEF Repair!Repair
  <2>2. /\ turn.at = "repair" /\ UNCHANGED <<gens, heard, conclusion>>
        /\ UNCHANGED code \/ \E d \in SUBSET Issues : Repair!Change(d)
    BY <1>7 DEF Repair!Repair
  <2>3. code' \in [version : 1..MaxVersions, differs : SUBSET Issues]
    BY <1>0, <2>2 DEF RoundTypes, Repair!Change
  <2>4. /\ turn' \in Turns /\ turn'.at = "await" /\ turn'.used = turn.used
        /\ turn'.max = turn.max /\ turn'.target = turn.target
    BY <1>0, <2>1 DEF RoundTypes, Turns, InRound
  <2>5. RoundTypes'
    BY <1>0, <1>1, <2>2, <2>3, <2>4 DEF RoundTypes
  <2>6. RoundInv'
    BY <1>0, <1>1, <2>2, <2>4 DEF RoundInv, InRound
  <2>7. conclusion # "ready"
    BY <1>0, <2>2 DEF HeardInv
  <2>8. HeardInv'
    BY <1>0, <1>1, <2>2, <2>4, <2>7 DEF HeardInv
  <2>9. Repair!RepairsAreBacked' /\ Repair!ReadyWasReviewed'
    BY <1>0, <1>1, <2>2, <2>7 DEF Repair!RoundsAreSound, Repair!RepairsAreBacked,
       Repair!ReadyWasReviewed
  <2>10. QED
    BY <1>3, <2>5, <2>6, <2>8, <2>9 DEF RoundsInv, Repair!RoundsAreSound
<1>8. CASE Repair!ValidateRepair
  <2>1. PICK passed \in BOOLEAN :
          /\ gens' = IF passed THEN Append(gens, code.version) ELSE gens
          /\ turn' = [turn EXCEPT !.at = "dispose", !.passed = passed]
    BY <1>8 DEF Repair!ValidateRepair
  <2>2. turn.at = "validate" /\ UNCHANGED <<code, heard, conclusion>>
    BY <1>8 DEF Repair!ValidateRepair
  <2>3. /\ turn' \in Turns /\ turn'.at = "dispose" /\ turn'.used = turn.used
        /\ turn'.max = turn.max /\ turn'.target = turn.target /\ turn'.passed = passed
    BY <1>0, <2>1 DEF RoundTypes, Turns, InRound
  <2>4. /\ gens' \in Seq(1..MaxVersions) /\ Len(gens') >= Len(gens) /\ Len(gens') \in Nat
        /\ passed = TRUE => Len(gens') = Len(gens) + 1
    <3>1. gens \in Seq(1..MaxVersions)
      BY <1>0 DEF RoundTypes
    <3>2. CASE passed = TRUE
      BY <1>2, <2>1, <3>2
    <3>3. CASE passed # TRUE
      <4>1. gens' = gens
        BY <2>1, <3>3
      <4>2. gens' \in Seq(1..MaxVersions) /\ Len(gens') >= Len(gens) /\ Len(gens') \in Nat
        BY <1>2, <3>1, <4>1
      <4>3. QED
        BY <3>3, <4>2, Zenon
    <3>4. QED
      BY <3>2, <3>3
  <2>5. RoundTypes'
    BY <1>0, <1>1, <1>2, <2>2, <2>3, <2>4 DEF RoundTypes
  <2>6. RoundInv'
    <3>1. turn.target \in 1..Len(findings) /\ findings[turn.target].gen \in 1..Len(gens)
      BY <1>0, <2>2 DEF RoundInv, RoundTypes, Turns
    <3>2. turn'.passed = TRUE => findings[turn.target].gen < Len(gens')
      BY <1>2, <2>3, <2>4, <3>1
    <3>3. QED
      BY <1>0, <1>1, <2>2, <2>3, <3>2 DEF RoundInv, InRound
  <2>7. conclusion # "ready"
    BY <1>0, <2>2 DEF HeardInv
  <2>8. HeardInv'
    BY <1>0, <1>1, <2>2, <2>3, <2>7 DEF HeardInv
  <2>9. Repair!ReadyWasReviewed'
    BY <2>2, <2>7 DEF Repair!ReadyWasReviewed
  <2>a. \A f \in DOMAIN findings : findings[f].gen < Len(gens) => findings[f].gen < Len(gens')
    BY <1>0, <1>2, <2>4 DEF RoundTypes
  <2>b. Repair!RepairsAreBacked'
    BY <1>0, <1>1, <2>a DEF Repair!RoundsAreSound, Repair!RepairsAreBacked
  <2>10. QED
    BY <1>3, <2>5, <2>6, <2>8, <2>9, <2>b DEF RoundsInv, Repair!RoundsAreSound
<1>9. QED
  BY <1>4, <1>5, <1>6, <1>7, <1>8


\* A round changes its state, and one is opened.
LEMMA RoundRecordStep ==
  ASSUME RoundsInv, Repair!OpenRound \/ Repair!Activate \/ Repair!AwaitValidation \/ Repair!CloseRound
  PROVE  RoundsInv'
<1>0. RoundTypes /\ RoundInv /\ HeardInv /\ Repair!RoundsAreSound
  BY DEF RoundsInv
<1>1. UNCHANGED <<findings, gens, code, heard, sent>>
  BY DEF Repair!OpenRound, Repair!Activate, Repair!AwaitValidation, Repair!CloseRound
<1>2. /\ DOMAIN findings = 1..Len(findings) /\ DOMAIN sent = 1..Len(sent)
      /\ DOMAIN rounds = 1..Len(rounds) /\ Len(rounds) \in Nat /\ Len(findings) \in Nat
      /\ rounds \in Seq(Repair!RoundLifecycle)
      /\ \A f \in 1..Len(findings) : findings[f].round \in 0..Len(rounds)
  BY <1>0 DEF RoundTypes
<1>3. Repair!HandedOnce'
  BY <1>0, <1>1 DEF Repair!RoundsAreSound, Repair!HandedOnce
<1>4. turn.at \notin {"idle", "verify"} /\ conclusion # "ready" /\ conclusion' # "ready"
  <2>1. turn.at \notin {"idle", "verify"}
    BY DEF Repair!OpenRound, Repair!Persisted, Repair!Activate, Repair!AwaitValidation,
       Repair!CloseRound
  <2>2. conclusion # "ready"
    BY <1>0, <2>1 DEF HeardInv
  <2>3. QED
    BY <2>1, <2>2 DEF Repair!OpenRound, Repair!Activate, Repair!AwaitValidation,
       Repair!CloseRound, Repair!Returns
<1>5. Repair!ReadyWasReviewed'
  BY <1>4 DEF Repair!ReadyWasReviewed
<1>6. CASE Repair!OpenRound
  <2>1. PICK t \in 1..Len(findings) : turn' = [turn EXCEPT !.at = "opened", !.target = t]
    <3> DEFINE R == {ss \in Nat \X Nat : ss[1] < ss[2]}
               t == CHOOSE f \in Repair!Eligible : \A g \in Repair!Eligible : f <= g
    <3>1. IsWellFoundedOn(R, Nat)
      BY NatLessThanWellFounded DEF OpToRel
    <3>2. Repair!Eligible \subseteq 1..Len(findings) /\ Repair!Eligible # {}
            /\ Repair!Eligible \subseteq Nat
      BY <1>2, <1>6 DEF Repair!OpenRound, Repair!Eligible, Repair!Confirmed
    <3> HIDE DEF R
    <3>3. PICK f \in Repair!Eligible : \A g \in Repair!Eligible : ~(<<g, f>> \in R)
      BY <3>1, <3>2, WFMin
    <3>4. \A g \in Repair!Eligible : f <= g
      <4>1. ASSUME NEW g \in Repair!Eligible PROVE f <= g
        <5>1. f \in Nat /\ g \in Nat /\ ~(<<g, f>> \in R)
          BY <3>2, <3>3
        <5>2. ~(g < f)
          BY <5>1 DEF R
        <5>3. QED
          BY <5>1, <5>2
      <4>2. QED
        BY <4>1
    <3>5. t \in Repair!Eligible
      BY <3>4
    <3>6. turn' = [turn EXCEPT !.at = "opened", !.target = t]
      BY <1>6 DEF Repair!OpenRound
    <3> HIDE DEF t
    <3>7. QED
      BY <3>2, <3>5, <3>6
  <2>2. /\ rounds' = Append(rounds, "Pending") /\ conclusion' = conclusion
        /\ turn.used < turn.max
    BY <1>6 DEF Repair!OpenRound
  <2>3. /\ turn' \in Turns /\ turn'.at = "opened" /\ turn'.used = turn.used
        /\ turn'.max = turn.max /\ turn'.target = t
    <3>1. turn \in Turns /\ t \in Nat
      BY <1>0, <1>2 DEF RoundTypes
    <3>2. QED
      BY <2>1, <3>1 DEF Turns, InRound
  <2>4. /\ rounds' \in Seq(Repair!RoundLifecycle) /\ Len(rounds') = Len(rounds) + 1
        /\ rounds'[Len(rounds) + 1] = "Pending" /\ DOMAIN rounds' = 1..Len(rounds) + 1
        /\ \A n \in 1..Len(rounds) : rounds'[n] = rounds[n]
    BY <1>2, <2>2 DEF Repair!RoundLifecycle
  <2>5. RoundTypes'
    <3>1. \A f \in 1..Len(findings) : findings[f].round \in 0..Len(rounds')
      BY <1>2, <2>4
    <3>2. turn'.target <= Len(findings)
      BY <1>2, <2>3
    <3>3. QED
      BY <1>0, <1>1, <2>2, <2>3, <2>4, <3>1, <3>2 DEF RoundTypes
  <2>6. RoundInv'
    BY <1>0, <1>1, <1>2, <2>2, <2>3, <2>4 DEF RoundInv, InRound
  <2>7. HeardInv'
    BY <1>4, <2>3 DEF HeardInv
  <2>8. Repair!RepairsAreBacked'
    <3>1. \A n \in DOMAIN rounds' : rounds'[n] = "Resolved" =>
            n \in DOMAIN rounds /\ rounds[n] = "Resolved"
      BY <1>2, <2>4
    <3>2. \A n \in DOMAIN rounds : n \in DOMAIN rounds' /\ rounds'[n] = rounds[n]
      BY <1>2, <2>4
    <3>3. QED
      BY <1>0, <1>1, <3>1, <3>2 DEF Repair!RoundsAreSound, Repair!RepairsAreBacked
  <2>9. QED
    BY <1>3, <1>5, <2>5, <2>6, <2>7, <2>8 DEF RoundsInv, Repair!RoundsAreSound
<1>7. CASE Repair!Activate \/ Repair!AwaitValidation \/ Repair!CloseRound
  <2>1. PICK l \in {"Active", "AwaitingValidation", "Resolved", "Exhausted"} :
          /\ rounds' = [rounds EXCEPT ![Len(rounds)] = l]
          /\ l = "Active" => turn.at = "opened" /\ turn' = [turn EXCEPT !.at = "assign"]
          /\ l = "AwaitingValidation" =>
               turn.at = "await" /\ turn' = [turn EXCEPT !.at = "validate"]
          /\ l = "Resolved" => /\ turn.at = "resolved"
                               /\ turn' = [Repair!Quiet EXCEPT !.at = "review", !.max = turn.max,
                                                        !.used = turn.used + 1]
          /\ l = "Exhausted" => turn.at = "exhausted" /\ turn' = Repair!Quiet
    BY <1>7, Zenon DEF Repair!Activate, Repair!AwaitValidation, Repair!CloseRound,
       Repair!SetRound, Repair!To, Repair!Returns, Repair!NextReview
  <2>2. /\ conclusion' \in {"none", "storage", "limit", "unresolved", "invalid", "ready"}
        /\ Len(rounds) # 0 /\ turn.used < turn.max
    <3>1. Len(rounds) # 0 /\ turn.used < turn.max
      BY <1>0, <2>1 DEF RoundInv, InRound
    <3>2. conclusion' = conclusion \/ conclusion' = "unresolved" \/ conclusion' = "invalid"
      BY <1>7 DEF Repair!Activate, Repair!AwaitValidation, Repair!CloseRound, Repair!Returns
    <3>3. QED
      BY <1>0, <3>1, <3>2 DEF RoundTypes
  <2>3. /\ rounds' \in Seq(Repair!RoundLifecycle) /\ Len(rounds') = Len(rounds)
        /\ rounds'[Len(rounds)] = l /\ DOMAIN rounds' = 1..Len(rounds)
        /\ \A n \in 1..Len(rounds) : n # Len(rounds) => rounds'[n] = rounds[n]
    BY <1>2, <2>1, <2>2 DEF Repair!RoundLifecycle
  <2>4. /\ turn' \in Turns /\ turn'.used <= turn'.max /\ turn'.target <= Len(findings)
        /\ l = "Active" => turn'.at = "assign" /\ turn'.used = turn.used /\ turn'.max = turn.max
        /\ l = "AwaitingValidation" =>
             /\ turn'.at = "validate" /\ turn'.used = turn.used /\ turn'.max = turn.max
             /\ turn'.target = turn.target
        /\ l = "Resolved" => turn'.at = "review"
        /\ l = "Exhausted" => turn'.at = "idle"
    <3>0. turn \in Turns /\ turn.used <= turn.max /\ turn.target <= Len(findings)
      BY <1>0 DEF RoundTypes
    <3>1. CASE l \in {"Active", "AwaitingValidation"}
      BY <2>1, <3>0, <3>1 DEF Turns, InRound
    <3>2. CASE l = "Resolved"
      <4>1. turn' = [at |-> "review", max |-> turn.max, used |-> turn.used + 1, target |-> 0,
                     todo |-> {}, claimed |-> FALSE, passed |-> FALSE]
        BY <2>1, <3>2 DEF Repair!Quiet
      <4>2. turn.max \in Nat /\ turn.used + 1 \in Nat /\ turn.used + 1 <= turn.max
        BY <2>2, <3>0 DEF Turns
      <4>3. QED
        BY <1>2, <3>2, <4>1, <4>2 DEF Turns
    <3>3. CASE l = "Exhausted"
      <4>1. turn' = [at |-> "idle", max |-> 0, used |-> 0, target |-> 0, todo |-> {},
                     claimed |-> FALSE, passed |-> FALSE]
        BY <2>1, <3>3 DEF Repair!Quiet
      <4>2. QED
        BY <1>2, <3>3, <4>1 DEF Turns
    <3>4. QED
      BY <3>1, <3>2, <3>3
  <2>5. RoundTypes'
    BY <1>0, <1>1, <2>2, <2>3, <2>4 DEF RoundTypes
  <2>6. \A f \in 1..Len(findings) :
          findings[f].round = Len(rounds) /\ l # "Resolved" => findings[f].disp # "Repaired"
    <3>1. \A f \in 1..Len(findings) : findings[f].disp = "Repaired" =>
            rounds[findings[f].round] \in {"AwaitingValidation", "Resolved"}
      BY <1>0, <1>2 DEF Repair!RoundsAreSound, Repair!RepairsAreBacked
    <3>2. CASE l \in {"Active", "AwaitingValidation"}
      BY <1>0, <2>1, <3>1, <3>2 DEF RoundInv
    <3>3. CASE l = "Exhausted"
      BY <1>0, <2>1, <3>3 DEF RoundInv
    <3>4. QED
      BY <3>2, <3>3
  <2>7. RoundInv'
    <3>1. CASE l = "Active"
      BY <1>0, <1>1, <2>2, <2>3, <2>4, <3>1 DEF RoundInv, InRound
    <3>2. CASE l = "AwaitingValidation"
      BY <1>0, <1>1, <2>1, <2>2, <2>3, <2>4, <2>6, <3>2 DEF RoundInv, InRound
    <3>3. CASE l \in {"Resolved", "Exhausted"}
      BY <1>0, <1>1, <2>4, <3>3 DEF RoundInv, InRound
    <3>4. QED
      BY <3>1, <3>2, <3>3
  <2>8. HeardInv'
    BY <1>4, <2>4 DEF HeardInv
  <2>9. Repair!RepairsAreBacked'
    <3>1. ASSUME NEW f \in DOMAIN findings, findings[f].disp = "Repaired"
          PROVE  findings[f].round \in DOMAIN rounds'
                   /\ rounds'[findings[f].round] \in {"AwaitingValidation", "Resolved"}
      <4>1. findings[f].round \in DOMAIN rounds
              /\ rounds[findings[f].round] \in {"AwaitingValidation", "Resolved"}
        BY <1>0, <3>1 DEF Repair!RoundsAreSound, Repair!RepairsAreBacked
      <4>2. findings[f].round = Len(rounds) => l = "Resolved"
        BY <1>2, <2>6, <3>1
      <4>3. QED
        BY <1>2, <2>3, <4>1, <4>2
    <3>2. ASSUME NEW n \in DOMAIN rounds', rounds'[n] = "Resolved"
          PROVE  \E f \in DOMAIN findings : findings[f].round = n /\ findings[f].disp = "Repaired"
      <4>1. CASE n = Len(rounds)
        <5>1. turn.at = "resolved"
          BY <2>1, <2>3, <3>2, <4>1
        <5>2. /\ turn.target \in 1..Len(findings) /\ findings[turn.target].round = n
              /\ findings[turn.target].disp = "Repaired"
          BY <1>0, <1>2, <4>1, <5>1 DEF RoundInv, RoundTypes, Turns
        <5>3. QED
          BY <1>2, <5>2
      <4>2. CASE n # Len(rounds)
        <5>1. n \in DOMAIN rounds /\ rounds[n] = "Resolved"
          BY <1>2, <2>3, <3>2, <4>2
        <5>2. QED
          BY <1>0, <5>1 DEF Repair!RoundsAreSound, Repair!RepairsAreBacked
      <4>3. QED
        BY <4>1, <4>2
    <3>3. QED
      BY <1>0, <1>1, <3>1, <3>2 DEF Repair!RoundsAreSound, Repair!RepairsAreBacked
  <2>10. QED
    BY <1>3, <1>5, <2>5, <2>7, <2>8, <2>9 DEF RoundsInv, Repair!RoundsAreSound
<1>8. QED
  BY <1>6, <1>7

\* A finding is handed over, which it was not before.
LEMMA HandOffStep ==
  ASSUME RoundsInv, Repair!HandOff
  PROVE  RoundsInv'
<1>0. RoundTypes /\ RoundInv /\ HeardInv /\ Repair!RoundsAreSound
  BY DEF RoundsInv
<1>1. /\ UNCHANGED <<findings, rounds, gens, code, heard, conclusion>>
      /\ turn.at = "handoff" /\ turn' = [turn EXCEPT !.at = "repair"]
      /\ sent' = Append(sent, turn.target)
  BY DEF Repair!HandOff, Repair!To
<1>2. /\ turn' \in Turns /\ turn'.at = "repair" /\ turn'.used = turn.used
      /\ turn'.max = turn.max /\ turn'.target = turn.target
      /\ Len(findings) \in Nat /\ turn.target \in Nat
  <2>1. turn \in Turns /\ Len(findings) \in Nat
    BY <1>0 DEF RoundTypes
  <2>2. QED
    BY <1>1, <2>1 DEF Turns, InRound
<1>3. turn.target \in 1..Len(findings) /\ findings[turn.target].round = Len(rounds)
        /\ Len(rounds) # 0
  BY <1>0, <1>1, <1>2 DEF RoundInv, RoundTypes, InRound
<1>4. /\ DOMAIN sent = 1..Len(sent) /\ Len(sent) \in Nat
      /\ sent' \in Seq(Nat \ {0}) /\ Len(sent') = Len(sent) + 1
      /\ DOMAIN sent' = 1..Len(sent) + 1 /\ sent'[Len(sent) + 1] = turn.target
      /\ \A k \in 1..Len(sent) : sent'[k] = sent[k]
  BY <1>0, <1>1, <1>2, <1>3 DEF RoundTypes
<1>5. RoundTypes'
  BY <1>0, <1>1, <1>2, <1>3, <1>4 DEF RoundTypes
<1>6. RoundInv'
  BY <1>0, <1>1, <1>2, <1>3, <1>4 DEF RoundInv, InRound
<1>7. HeardInv'
  BY <1>0, <1>1, <1>2 DEF HeardInv
<1>8. Repair!HandedOnce'
  <2>1. \A k \in 1..Len(sent) : sent[k] # turn.target
    BY <1>0, <1>1 DEF RoundInv
  <2>2. \A a, b \in 1..Len(sent) : sent[a] = sent[b] => a = b
    BY <1>0, <1>4 DEF Repair!RoundsAreSound, Repair!HandedOnce
  <2>3. \A a \in 1..Len(sent) + 1 : a \in 1..Len(sent) \/ a = Len(sent) + 1
    BY <1>4
  <2>4. QED
    BY <1>4, <2>1, <2>2, <2>3 DEF Repair!HandedOnce
<1>9. Repair!ToSet(sent) \subseteq Repair!ToSet(sent')
  BY <1>4 DEF Repair!ToSet
<1>10. Repair!RepairsAreBacked' /\ Repair!ReadyWasReviewed'
  BY <1>0, <1>1, <1>9 DEF Repair!RoundsAreSound, Repair!RepairsAreBacked, Repair!ReadyWasReviewed
<1>11. QED
  BY <1>5, <1>6, <1>7, <1>8, <1>10 DEF RoundsInv, Repair!RoundsAreSound

\* One finding is written, or one more is made.
LEMMA FindingWritten ==
  ASSUME RoundTypes, NEW f \in 1..Len(findings), NEW r \in FindingRows,
         findings' = [findings EXCEPT ![f] = r]
  PROVE  /\ findings' \in Seq(FindingRows) /\ Len(findings') = Len(findings)
         /\ DOMAIN findings' = 1..Len(findings)
         /\ \A d \in 1..Len(findings) : findings'[d] = IF d = f THEN r ELSE findings[d]
BY DEF RoundTypes

\* Someone judges a finding.
LEMMA JudgeStep ==
  ASSUME RoundsInv, Repair!Judge
  PROVE  RoundsInv'
<1>0. RoundTypes /\ RoundInv /\ HeardInv /\ Repair!RoundsAreSound
  BY DEF RoundsInv
<1>1. /\ UNCHANGED <<rounds, gens, code, turn, heard, sent, conclusion>>
      /\ conclusion # "ready"
      /\ turn.at \in {"idle", "persist", "assign", "dispose"}
  BY DEF Repair!Judge, Repair!Persisted, Repair!Quiet
<1>2. DOMAIN findings = 1..Len(findings) /\ DOMAIN sent = 1..Len(sent)
      /\ DOMAIN rounds = 1..Len(rounds)
      /\ \A f \in 1..Len(findings) : findings[f] \in FindingRows
  BY <1>0 DEF RoundTypes
<1>3. PICK f \in 1..Len(findings), d \in Repair!Disposition \ {"Repaired"} :
        /\ d \in Repair!DispositionSuccessors[findings[f].disp]
        /\ findings' = [findings EXCEPT ![f].disp = d]
  BY <1>2 DEF Repair!Judge, Repair!SetDisposition
<1>4. findings[f].disp # "Repaired"
  BY <1>2, <1>3 DEF Repair!DispositionSuccessors, Repair!Disposition
<1> DEFINE r == [findings[f] EXCEPT !.disp = d]
<1>5. /\ r \in FindingRows /\ r.issue = findings[f].issue /\ r.gen = findings[f].gen
      /\ r.round = findings[f].round /\ r.disp = d
  BY <1>2 DEF FindingRows
<1>6. findings' = [findings EXCEPT ![f] = r]
  BY <1>3
<1> HIDE DEF r
<1>7. /\ findings' \in Seq(FindingRows) /\ Len(findings') = Len(findings)
      /\ DOMAIN findings' = 1..Len(findings)
      /\ \A c \in 1..Len(findings) :
           /\ findings'[c].issue = findings[c].issue /\ findings'[c].gen = findings[c].gen
           /\ findings'[c].round = findings[c].round
           /\ findings'[c].disp = "Repaired" <=> findings[c].disp = "Repaired"
  BY <1>0, <1>3, <1>4, <1>5, <1>6, FindingWritten
<1>8. RoundTypes'
  BY <1>0, <1>1, <1>7 DEF RoundTypes
<1>9. RoundInv'
  <2>1. /\ turn.at = "dispose" => turn.target \in 1..Len(findings)
        /\ \A k \in 1..Len(sent) : sent[k] \in 1..Len(findings)
    BY <1>0 DEF RoundInv, RoundTypes, Turns
  <2>2. CASE turn.at = "dispose"
    <3>1. /\ findings'[turn.target].round = findings[turn.target].round
          /\ findings'[turn.target].gen = findings[turn.target].gen
      BY <1>7, <2>1, <2>2
    <3>2. \A c \in 1..Len(findings) :
            findings'[c].round = Len(rounds) => findings'[c].disp # "Repaired"
      <4>1. \A c \in 1..Len(findings) :
              findings[c].round = Len(rounds) => findings[c].disp # "Repaired"
        BY <1>0, <2>2 DEF RoundInv
      <4>2. QED
        BY <1>7, <4>1
    <3>3. \A k \in 1..Len(sent) : findings'[sent[k]].round # 0
      BY <1>0, <1>7, <2>1 DEF RoundInv
    <3>4. QED
      BY <1>0, <1>1, <1>7, <2>2, <3>1, <3>2, <3>3 DEF RoundInv, InRound
  <2>3. CASE turn.at # "dispose"
    BY <1>0, <1>1, <1>7, <2>1, <2>3 DEF RoundInv, InRound
  <2>4. QED
    BY <2>2, <2>3
<1>10. HeardInv'
  BY <1>0, <1>1, <1>7 DEF HeardInv
<1>11. Repair!HandedOnce' /\ Repair!ReadyWasReviewed'
  BY <1>0, <1>1 DEF Repair!RoundsAreSound, Repair!HandedOnce, Repair!ReadyWasReviewed
<1>12. Repair!RepairsAreBacked'
  <2>1. ASSUME NEW c \in 1..Len(findings), findings'[c].disp = "Repaired"
        PROVE  /\ c \in Repair!ToSet(sent) /\ findings'[c].round \in DOMAIN rounds
               /\ rounds[findings'[c].round] \in {"AwaitingValidation", "Resolved"}
               /\ findings'[c].gen < Len(gens)
    BY <1>0, <1>2, <1>7, <2>1 DEF Repair!RoundsAreSound, Repair!RepairsAreBacked
  <2>2. ASSUME NEW n \in DOMAIN rounds, rounds[n] = "Resolved"
        PROVE  \E c \in 1..Len(findings) :
                 findings'[c].round = n /\ findings'[c].disp = "Repaired"
    BY <1>0, <1>2, <1>7, <2>2 DEF Repair!RoundsAreSound, Repair!RepairsAreBacked
  <2>3. QED
    BY <1>1, <1>7, <2>1, <2>2 DEF Repair!RepairsAreBacked
<1>13. QED
  BY <1>8, <1>9, <1>10, <1>11, <1>12 DEF RoundsInv, Repair!RoundsAreSound

\* A finding is recorded.
LEMMA PersistStep ==
  ASSUME RoundsInv, Repair!Persist
  PROVE  RoundsInv'
<1>0. RoundTypes /\ RoundInv /\ HeardInv /\ Repair!RoundsAreSound
  BY DEF RoundsInv
<1>1. PICK i \in turn.todo :
        /\ findings' = Append(findings, [issue |-> i, gen |-> heard.gen,
                                         disp |-> "Reported", round |-> 0])
        /\ turn' = [turn EXCEPT !.todo = @ \ {i}]
  BY DEF Repair!Persist
<1>2. /\ UNCHANGED <<rounds, gens, code, heard, sent, conclusion>> /\ turn.at = "persist"
  BY DEF Repair!Persist
<1>3. /\ turn' \in Turns /\ turn'.at = "persist" /\ turn'.used = turn.used
      /\ turn'.max = turn.max /\ turn'.target = turn.target /\ turn'.todo = turn.todo \ {i}
      /\ i \in Issues
  <2>1. turn \in Turns
    BY <1>0 DEF RoundTypes
  <2>2. QED
    BY <1>1, <1>2, <2>1 DEF Turns
<1> DEFINE n == Len(findings) + 1
           r == [issue |-> i, gen |-> heard.gen, disp |-> "Reported", round |-> 0]
<1>4. /\ Len(findings) \in Nat /\ Len(gens) \in Nat \ {0} /\ Len(rounds) \in Nat
      /\ DOMAIN findings = 1..Len(findings) /\ DOMAIN sent = 1..Len(sent)
      /\ DOMAIN rounds = 1..Len(rounds) /\ turn.target \in Nat /\ turn.target <= Len(findings)
      /\ findings \in Seq(FindingRows)
  BY <1>0 DEF RoundTypes, Turns
<1>5. heard.gen = Len(gens) /\ gens[Len(gens)] = code.version /\ conclusion # "ready"
  BY <1>0, <1>2 DEF HeardInv
<1>6. /\ r \in FindingRows /\ r.issue = i /\ r.gen = Len(gens) /\ r.disp = "Reported"
      /\ r.round = 0
  BY <1>3, <1>4, <1>5 DEF FindingRows, Repair!Disposition
<1>7. findings' = Append(findings, r)
  BY <1>1
<1> HIDE DEF r
<1>8. /\ findings' \in Seq(FindingRows) /\ Len(findings') = n /\ DOMAIN findings' = 1..n
      /\ findings'[n] = r /\ \A f \in 1..Len(findings) : findings'[f] = findings[f]
  BY <1>4, <1>6, <1>7
<1>9. RoundTypes'
  <2>1. \A f \in 1..n : findings'[f].gen \in 1..Len(gens)
                          /\ findings'[f].round \in 0..Len(rounds)
    <3>1. \A f \in 1..n : f = n \/ f \in 1..Len(findings)
      BY <1>4
    <3>2. r.gen \in 1..Len(gens) /\ r.round \in 0..Len(rounds)
      BY <1>4, <1>6
    <3>3. QED
      BY <1>0, <1>8, <3>1, <3>2 DEF RoundTypes
  <2>2. turn'.target <= n /\ \A k \in 1..Len(sent) : sent[k] \in 1..n
    BY <1>0, <1>3, <1>4 DEF RoundTypes
  <2>3. QED
    BY <1>0, <1>2, <1>3, <1>8, <2>1, <2>2 DEF RoundTypes
<1>10. RoundInv'
  BY <1>0, <1>2, <1>3, <1>8 DEF RoundInv, InRound, RoundTypes
<1>11. HeardInv'
  <2>1. \A j \in heard.issues : j \in turn'.todo
          \/ \E f \in 1..n : findings'[f].issue = j /\ findings'[f].gen = Len(gens)
    <3>1. ASSUME NEW j \in heard.issues, j \notin turn'.todo
          PROVE  \E f \in 1..n : findings'[f].issue = j /\ findings'[f].gen = Len(gens)
      <4>1. CASE j = i
        BY <1>4, <1>6, <1>8, <4>1
      <4>2. CASE j # i
        <5>1. PICK f \in 1..Len(findings) : findings[f].issue = j /\ findings[f].gen = Len(gens)
          BY <1>0, <1>2, <1>3, <3>1, <4>2 DEF HeardInv
        <5>2. f \in 1..n
          BY <1>4
        <5>3. QED
          BY <1>8, <5>1, <5>2
      <4>3. QED
        BY <4>1, <4>2
    <3>2. QED
      BY <3>1
  <2>2. QED
    BY <1>2, <1>3, <1>5, <1>8, <2>1 DEF HeardInv
<1>12. Repair!HandedOnce' /\ Repair!ReadyWasReviewed'
  BY <1>0, <1>2, <1>5 DEF Repair!RoundsAreSound, Repair!HandedOnce, Repair!ReadyWasReviewed
<1>13. Repair!RepairsAreBacked'
  <2>1. \A f \in 1..n : f = n \/ f \in 1..Len(findings)
    BY <1>4
  <2>2. \A f \in 1..Len(findings) : f \in 1..n
    BY <1>4
  <2>3. QED
    BY <1>0, <1>2, <1>4, <1>6, <1>8, <2>1, <2>2 DEF Repair!RoundsAreSound, Repair!RepairsAreBacked
<1>14. QED
  BY <1>9, <1>10, <1>11, <1>12, <1>13 DEF RoundsInv, Repair!RoundsAreSound

\* A round takes a finding.
LEMMA AssignStep ==
  ASSUME RoundsInv, Repair!Assign
  PROVE  RoundsInv'
<1>0. RoundTypes /\ RoundInv /\ HeardInv /\ Repair!RoundsAreSound
  BY DEF RoundsInv
<1>1. /\ UNCHANGED <<rounds, gens, code, heard, sent>> /\ turn.at = "assign"
  BY DEF Repair!Assign
<1>2. /\ Len(rounds) \in Nat \ {0} /\ rounds[Len(rounds)] = "Active"
      /\ DOMAIN findings = 1..Len(findings) /\ DOMAIN sent = 1..Len(sent)
      /\ DOMAIN rounds = 1..Len(rounds) /\ conclusion # "ready" /\ turn \in Turns
      /\ turn.used < turn.max
  BY <1>0, <1>1 DEF RoundTypes, RoundInv, HeardInv, InRound
<1>3. CASE turn.target \notin Repair!Eligible
  <2>1. turn' = Repair!Quiet /\ conclusion' = "storage" /\ findings' = findings
    BY <1>3 DEF Repair!Assign, Repair!Returns
  <2>2. RoundTypes'
    BY <1>0, <1>1, <2>1 DEF RoundTypes, Repair!Quiet, Turns
  <2>3. RoundInv' /\ HeardInv'
    BY <1>0, <1>1, <2>1 DEF RoundInv, HeardInv, Repair!Quiet, InRound
  <2>4. Repair!RoundsAreSound'
    BY <1>0, <1>1, <2>1
    DEF Repair!RoundsAreSound, Repair!HandedOnce, Repair!RepairsAreBacked, Repair!ReadyWasReviewed
  <2>5. QED
    BY <2>2, <2>3, <2>4 DEF RoundsInv
<1>4. CASE turn.target \in Repair!Eligible
  <2>1. /\ turn.target \in 1..Len(findings) /\ findings[turn.target].round = 0
        /\ findings[turn.target].disp = "ConfirmedBlocking"
        /\ findings[turn.target] \in FindingRows
    BY <1>0, <1>2, <1>4 DEF Repair!Eligible, Repair!Confirmed, RoundTypes
  <2>2. /\ findings' = [findings EXCEPT ![turn.target].round = Len(rounds)]
        /\ turn' = [turn EXCEPT !.at = "handoff"] /\ conclusion' = conclusion
    BY <1>4 DEF Repair!Assign, Repair!To
  <2> DEFINE t == turn.target
             r == [findings[t] EXCEPT !.round = Len(rounds)]
  <2>3. /\ r \in FindingRows /\ r.issue = findings[t].issue /\ r.gen = findings[t].gen
        /\ r.disp = "ConfirmedBlocking" /\ r.round = Len(rounds)
    BY <1>2, <2>1 DEF FindingRows
  <2>4. findings' = [findings EXCEPT ![t] = r]
    BY <2>2
  <2> HIDE DEF r
  <2>5. /\ findings' \in Seq(FindingRows) /\ Len(findings') = Len(findings)
        /\ DOMAIN findings' = 1..Len(findings)
        /\ \A d \in 1..Len(findings) : findings'[d] = IF d = t THEN r ELSE findings[d]
    BY <1>0, <2>1, <2>3, <2>4, FindingWritten
  <2>6. /\ turn' \in Turns /\ turn'.at = "handoff" /\ turn'.used = turn.used
        /\ turn'.max = turn.max /\ turn'.target = t
    BY <1>2, <2>2 DEF Turns, InRound
  <2>7. RoundTypes'
    <3>1. \A f \in 1..Len(findings) : findings'[f].gen \in 1..Len(gens)
                                        /\ findings'[f].round \in 0..Len(rounds)
      BY <1>0, <1>2, <2>1, <2>3, <2>5 DEF RoundTypes
    <3>2. QED
      BY <1>0, <1>1, <2>2, <2>5, <2>6, <3>1 DEF RoundTypes
  <2>8. \A k \in 1..Len(sent) : sent[k] \in 1..Len(findings) /\ sent[k] # t
    BY <1>0, <2>1 DEF RoundInv, RoundTypes
  <2>9. RoundInv'
    <3>1. t # 0 /\ findings'[t].round = Len(rounds)
      BY <2>1, <2>3, <2>5
    <3>2. \A k \in 1..Len(sent) : findings'[sent[k]].round # 0
      BY <1>0, <2>5, <2>8 DEF RoundInv
    <3>3. QED
      BY <1>1, <1>2, <2>6, <2>8, <3>1, <3>2 DEF RoundInv, InRound
  <2>10. HeardInv'
    BY <1>2, <2>2, <2>6 DEF HeardInv
  <2>11. Repair!HandedOnce' /\ Repair!ReadyWasReviewed'
    BY <1>0, <1>1, <1>2, <2>2 DEF Repair!RoundsAreSound, Repair!HandedOnce, Repair!ReadyWasReviewed
  <2>12. Repair!RepairsAreBacked'
    <3>1. \A f \in 1..Len(findings) : findings'[f].disp = "Repaired" =>
            findings[f].disp = "Repaired" /\ findings'[f] = findings[f]
      BY <2>3, <2>5
    <3>2. \A f \in 1..Len(findings) : findings[f].disp = "Repaired" =>
            findings'[f] = findings[f]
      BY <2>1, <2>5
    <3>3. QED
      BY <1>0, <1>1, <1>2, <2>5, <3>1, <3>2 DEF Repair!RoundsAreSound, Repair!RepairsAreBacked
  <2>13. QED
    BY <2>7, <2>9, <2>10, <2>11, <2>12 DEF RoundsInv, Repair!RoundsAreSound
<1>5. QED
  BY <1>3, <1>4

\* A repair is judged by what its validation and the tree say.
LEMMA DisposeStep ==
  ASSUME RoundsInv, Repair!Dispose
  PROVE  RoundsInv'
<1>0. RoundTypes /\ RoundInv /\ HeardInv /\ Repair!RoundsAreSound
  BY DEF RoundsInv
<1>1. /\ UNCHANGED <<rounds, gens, code, heard, sent>> /\ turn.at = "dispose"
  BY DEF Repair!Dispose
<1>2. /\ Len(rounds) \in Nat \ {0} /\ rounds[Len(rounds)] = "AwaitingValidation"
      /\ DOMAIN findings = 1..Len(findings) /\ DOMAIN sent = 1..Len(sent)
      /\ DOMAIN rounds = 1..Len(rounds) /\ conclusion # "ready" /\ turn \in Turns
      /\ turn.used < turn.max /\ turn.target \in 1..Len(findings)
      /\ findings[turn.target].round = Len(rounds)
      /\ findings[turn.target] \in FindingRows
  BY <1>0, <1>1 DEF RoundTypes, RoundInv, HeardInv, InRound, Turns
<1>3. CASE ~Repair!Resolved /\ Repair!To("exhausted") /\ UNCHANGED <<findings, conclusion>>
  <2>1. /\ turn' \in Turns /\ turn'.at = "exhausted" /\ turn'.used = turn.used
        /\ turn'.max = turn.max /\ turn'.target = turn.target
    BY <1>2, <1>3 DEF Repair!To, Turns, InRound
  <2>2. RoundTypes'
    BY <1>0, <1>1, <1>3, <2>1 DEF RoundTypes
  <2>3. RoundInv'
    BY <1>0, <1>1, <1>3, <2>1 DEF RoundInv, InRound
  <2>4. HeardInv'
    BY <1>2, <1>3, <2>1 DEF HeardInv
  <2>5. Repair!RoundsAreSound'
    BY <1>0, <1>1, <1>2, <1>3
    DEF Repair!RoundsAreSound, Repair!HandedOnce, Repair!RepairsAreBacked, Repair!ReadyWasReviewed
  <2>6. QED
    BY <2>2, <2>3, <2>4, <2>5 DEF RoundsInv
<1>4. CASE Repair!Returns("storage") /\ UNCHANGED findings
  <2>1. turn' = Repair!Quiet /\ conclusion' = "storage" /\ findings' = findings
    BY <1>4 DEF Repair!Returns
  <2>2. RoundTypes'
    BY <1>0, <1>1, <2>1 DEF RoundTypes, Repair!Quiet, Turns
  <2>3. RoundInv' /\ HeardInv'
    BY <1>0, <1>1, <2>1 DEF RoundInv, HeardInv, Repair!Quiet, InRound
  <2>4. Repair!RoundsAreSound'
    BY <1>0, <1>1, <2>1
    DEF Repair!RoundsAreSound, Repair!HandedOnce, Repair!RepairsAreBacked, Repair!ReadyWasReviewed
  <2>5. QED
    BY <2>2, <2>3, <2>4 DEF RoundsInv
<1>5. CASE /\ Repair!Resolved /\ Repair!SetDisposition(turn.target, "Repaired") /\ Repair!To("resolved")
           /\ UNCHANGED conclusion
  <2> DEFINE t == turn.target
             r == [findings[t] EXCEPT !.disp = "Repaired"]
  <2>1. /\ findings' = [findings EXCEPT ![t] = r] /\ conclusion' = conclusion
        /\ turn' = [turn EXCEPT !.at = "resolved"]
    BY <1>5 DEF Repair!SetDisposition, Repair!To
  <2>2. /\ r \in FindingRows /\ r.issue = findings[t].issue /\ r.gen = findings[t].gen
        /\ r.disp = "Repaired" /\ r.round = Len(rounds)
    BY <1>2 DEF FindingRows, Repair!Disposition
  <2>3. findings[t].gen < Len(gens)
    <3>1. turn.passed = TRUE
      BY <1>2, <1>5 DEF Repair!Resolved, Turns
    <3>2. QED
      BY <1>0, <1>1, <3>1 DEF RoundInv
  <2> HIDE DEF r
  <2>4. /\ findings' \in Seq(FindingRows) /\ Len(findings') = Len(findings)
        /\ DOMAIN findings' = 1..Len(findings)
        /\ \A d \in 1..Len(findings) : findings'[d] = IF d = t THEN r ELSE findings[d]
    BY <1>0, <1>2, <2>1, <2>2, FindingWritten
  <2>5. /\ turn' \in Turns /\ turn'.at = "resolved" /\ turn'.used = turn.used
        /\ turn'.max = turn.max /\ turn'.target = t
    BY <1>2, <2>1 DEF Turns, InRound
  <2>6. RoundTypes'
    <3>1. \A f \in 1..Len(findings) : findings'[f].gen \in 1..Len(gens)
                                        /\ findings'[f].round \in 0..Len(rounds)
      BY <1>0, <1>2, <2>2, <2>4 DEF RoundTypes
    <3>2. QED
      BY <1>0, <1>1, <2>1, <2>4, <2>5, <3>1 DEF RoundTypes
  <2>7. \E k \in 1..Len(sent) : sent[k] = t
    BY <1>0, <1>1 DEF RoundInv
  <2>8. RoundInv'
    <3>1. t # 0 /\ findings'[t].round = Len(rounds) /\ findings'[t].disp = "Repaired"
      BY <1>2, <2>2, <2>4
    <3>2. \A k \in 1..Len(sent) : findings'[sent[k]].round # 0
      BY <1>0, <1>2, <2>2, <2>4 DEF RoundInv, RoundTypes
    <3>3. QED
      BY <1>1, <1>2, <2>5, <2>7, <3>1, <3>2 DEF RoundInv, InRound
  <2>9. HeardInv'
    BY <1>2, <2>1, <2>5 DEF HeardInv
  <2>10. Repair!HandedOnce' /\ Repair!ReadyWasReviewed'
    BY <1>0, <1>1, <1>2, <2>1 DEF Repair!RoundsAreSound, Repair!HandedOnce, Repair!ReadyWasReviewed
  <2>11. Repair!RepairsAreBacked'
    <3>1. t \in Repair!ToSet(sent)
      BY <1>2, <2>7 DEF Repair!ToSet
    <3>2. ASSUME NEW f \in 1..Len(findings), findings'[f].disp = "Repaired"
          PROVE  /\ f \in Repair!ToSet(sent) /\ findings'[f].round \in 1..Len(rounds)
                 /\ rounds[findings'[f].round] \in {"AwaitingValidation", "Resolved"}
                 /\ findings'[f].gen < Len(gens)
      <4>1. CASE f = t
        BY <1>2, <2>2, <2>3, <2>4, <3>1, <4>1
      <4>2. CASE f # t
        BY <1>0, <1>2, <2>4, <3>2, <4>2 DEF Repair!RoundsAreSound, Repair!RepairsAreBacked
      <4>3. QED
        BY <4>1, <4>2
    <3>3. ASSUME NEW n \in 1..Len(rounds), rounds[n] = "Resolved"
          PROVE  \E f \in 1..Len(findings) :
                   findings'[f].round = n /\ findings'[f].disp = "Repaired"
      <4>1. PICK f \in 1..Len(findings) : findings[f].round = n /\ findings[f].disp = "Repaired"
        BY <1>0, <1>2, <3>3 DEF Repair!RoundsAreSound, Repair!RepairsAreBacked
      <4>2. findings'[f].round = n /\ findings'[f].disp = "Repaired"
        BY <1>2, <2>2, <2>4, <4>1
      <4>3. QED
        BY <4>2
    <3>4. QED
      BY <1>1, <1>2, <2>4, <3>2, <3>3 DEF Repair!RepairsAreBacked
  <2>12. QED
    BY <2>6, <2>8, <2>9, <2>10, <2>11 DEF RoundsInv, Repair!RoundsAreSound
<1>6. QED
  BY <1>3, <1>4, <1>5 DEF Repair!Dispose

\* Every step of a call, of a reviewer and of the store keeps it.
LEMMA RoundsStep ==
  ASSUME MaxVersions \in Nat \ {0}, MaxRoundsOfCall \in Nat, RoundsInv, Repair!RoundNext
  PROVE  RoundsInv'
BY RoundQuietStep, RoundTreeStep, RoundRecordStep, HandOffStep, JudgeStep, PersistStep,
   AssignStep, DisposeStep, Zenon
DEF Repair!RoundNext

\* What it is for.
LEMMA RoundsHold ==
  ASSUME RoundsInv
  PROVE  Repair!RoundsAreSound /\ Repair!RoundTypeOK
<1>1. RoundTypes /\ Repair!RoundsAreSound
  BY DEF RoundsInv
<1> DEFINE Rows == [issue : Issues, gen : 1..Len(gens), disp : Repair!Disposition,
                    round : 0..Len(rounds)]
<1>2. findings \in Seq(Rows)
  <2>1. /\ findings \in Seq(FindingRows)
        /\ \A f \in 1..Len(findings) : findings[f] \in FindingRows
        /\ \A f \in 1..Len(findings) :
             findings[f].gen \in 1..Len(gens) /\ findings[f].round \in 0..Len(rounds)
    BY <1>1 DEF RoundTypes
  <2>2. \A f \in 1..Len(findings) : findings[f] \in Rows
    BY <2>1 DEF FindingRows
  <2> HIDE DEF Rows
  <2>3. QED
    BY <2>1, <2>2, LenProperties, SeqDef
<1>3. turn.used \in 0..turn.max /\ turn.target \in 0..Len(findings)
  BY <1>1 DEF RoundTypes, Turns
<1>4. QED
  BY <1>1, <1>2, <1>3 DEF RoundTypes, Repair!RoundTypeOK

-------------------------------------------------------------------------------
(* ActionAuthorization.                                                    *)

\* The approval that a call is about; once the call has read it, it holds its
\* context and the version of one that was not answered.
AuthCalls ==
  [at : {"idle", "approval", "task", "worktree", "again", "write", "audit"},
   by : {"none", "executor", "human"}, of : Approvals \union {"none"},
   context : Contexts \union {"none"}, version : Nat]

AuthBacked(k) ==
  /\ k.at # "idle" => k.of \in Approvals /\ issued[k.of].lc # "none"
  /\ k.at \in {"task", "worktree", "again", "write", "audit"} =>
       k.context = issued[k.of].context
  /\ k.at \in {"task", "worktree", "again", "write"} => k.version = 0
  /\ k.at = "audit" => issued[k.of].lc = "Approved" /\ audits[k.of] = 0

AuthTypes ==
  /\ issued \in [Approvals -> [context : Contexts \union {"none"},
                               lc : Action!ApprovalLifecycle \union {"none"},
                               version : Nat]]
  /\ caller \in [Callers -> AuthCalls] /\ current \in Contexts
  /\ recovering \in BOOLEAN /\ standing \in BOOLEAN
  /\ won \in [Approvals -> 0..1] /\ audits \in [Approvals -> 0..1]

\* The version of an approval counts its answers.
AuthInv ==
  /\ AuthTypes
  /\ \A a \in Approvals :
       /\ issued[a].lc = "none" => issued[a] = Action!Unissued
       /\ issued[a].lc # "none" => issued[a].context \in Contexts
       /\ issued[a].version = won[a]
       /\ won[a] = 0 <=> issued[a].lc \in {"none", "Pending"}
       /\ audits[a] = 1 => issued[a].lc = "Approved"
  /\ \A c \in Callers : AuthBacked(caller[c])
  /\ \A c, d \in Callers :
       /\ caller[c].at = "audit" /\ caller[d].at = "audit"
       /\ caller[c].of = caller[d].of
       => c = d

\* No call is under way and nothing was issued.
LEMMA AuthInit ==
  ASSUME Contexts # {}
  PROVE  Action!AuthStart => AuthInv
<1> SUFFICES ASSUME Action!AuthStart PROVE AuthInv
  OBVIOUS
<1>1. current \in Contexts
  BY Zenon DEF Action!AuthStart
<1>2. AuthTypes
  <2>1. issued \in [Approvals -> [context : Contexts \union {"none"},
                                  lc : Action!ApprovalLifecycle \union {"none"},
                                  version : Nat]]
    BY DEF Action!AuthStart, Action!Unissued
  <2>2. caller \in [Callers -> AuthCalls]
    BY DEF Action!AuthStart, AuthCalls, Action!Resting
  <2>3. recovering \in BOOLEAN /\ standing \in BOOLEAN
    BY Zenon DEF Action!AuthStart
  <2>4. won \in [Approvals -> 0..1] /\ audits \in [Approvals -> 0..1]
    BY DEF Action!AuthStart
  <2>5. QED
    BY <1>1, <2>1, <2>2, <2>3, <2>4, Zenon DEF AuthTypes
<1>3. QED
  BY <1>2 DEF Action!AuthStart, AuthInv, AuthBacked, Action!Resting, Action!Unissued

\* A call goes on, and nothing is written.
LEMMA AuthGoesOn ==
  ASSUME AuthInv, NEW c \in Callers, NEW k \in AuthCalls,
         AuthBacked(k), k.at # "audit", caller' = [caller EXCEPT ![c] = k],
         UNCHANGED <<issued, audits, recovering, standing, current, won>>
  PROVE  AuthInv'
<1>1. AuthTypes'
  BY DEF AuthInv, AuthTypes
<1>2. \A d \in Callers : caller'[d] = IF d = c THEN k ELSE caller[d]
  BY DEF AuthInv, AuthTypes
<1>3. \A d \in Callers : AuthBacked(caller'[d])
  BY <1>2 DEF AuthInv
<1>4. \A d \in Callers : AuthBacked(caller[d])'
  BY <1>3 DEF AuthBacked
<1>5. QED
  BY <1>1, <1>2, <1>4 DEF AuthInv

\* Every step of issuing, of answering (decide_human_approval) and of using an approval keeps it.
LEMMA AuthStep ==
  ASSUME AuthInv, Action!AuthNext
  PROVE  AuthInv'
<1> DEFINE Rest == [at |-> "idle", by |-> "none", of |-> "none",
                    context |-> "none", version |-> 0]
<1>a. Rest \in AuthCalls /\ AuthBacked(Rest) /\ Rest = Action!Resting /\ Rest.at # "audit"
  BY DEF AuthCalls, AuthBacked, Action!Resting
<1>1. CASE Action!TaskMoves
  <2>1. AuthTypes'
    BY <1>1 DEF Action!TaskMoves, AuthInv, AuthTypes
  <2>2. QED
    BY <1>1, <2>1 DEF Action!TaskMoves, AuthInv, AuthBacked
<1>2. ASSUME NEW a \in Approvals, Action!Issue(a) PROVE AuthInv'
  <2>1. AuthTypes'
    BY <1>2 DEF Action!Issue, AuthInv, AuthTypes, Action!ApprovalLifecycle
  <2>2. \A b \in Approvals : issued'[b] =
          IF b = a THEN [context |-> current, lc |-> "Pending", version |-> 0]
          ELSE issued[b]
    BY <1>2 DEF Action!Issue, AuthInv, AuthTypes
  <2>3. issued[a].lc = "none"
    BY <1>2 DEF Action!Issue, Action!Unissued
  <2>4. \A c \in Callers : AuthBacked(caller[c])'
    BY <1>2, <2>2, <2>3 DEF Action!Issue, AuthInv, AuthBacked
  <2>5. QED
    BY <1>2, <2>1, <2>2, <2>3, <2>4 DEF Action!Issue, AuthInv, AuthTypes, Action!Unissued
<1>3. ASSUME NEW a \in Approvals, NEW c \in Callers, Action!Ask(c, a) PROVE AuthInv'
  <2>1. PICK x \in Contexts, by \in {"executor", "human"} :
          caller' = [caller EXCEPT ![c] = [at |-> "approval", by |-> by, of |-> a,
                                           context |-> x, version |-> 0]]
    BY <1>3 DEF Action!Ask, Action!Sets, AuthInv, AuthTypes
  <2> DEFINE k == [at |-> "approval", by |-> by, of |-> a, context |-> x, version |-> 0]
  <2>2. issued[a].lc # "none"
    BY <1>3 DEF Action!Ask, AuthInv
  <2>3. k \in AuthCalls /\ AuthBacked(k) /\ k.at # "audit"
    BY <2>2 DEF AuthCalls, AuthBacked
  <2>4. QED
    BY <1>3, <2>1, <2>3, AuthGoesOn DEF Action!Ask
<1>4. ASSUME NEW c \in Callers,
             Action!ReadApproval(c) \/ Action!ReadTask(c) \/ Action!ReadWorktree(c)
               \/ Action!ReadAgain(c)
      PROVE  AuthInv'
  <2> DEFINE Read(place, version) ==
               [caller[c] EXCEPT !.at = place, !.version = version]
             Went(k) == caller' = [caller EXCEPT ![c] = k]
  <2>1. caller[c] \in AuthCalls /\ AuthBacked(caller[c])
    BY DEF AuthInv, AuthTypes
  <2>2. \/ Went(Rest)
        \/ \E place \in {"task", "worktree", "again", "write"} :
             /\ Went(Read(place, 0)) /\ caller[c].of \in Approvals
             /\ caller[c].context = issued[caller[c].of].context
             /\ issued[caller[c].of].lc # "none"
    <3>0. caller[c].version = 0 =>
            \A place : [caller[c] EXCEPT !.at = place] = Read(place, 0)
      BY <2>1 DEF AuthCalls
    <3>1. CASE Action!ReadApproval(c)
      <4>1. caller[c].of \in Approvals
        BY <2>1, <3>1 DEF Action!ReadApproval, AuthBacked
      <4>2. issued[caller[c].of].lc = "Pending" =>
              issued[caller[c].of].version = 0
        BY <4>1 DEF AuthInv
      <4>3. QED
        BY <1>a, <3>1, <4>1, <4>2 DEF Action!ReadApproval, Action!Sets, Action!Denied
    <3>2. CASE Action!ReadTask(c)
      <4>1. Went(Rest) \/ Went([caller[c] EXCEPT !.at = "worktree"])
        BY <1>a, <3>2 DEF Action!ReadTask, Action!Sets, Action!Moves, Action!Denied
      <4>2. QED
        BY <2>1, <3>0, <3>2, <4>1 DEF Action!ReadTask, AuthBacked
    <3>3. CASE Action!ReadWorktree(c)
      <4>1. \/ Went(Rest) \/ Went([caller[c] EXCEPT !.at = "again"])
            \/ Went([caller[c] EXCEPT !.at = "write"])
        BY <1>a, <3>3 DEF Action!ReadWorktree, Action!Sets, Action!Moves, Action!Denied
      <4>2. QED
        BY <2>1, <3>0, <3>3, <4>1 DEF Action!ReadWorktree, AuthBacked
    <3>4. CASE Action!ReadAgain(c)
      <4>1. caller[c].of \in Approvals
        BY <2>1, <3>4 DEF Action!ReadAgain, AuthBacked
      <4>2. issued[caller[c].of].lc = "Pending" =>
              issued[caller[c].of].version = 0
        BY <4>1 DEF AuthInv
      <4>3. QED
        BY <1>a, <2>1, <3>4, <4>1, <4>2 DEF Action!ReadAgain, Action!Sets, Action!Denied, AuthBacked
    <3>5. QED
      BY <1>4, <3>1, <3>2, <3>3, <3>4
  <2>3. UNCHANGED <<issued, audits, recovering, standing, current, won>>
    BY <1>4 DEF Action!ReadApproval, Action!ReadTask, Action!ReadWorktree, Action!ReadAgain
  <2>4. CASE Went(Rest)
    BY <1>a, <2>3, <2>4, AuthGoesOn
  <2>5. ASSUME NEW place \in {"task", "worktree", "again", "write"},
               Went(Read(place, 0)), caller[c].of \in Approvals,
               caller[c].context = issued[caller[c].of].context,
               issued[caller[c].of].lc # "none"
        PROVE  AuthInv'
    <3>1. Read(place, 0) \in AuthCalls /\ AuthBacked(Read(place, 0))
          /\ Read(place, 0).at # "audit"
      BY <2>1, <2>5 DEF AuthCalls, AuthBacked
    <3>2. QED
      BY <2>3, <2>5, <3>1, AuthGoesOn
  <2>6. QED
    BY <2>2, <2>4, <2>5
<1>5. ASSUME NEW c \in Callers, Action!Write(c) PROVE AuthInv'
  <2> DEFINE a == caller[c].of
  <2>1. /\ caller[c] \in AuthCalls /\ a \in Approvals /\ issued[a].lc # "none"
        /\ caller[c].context = issued[a].context /\ caller[c].version = 0
    BY <1>5 DEF Action!Write, AuthInv, AuthTypes, AuthBacked
  <2>2. CASE ~Action!SameVersion(c)
    BY <1>5, <1>a, <2>2, AuthGoesOn DEF Action!Write, Action!Denied, Action!Sets
  <2>3. CASE Action!SameVersion(c)
    <3>1. won[a] = 0 /\ issued[a].lc = "Pending" /\ audits[a] = 0
      BY <2>1, <2>3 DEF Action!SameVersion, AuthInv, AuthTypes
    <3>2. PICK l \in {"Approved", "Denied"}, k \in {Rest, [caller[c] EXCEPT !.at = "audit"]} :
            /\ issued' = [issued EXCEPT ![a].lc = l, ![a].version = @ + 1]
            /\ caller' = [caller EXCEPT ![c] = k]
            /\ k.at = "audit" => l = "Approved"
            /\ won' = [won EXCEPT ![a] = @ + 1]
      BY <1>5, <2>3 DEF Action!Write, Action!Sets, Action!Moves, Action!Resting, AuthInv, AuthTypes
    <3>3. /\ \A b \in Approvals : b # a => issued'[b] = issued[b] /\ won'[b] = won[b]
          /\ issued'[a].lc = l /\ issued'[a].version = 1 /\ won'[a] = 1
          /\ issued'[a].context = issued[a].context
      BY <2>1, <3>1, <3>2 DEF AuthInv, AuthTypes
    <3>4. \A d \in Callers : caller'[d] = IF d = c THEN k ELSE caller[d]
      BY <3>2 DEF AuthInv, AuthTypes
    <3>5. k \in AuthCalls /\ (k.at # "audit" => k = Rest)
      BY <1>a, <2>1, <3>2 DEF AuthCalls
    <3>6. AuthTypes'
      BY <1>5, <2>1, <3>1, <3>2, <3>3, <3>5 DEF Action!Write, AuthInv, AuthTypes,
         Action!ApprovalLifecycle
    <3>7. \A d \in Callers : caller[d].at = "audit" => caller[d].of # a
      BY <3>1 DEF AuthInv, AuthBacked
    <3>8. \A d \in Callers : AuthBacked(caller[d])'
      <4>1. TAKE d \in Callers
      <4>2. CASE d = c
        <5>1. caller'[c] = k /\ audits' = audits
          BY <1>5, <3>4 DEF Action!Write
        <5>2. CASE k = Rest
          BY <4>2, <5>1, <5>2 DEF AuthBacked
        <5>3. CASE k = [caller[c] EXCEPT !.at = "audit"]
          <6>1. /\ k.at = "audit" /\ k.of = a /\ k.context = caller[c].context
                /\ l = "Approved"
            BY <2>1, <3>2, <5>3 DEF AuthCalls
          <6>2. QED
            BY <2>1, <3>1, <3>3, <4>2, <5>1, <6>1 DEF AuthBacked
        <5>4. QED
          BY <3>2, <5>2, <5>3
      <4>3. CASE d # c
        BY <1>5, <3>3, <3>4, <3>7, <4>3 DEF Action!Write, AuthInv, AuthBacked
      <4>4. QED
        BY <4>2, <4>3
    <3>9. audits' = audits
      BY <1>5 DEF Action!Write
    <3>10. \A b \in Approvals :
             /\ issued'[b].lc = "none" => issued'[b] = Action!Unissued
             /\ issued'[b].lc # "none" => issued'[b].context \in Contexts
             /\ issued'[b].version = won'[b]
             /\ won'[b] = 0 <=> issued'[b].lc \in {"none", "Pending"}
             /\ audits'[b] = 1 => issued'[b].lc = "Approved"
      BY <2>1, <3>1, <3>3, <3>9 DEF AuthInv
    <3>11. \A d, e \in Callers :
             /\ caller'[d].at = "audit" /\ caller'[e].at = "audit"
             /\ caller'[d].of = caller'[e].of
             => d = e
      BY <1>a, <2>1, <3>2, <3>4, <3>7 DEF AuthInv, AuthCalls
    <3>12. QED
      BY <3>6, <3>8, <3>10, <3>11 DEF AuthInv
  <2>4. QED
    BY <2>2, <2>3
<1>6. ASSUME NEW c \in Callers, Action!Audit(c) PROVE AuthInv'
  <2> DEFINE a == caller[c].of
  <2>1. a \in Approvals /\ issued[a].lc = "Approved" /\ audits[a] = 0
    BY <1>6 DEF Action!Audit, AuthInv, AuthBacked
  <2>2. \A d \in Callers : caller'[d] = IF d = c THEN Rest ELSE caller[d]
    BY <1>6 DEF Action!Audit, Action!Sets, Action!Resting, AuthInv, AuthTypes
  <2>3. \A b \in Approvals : audits'[b] = IF b = a THEN 1 ELSE audits[b]
    BY <1>6, <2>1 DEF Action!Audit, AuthInv, AuthTypes
  <2>4. AuthTypes'
    BY <1>6, <1>a, <2>1 DEF Action!Audit, Action!Sets, AuthInv, AuthTypes
  <2>5. \A d \in Callers : d # c /\ caller[d].at = "audit" => caller[d].of # a
    BY <1>6 DEF Action!Audit, AuthInv
  <2>6. \A d \in Callers : AuthBacked(caller[d])'
    BY <1>6, <1>a, <2>1, <2>2, <2>3, <2>5 DEF Action!Audit, AuthInv, AuthBacked
  <2>7. QED
    BY <1>6, <2>1, <2>2, <2>3, <2>4, <2>6 DEF Action!Audit, AuthInv
<1>7. ASSUME NEW c \in Callers, Action!CallDies(c) PROVE AuthInv'
  BY <1>7, <1>a, AuthGoesOn DEF Action!CallDies, Action!Sets
<1>8. QED
  BY <1>1, <1>2, <1>3, <1>4, <1>5, <1>6, <1>7 DEF Action!AuthNext

\* Every approval has one winner, and its version does not go beyond one.
LEMMA AuthHolds == AuthInv => Action!OneWinner /\ Action!AuthTypeOK
BY DEF AuthInv, AuthTypes, AuthBacked, AuthCalls, Action!OneWinner, Action!AuthTypeOK,
   Action!Unissued

-------------------------------------------------------------------------------
(* All of them together.                                                   *)

SplitInv == TreeInv /\ ChecksInv /\ SnapshotInv /\ RoundsInv /\ AuthInv

\* Nothing has happened yet.
LEMMA SplitBegins == ASSUME SplitInit PROVE SplitInv
<1>1. TreeInv
  BY TreeInit, SplitAssumption DEF SplitInit
<1>2. ChecksInv
  BY ChecksInit, SplitAssumption DEF SplitInit
<1>3. SnapshotInv
  BY SnapshotInit, SplitAssumption DEF SplitInit
<1>4. RoundsInv
  BY RoundsInit, SplitAssumption DEF SplitInit
<1>5. AuthInv
  BY AuthInit, SplitAssumption DEF SplitInit
<1>6. QED
  BY <1>1, <1>2, <1>3, <1>4, <1>5 DEF SplitInv

\* A component that does not move keeps its invariant.
LEMMA TreeRests == ASSUME TreeInv, UNCHANGED taskVars PROVE TreeInv'
<1> USE DEF taskVars
<1>1. TreeTypes'
  BY DEF TreeInv, TreeTypes, Task!TreeTypeOK
<1>2. DiskInv'
  BY DEF TreeInv, DiskInv, Task!At
<1>3. TreeCallInv'
  BY DEF TreeInv, TreeCallInv, Task!At
<1>4. RecordInv'
  BY DEF TreeInv, RecordInv, Task!At
<1>5. Task!DiscardIsJust'
  BY DEF TreeInv, Task!DiscardIsJust
<1>6. QED
  BY <1>1, <1>2, <1>3, <1>4, <1>5 DEF TreeInv

\* The checks keep theirs.
LEMMA ChecksRest == ASSUME ChecksInv, UNCHANGED checkVars PROVE ChecksInv'
<1> USE DEF checkVars
<1>1. CheckTypes'
  BY DEF ChecksInv, CheckTypes
<1>2. RunnerInv'
  BY DEF ChecksInv, RunnerInv, AtWork, Checks!This, Checks!Running
<1>3. Checks!ChecksAreBacked'
  BY DEF ChecksInv, Checks!ChecksAreBacked, Checks!This
<1>4. QED
  BY <1>1, <1>2, <1>3 DEF ChecksInv

\* So does the snapshot.
LEMMA SnapshotRests == ASSUME SnapshotInv, UNCHANGED snapshotVars PROVE SnapshotInv'
BY DEF snapshotVars, SnapshotInv, SnapshotTypes, Review!SnapshotTypeOK,
   Review!SnapshotIsTheGeneration,
       StillRead, StillValid, CopiedWell, ReadAfter

\* So do the rounds.
LEMMA RoundsRest == ASSUME RoundsInv, UNCHANGED roundVars PROVE RoundsInv'
<1> USE DEF roundVars
<1>1. RoundTypes'
  BY DEF RoundsInv, RoundTypes
<1>2. RoundInv'
  BY DEF RoundsInv, RoundInv, InRound
<1>3. HeardInv'
  BY DEF RoundsInv, HeardInv
<1>4. Repair!RoundsAreSound'
  BY DEF RoundsInv, Repair!RoundsAreSound, Repair!ReadyWasReviewed, Repair!HandedOnce,
     Repair!RepairsAreBacked
<1>5. QED
  BY <1>1, <1>2, <1>3, <1>4 DEF RoundsInv

\* So do the callers of an approval.
LEMMA AuthRests == ASSUME AuthInv, UNCHANGED authVars PROVE AuthInv'
BY DEF authVars, AuthInv, AuthTypes, AuthBacked

\* One of them moves, the others rest.
LEMMA SplitStep == ASSUME SplitInv, [SplitNext]_<<focus, vars, diffVars, budgetVars, taskVars,
                                              snapshotVars, roundVars, authVars, checkVars>>
                   PROVE  SplitInv'
<1>1. Task!TreeNext \/ UNCHANGED taskVars
  BY DEF SplitNext
<1>2. Checks!ChecksNext \/ UNCHANGED checkVars
  BY DEF SplitNext
<1>3. Review!SnapshotNext \/ UNCHANGED snapshotVars
  BY DEF SplitNext
<1>4. Repair!RoundNext \/ UNCHANGED roundVars
  BY DEF SplitNext
<1>5. Action!AuthNext \/ UNCHANGED authVars
  BY DEF SplitNext
<1>6. TreeInv'
  BY <1>1, TreeStep, TreeRests, SplitAssumption DEF SplitInv
<1>7. ChecksInv'
  BY <1>2, ChecksStep, ChecksRest, SplitAssumption DEF SplitInv
<1>8. SnapshotInv'
  BY <1>3, SnapshotStep, SnapshotRests, SplitAssumption DEF SplitInv
<1>9. RoundsInv'
  BY <1>4, RoundsStep, RoundsRest, SplitAssumption DEF SplitInv
<1>10. AuthInv'
  BY <1>5, AuthStep, AuthRests DEF SplitInv
<1>11. QED
  BY <1>6, <1>7, <1>8, <1>9, <1>10 DEF SplitInv

\* The five invariants hold in every state, whichever of the components moves.
THEOREM SplitInvariance == SplitSpec => []SplitInv
<1>1. SplitInit => SplitInv
  BY SplitBegins
<1>2. SplitInv /\ [SplitNext]_<<focus, vars, diffVars, budgetVars, taskVars, snapshotVars,
                              roundVars, authVars, checkVars>> => SplitInv'
  BY SplitStep
<1>3. QED
  BY <1>1, <1>2, PTL DEF SplitSpec

\* A worktree is discarded only with an approval of what is discarded
\* (discard_worktree), and what the record says is there is there.
THEOREM TreeIsSafe == SplitSpec => []TreeIsAccountedFor
<1>1. SplitInv => TreeIsAccountedFor
  BY TreeHolds, SplitAssumption DEF SplitInv, TreeIsAccountedFor
<1>2. QED
  BY <1>1, SplitInvariance, PTL

\* Whatever the runner, the reviewer, the rounds of repair and the callers of an approval
\* interleave: what is validated passed every check (ChecksAreBacked), what is reviewed is
\* what was validated (SnapshotIsTheGeneration), what is repaired is reviewed again and
\* never sent twice (RoundsAreSound), and an approval has one winner (OneWinner).
THEOREM GateStaysSound == SplitSpec => []GateIsSound
<1>1. SplitInv => GateIsSound
  BY ChecksHold, SnapshotHolds, RoundsHold, AuthHolds, SplitAssumption DEF SplitInv, GateIsSound
<1>2. QED
  BY <1>1, SplitInvariance, PTL

================================================================================
