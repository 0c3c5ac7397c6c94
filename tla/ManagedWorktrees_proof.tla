------------------------ MODULE ManagedWorktrees_proof ------------------------
(***************************************************************************)
(* The commands on a project exclude one another, and none of them makes a *)
(* broken worktree usable again: for any worktrees, faults, restarts and   *)
(* anything others do to the repository, with the inspections of the       *)
(* worktrees going on beside them.                                         *)
(*                                                                         *)
(* The project's entry is taken and given back in a dozen places; that a   *)
(* return gives back no other command's entry follows only from the        *)
(* exclusion itself, which is why the two are one invariant.               *)
(*                                                                         *)
(* Rows and disk then agree as far as they can: what a command made has a  *)
(* row, and what others, a fault or a restart did is told from what the    *)
(* commands did.                                                           *)
(*                                                                         *)
(* Last, what an inspection shows of a file is what the file was, unless   *)
(* it was edited between each two of the readings that had to agree.       *)
(***************************************************************************)
EXTENDS ChangeInspection, FiniteSetTheorems, SequenceTheorems, TLAPS

\* What holds the project: creations, removals, an inspection (the fourth is
\* the writing of a verdict).
Creations  == {w \in Worktrees : making[w] \notin {"idle", "done"}}
Removals   == {w \in Worktrees : removing[w] \notin {"idle", "read"}}
Inspecting == insp.pc \notin {"idle", "take", "capture"}

Inspections ==
  [op: {"none", "inventory", "classification", "diff"},
   w: Worktrees \union {Idle.w},
   pc: {"idle", "take", "before", "staged", "unstaged", "after", "again",
        "owned", "pass", "fresh", "count", "compare", "refresh", "final",
        "capture"},
   pass: 1..3]

\* The types the argument needs; what is on the disk may be anything.
HoldTypes ==
  /\ rows \in [Worktrees -> [st: States \union {"none"}, base: Nat]]
  /\ tip \in Nat /\ base \in [Worktrees -> Nat]
  /\ busy \in BOOLEAN
  /\ making \in [Worktrees -> {"idle", "insert", "add", "fail", "verify",
                               "inspect", "finish", "done"}]
  /\ removing \in [Worktrees -> {"idle", "read", "check", "mark", "retain"}]
  /\ rec \in {"idle", "visit", "write"}
  /\ verdict \in States \union {"none"}
  /\ insp \in Inspections

HoldInv ==
  /\ \/ busy
     \/ Creations = {} /\ Removals = {} /\ rec # "write" /\ ~Inspecting
  /\ \A v, w \in Creations : v = w
  /\ \A v, w \in Removals : v = w
  /\ Creations = {} \/ (Removals = {} /\ rec # "write" /\ ~Inspecting)
  /\ Removals = {} \/ (rec # "write" /\ ~Inspecting)
  /\ rec = "write" => ~Inspecting

\* An id that is being created has no row yet, and the verdict on a row that
\* was listed broken finds it broken.
BrokenInv ==
  /\ \A w \in Worktrees : making[w] = "insert" => rows[w].st = "none"
  /\ rec = "write" /\ Head(listed).st \in Broken =>
       verdict \in Broken \union {"none"}

WorktreesInv == HoldTypes /\ HoldInv /\ BrokenInv

-------------------------------------------------------------------------------
\* A step inspects, or it is of the commands and leaves the inspection alone,
\* or it is an edit, or the process dies.
InspectStep == Inspect /\ UNCHANGED <<projectVars, rows, diskVars, makeVars,
                                      removing, recVars, leaving, bounds>>

LEMMA InspectLeaves == Inspect => InspectStep
BY DEF Inspect, InspectStep, InspectReads, InspectTakes, InspectFails,
       InventoryBefore, InventoryStaged, InventoryUnstaged, InventoryAfter,
       InventoryAgain, InventoryReturns, PassBegins, ClassifySkips,
       ClassifyFresh, ClassifyCounts, PassEnds, Refresh, FinalValidation,
       Capture, DiffReturns, Returns, Reads, worktreeVars

\* Where an inspection goes, at its pass or at another.
LEMMA GoesOn ==
  ASSUME insp \in Inspections, NEW n \in 1..3,
         NEW pc \in {"pass", "refresh", "capture"},
         insp' = [insp EXCEPT !.pc = pc, !.pass = n]
  PROVE  insp' \in Inspections /\ insp'.pc = pc
<1>1. insp' = [op |-> insp.op, w |-> insp.w, pc |-> pc, pass |-> n]
  BY DEF Inspections
<1>2. insp.op \in {"none", "inventory", "classification", "diff"}
      /\ insp.w \in Worktrees \union {Idle.w}
  BY DEF Inspections
<1>3. QED
  BY <1>1, <1>2 DEF Inspections

\* What an inspection does to the project's entry: it goes on as it is, or
\* takes the project, or gives it back.
LEMMA InspectHolds ==
  ASSUME HoldTypes, Inspect
  PROVE  /\ insp' \in Inspections
         /\ busy' \in BOOLEAN
         /\ \/ busy' = busy /\ (Inspecting' <=> Inspecting)
            \/ ~busy /\ busy' /\ Inspecting'
            \/ Inspecting /\ ~Inspecting'
<1>a. Idle \in Inspections /\ Idle.pc = "idle"
  BY DEF Idle, Inspections
<1>b. \A pc \in {"before", "staged", "unstaged", "after", "again", "owned",
                 "pass", "fresh", "count", "compare", "refresh", "final",
                 "capture"} :
        Goes(pc) => insp' \in Inspections /\ insp'.pc = pc
  BY DEF HoldTypes, Inspections, Goes
<1> USE <1>a, <1>b DEF HoldTypes, Inspecting, Reads, Returns, worktreeVars
<1>1. CASE \E w \in Worktrees, op \in {"inventory", "classification", "diff"} :
             InspectReads(w, op)
  BY <1>1 DEF InspectReads, Inspections
<1>2. CASE InspectTakes
  BY <1>2 DEF InspectTakes
<1>3. CASE InspectFails
  BY <1>3 DEF InspectFails
<1>4. CASE InventoryBefore \/ InventoryStaged \/ InventoryUnstaged
           \/ InventoryAfter \/ InventoryAgain
  BY <1>4
  DEF InventoryBefore, InventoryStaged, InventoryUnstaged, InventoryAfter,
      InventoryAgain
<1>5. CASE InventoryReturns
  BY <1>5 DEF InventoryReturns
<1>6. CASE PassBegins
  BY <1>6 DEF PassBegins
<1>7. CASE ClassifySkips \/ ClassifyFresh \/ ClassifyCounts
  <2>1. AfterSection \in {"fresh", "compare"}
    BY DEF AfterSection
  <2>2. QED
    BY <1>7, <2>1 DEF ClassifySkips, ClassifyFresh, ClassifyCounts
<1>8. CASE PassEnds
  <2>1. insp.pass \in 1..3
    BY DEF Inspections
  <2>2. insp' \in Inspections /\ insp'.pc \in {"refresh", "pass"}
    <3>1. CASE insp.pass = 3
      BY <1>8, <3>1, GoesOn DEF PassEnds
    <3>2. CASE insp.pass # 3
      <4>1. insp.pass + 1 \in 1..3 /\ insp.pass < 3
        BY <2>1, <3>2
      <4>2. insp' = [insp EXCEPT !.pc = "pass", !.pass = insp.pass + 1]
        BY <1>8, <3>2, <4>1 DEF PassEnds
      <4>3. QED
        BY <4>1, <4>2, GoesOn
    <3>3. QED
      BY <3>1, <3>2
  <2>3. QED
    BY <1>8, <2>2 DEF PassEnds
<1>9. CASE Refresh
  BY <1>9 DEF Refresh
<1>10. CASE FinalValidation
  <2>1. CASE insp' = Idle
    BY <1>10, <2>1 DEF FinalValidation
  <2>2. CASE insp' = [insp EXCEPT !.pc = "capture", !.pass = 1]
    <3>1. insp' \in Inspections /\ insp'.pc = "capture"
      BY <2>2, GoesOn
    <3>2. insp.pc = "final" /\ busy' = FALSE
      BY <1>10 DEF FinalValidation
    <3>3. QED
      BY <3>1, <3>2
  <2>3. QED
    BY <1>10, <2>1, <2>2 DEF FinalValidation
<1>11. CASE Capture \/ DiffReturns
  BY <1>11 DEF Capture, DiffReturns
<1>12. QED
  BY <1>1, <1>2, <1>3, <1>4, <1>5, <1>6, <1>7, <1>8, <1>9, <1>10, <1>11
  DEF Inspect

-------------------------------------------------------------------------------
\* What a compare and set makes of the rows.
LEMMA MoveTypes ==
  ASSUME rows \in [Worktrees -> [st: States \union {"none"}, base: Nat]],
         NEW w, NEW from, NEW to \in States \union {"none"}, Move(w, from, to)
  PROVE  /\ rows' \in [Worktrees -> [st: States \union {"none"}, base: Nat]]
         /\ \A v \in Worktrees :
              rows'[v] = rows[v] \/ (rows[v].st = from /\ rows'[v].st = to)
BY DEF Move

\* The commands keep the types.
LEMMA TypesStep ==
  ASSUME HoldTypes, [Next]_vars
  PROVE  HoldTypes'
<1> USE DEF HoldTypes
<1>1. CASE Inspect
  BY <1>1, InspectHolds, InspectLeaves
  DEF InspectStep, diskVars, makeVars, recVars
<1>2. CASE Crash
  <2>1. Idle \in Inspections
    BY DEF Idle, Inspections
  <2>2. QED
    BY <1>2, <2>1 DEF Crash, Dies, States
<1>3. CASE WorktreeNext /\ UNCHANGED inspectVars
  <2> USE DEF inspectVars, diskVars, makeVars, recVars, CreateEnds,
              RemoveEnds, VisitNext
  <2>1. ASSUME NEW w \in Worktrees, Creating(w)
        PROVE  HoldTypes'
    <3>1. CASE CreateBegins(w)
      BY <1>3, <3>1 DEF CreateBegins
    <3>2. CASE CreateInserts(w)
      <4>1. [st |-> "creating", base |-> base[w]]
              \in [st: States \union {"none"}, base: Nat]
        BY DEF States
      <4>2. rows' \in [Worktrees -> [st: States \union {"none"}, base: Nat]]
        BY <3>2, <4>1 DEF CreateInserts
      <4>3. QED
        BY <1>3, <3>2, <4>2 DEF CreateInserts
    <3>3. CASE CreateAdds(w)
      BY <1>3, <3>3 DEF CreateAdds
    <3>4. CASE CreateFails(w)
      BY <1>3, <3>4 DEF CreateFails, States, Move
    <3>5. CASE CreateVerifies(w)
      BY <1>3, <3>5 DEF CreateVerifies
    <3>6. CASE CreateFinishes(w)
      BY <1>3, <3>6 DEF CreateFinishes, States, Move
    <3>7. QED
      BY <2>1, <3>1, <3>2, <3>3, <3>4, <3>5, <3>6 DEF Creating
  <2>2. ASSUME NEW w \in Worktrees, Removing(w)
        PROVE  HoldTypes'
    <3>1. CASE RemoveReads(w) \/ RemoveTakes(w) \/ RemoveChecks(w)
      BY <1>3, <3>1 DEF RemoveReads, RemoveTakes, RemoveChecks
    <3>2. CASE RemoveMarks(w)
      <4>1. rows' \in [Worktrees -> [st: States \union {"none"}, base: Nat]]
        BY <3>2, MoveTypes DEF RemoveMarks, States
      <4>2. QED
        BY <1>3, <3>2, <4>1 DEF RemoveMarks
    <3>3. CASE RemoveRetains(w)
      BY <1>3, <3>3 DEF RemoveRetains, States, Move
    <3>4. QED
      BY <2>2, <3>1, <3>2, <3>3 DEF Removing
  <2>3. CASE Reconcile
    <3>1. CASE ListRows \/ SkipBusy
      BY <1>3, <3>1 DEF ListRows, SkipBusy
    <3>2. CASE Visit
      BY <1>3, <3>2 DEF Visit, Judge, Unanswered, States
    <3>3. CASE WriteVerdict
      <4>1. rows' \in [Worktrees -> [st: States \union {"none"}, base: Nat]]
        BY <3>3, MoveTypes DEF WriteVerdict
      <4>2. QED
        BY <1>3, <3>3, <4>1 DEF WriteVerdict, States
    <3>4. QED
      BY <2>3, <3>1, <3>2, <3>3 DEF Reconcile
  <2>4. CASE Unregister \/ TrustProject
    BY <1>3, <2>4
    DEF Unregister, CountWorktrees, DeleteRemoved, DeleteProject, TrustProject,
        NoRow
  <2>5. CASE Outsider
    BY <1>3, <2>5 DEF Outsider, CommitOutside
  <2>6. QED
    BY <1>3, <2>1, <2>2, <2>3, <2>4, <2>5 DEF WorktreeNext
<1>4. CASE Edit \/ UNCHANGED vars
  BY <1>4
  DEF Edit, vars, worktreeVars, inspectVars, diskVars, makeVars, recVars
<1>5. QED
  BY <1>1, <1>2, <1>3, <1>4 DEF Next

\* Every step keeps the commands apart.
LEMMA HoldStep ==
  ASSUME HoldTypes, HoldInv, [Next]_vars
  PROVE  HoldInv'
<1> USE DEF HoldTypes, HoldInv, Creations, Removals
<1>1. CASE Inspect
  BY <1>1, InspectHolds, InspectLeaves DEF InspectStep, makeVars, recVars
<1>2. CASE Crash
  BY <1>2 DEF Crash, Dies, Idle, Inspecting
<1>3. CASE WorktreeNext /\ UNCHANGED inspectVars
  <2>a. Inspecting' = Inspecting
    BY <1>3 DEF inspectVars, Inspecting
  <2> USE <2>a DEF diskVars, makeVars, recVars, CreateEnds, RemoveEnds,
                   VisitNext
  <2>1. ASSUME NEW w \in Worktrees, Creating(w)
        PROVE  HoldInv'
    <3>1. CASE CreateBegins(w)
      BY <3>1 DEF CreateBegins
    <3>2. CASE CreateInserts(w)
      BY <3>2 DEF CreateInserts
    <3>3. CASE CreateAdds(w)
      BY <3>3 DEF CreateAdds
    <3>4. CASE CreateFails(w)
      BY <3>4 DEF CreateFails
    <3>5. CASE CreateVerifies(w)
      BY <3>5 DEF CreateVerifies
    <3>6. CASE CreateFinishes(w)
      BY <3>6 DEF CreateFinishes
    <3>7. QED
      BY <2>1, <3>1, <3>2, <3>3, <3>4, <3>5, <3>6 DEF Creating
  <2>2. ASSUME NEW w \in Worktrees, Removing(w)
        PROVE  HoldInv'
    <3>1. CASE RemoveReads(w)
      BY <3>1 DEF RemoveReads
    <3>2. CASE RemoveTakes(w)
      BY <3>2 DEF RemoveTakes
    <3>3. CASE RemoveChecks(w)
      BY <3>3 DEF RemoveChecks
    <3>4. CASE RemoveMarks(w)
      BY <3>4 DEF RemoveMarks
    <3>5. CASE RemoveRetains(w)
      BY <3>5 DEF RemoveRetains
    <3>6. QED
      BY <2>2, <3>1, <3>2, <3>3, <3>4, <3>5 DEF Removing
  <2>3. CASE Reconcile
    BY <2>3 DEF Reconcile, ListRows, SkipBusy, Visit, WriteVerdict
  <2>4. CASE Unregister \/ TrustProject \/ Outsider
    BY <2>4
    DEF Unregister, CountWorktrees, DeleteRemoved, DeleteProject, TrustProject,
        Outsider
  <2>5. QED
    BY <1>3, <2>1, <2>2, <2>3, <2>4 DEF WorktreeNext
<1>4. CASE Edit \/ UNCHANGED vars
  BY <1>4
  DEF Edit, vars, worktreeVars, inspectVars, makeVars, recVars, Inspecting
<1>5. QED
  BY <1>1, <1>2, <1>3, <1>4 DEF Next
\* Every step but the writing of a verdict leaves a broken row broken.
LEMMA BrokenStays ==
  ASSUME WorktreesInv, [Next]_vars, NEW w \in Worktrees, rows[w].st \in Broken
  PROVE  rows'[w].st \in Broken \union {"none"}
<1> USE DEF WorktreesInv, HoldTypes, Broken
<1>1. CASE rows' = rows
  BY <1>1
<1>2. ASSUME NEW v \in Worktrees, CreateInserts(v)
      PROVE  rows'[w].st \in Broken \union {"none"}
  BY <1>2 DEF CreateInserts, BrokenInv
<1>3. ASSUME NEW v, NEW from \in {"creating", "ready", "removing"},
             NEW to \in States \union {"none"}, Move(v, from, to)
      PROVE  rows'[w].st \in Broken \union {"none"}
  BY <1>3, MoveTypes
<1>4. CASE WriteVerdict
  <2>1. CASE rows' = rows
    BY <2>1
  <2>2. CASE verdict # "none" /\ Move(Head(listed).w, Head(listed).st, verdict)
    BY <1>4, <2>2, MoveTypes DEF WriteVerdict, BrokenInv
  <2>3. QED
    BY <1>4, <2>1, <2>2 DEF WriteVerdict
<1>5. CASE DeleteRemoved
  BY <1>5 DEF DeleteRemoved, NoRow
<1>6. \/ rows' = rows \/ WriteVerdict \/ DeleteRemoved
      \/ \E v \in Worktrees :
           \/ CreateInserts(v) \/ Move(v, "creating", "failed")
           \/ Move(v, "creating", "ready") \/ Move(v, "ready", "removing")
           \/ Move(v, "removing", "retained_dirty")
  BY InspectLeaves
  DEF Next, WorktreeNext, Creating, Removing, Reconcile, Unregister,
      InspectStep, Edit, Crash, Dies, CreateBegins, CreateAdds, CreateFails,
      CreateVerifies, CreateFinishes, RemoveReads, RemoveTakes, RemoveChecks,
      RemoveMarks, RemoveRetains, ListRows, SkipBusy, Visit, CountWorktrees,
      DeleteProject, TrustProject, Outsider, vars, worktreeVars
<1>7. {"creating", "ready", "failed", "removing", "retained_dirty"}
        \subseteq States
  BY DEF States
<1>8. QED
  BY <1>1, <1>2, <1>3, <1>4, <1>5, <1>6, <1>7

LEMMA BrokenStep ==
  ASSUME WorktreesInv, [Next]_vars
  PROVE  BrokenInv'
<1> USE DEF WorktreesInv, HoldTypes, BrokenInv
<1>1. CASE Inspect
  BY <1>1, InspectLeaves DEF InspectStep, makeVars, recVars
<1>2. CASE Crash
  BY <1>2 DEF Crash, Dies
<1>3. CASE Edit \/ UNCHANGED vars
  BY <1>3 DEF Edit, vars, worktreeVars, makeVars, recVars
<1>4. CASE WorktreeNext
  <2> USE DEF makeVars, recVars
  <2>1. ASSUME NEW w \in Worktrees, Creating(w)
        PROVE  BrokenInv'
    <3> USE <2>1 DEF CreateEnds
    <3>1. CASE CreateBegins(w)
      BY <3>1 DEF CreateBegins, NoRow
    <3>2. CASE CreateInserts(w)
      BY <3>2 DEF CreateInserts
    <3>3. CASE CreateAdds(w)
      BY <3>3 DEF CreateAdds
    <3>4. CASE CreateFails(w)
      BY <3>4 DEF CreateFails, Move
    <3>5. CASE CreateVerifies(w)
      BY <3>5 DEF CreateVerifies
    <3>6. CASE CreateFinishes(w)
      BY <3>6 DEF CreateFinishes, Move
    <3>7. QED
      BY <3>1, <3>2, <3>3, <3>4, <3>5, <3>6 DEF Creating
  <2>2. ASSUME NEW w \in Worktrees, Removing(w)
        PROVE  BrokenInv'
    BY <2>2
    DEF Removing, RemoveReads, RemoveTakes, RemoveChecks, RemoveMarks,
        RemoveRetains, Move
  <2>3. CASE ListRows \/ SkipBusy
    BY <2>3 DEF ListRows, SkipBusy, VisitNext
  <2>4. CASE Visit
    <3>1. Head(listed).st \in Broken => verdict' \in Broken \union {"none"}
      BY <2>4 DEF Visit, Judge, Unanswered, Broken
    <3>2. QED
      BY <2>4, <3>1 DEF Visit
  <2>5. CASE WriteVerdict
    <3>1. \A w \in Worktrees : making[w] # "insert"
      BY <2>5 DEF WriteVerdict, HoldInv, Creations
    <3>2. QED
      BY <2>5, <3>1 DEF WriteVerdict, VisitNext
  <2>6. CASE Unregister \/ TrustProject \/ Outsider
    BY <2>6
    DEF Unregister, CountWorktrees, DeleteRemoved, DeleteProject, TrustProject,
        Outsider, NoRow
  <2>7. QED
    BY <1>4, <2>1, <2>2, <2>3, <2>4, <2>5, <2>6 DEF WorktreeNext, Reconcile
<1>5. QED
  BY <1>1, <1>2, <1>3, <1>4 DEF Next

-------------------------------------------------------------------------------
LEMMA WorktreesInit == Init => WorktreesInv
<1> SUFFICES ASSUME Init PROVE WorktreesInv
  OBVIOUS
<1> USE DEF Init, WorktreeInit, WorktreeStart, InspectInit
<1>1. Idle \in Inspections /\ ~Inspecting
  BY DEF Idle, Inspections, Inspecting
<1>2. HoldTypes
  <2>1. rows \in [Worktrees -> [st: States \union {"none"}, base: Nat]]
    BY DEF States
  <2>2. making \in [Worktrees -> {"idle", "done"}]
    OBVIOUS
  <2>3. QED
    BY <1>1, <2>1, <2>2 DEF HoldTypes, States
<1>3. HoldInv
  BY <1>1 DEF HoldInv, Creations, Removals, NoRow
<1>4. BrokenInv
  BY DEF BrokenInv, NoRow
<1>5. QED
  BY <1>2, <1>3, <1>4 DEF WorktreesInv

\* Exclusion and what makes it inductive hold in every reachable state.
LEMMA WorktreesInvariance == Spec => []WorktreesInv
<1>1. WorktreesInv /\ [Next]_vars => WorktreesInv'
  BY TypesStep, HoldStep, BrokenStep DEF WorktreesInv
<1>2. QED
  BY <1>1, WorktreesInit, PTL DEF Spec

\* One command at a time holds the project of the desktop's worktrees, for any
\* number of worktrees and inspections, and the entry says so
\* (worktree_projects in src-tauri/src/main.rs).
THEOREM ProjectIsExclusive == Spec => []OneHolder
<1>1. HoldInv => OneHolder
  <2> SUFFICES ASSUME HoldInv PROVE OneHolder
    OBVIOUS
  <2> DEFINE all == Holders \union (IF Inspecting THEN {<<"inspect">>} ELSE {})
  <2> USE DEF HoldInv
  <2>1. Holders = {<<"create", w>> : w \in Creations}
                    \union {<<"remove", w>> : w \in Removals}
                    \union (IF rec = "write" THEN {<<"reconcile">>} ELSE {})
    BY DEF Holders, Creations, Removals
  <2>2. all = {} \/ (busy /\ \E h : all = {h})
    <3>1. CASE Creations # {}
      <4>1. PICK w \in Creations : TRUE
        BY <3>1
      <4>2. Creations = {w}
        BY <4>1
      <4>3. all = {<<"create", w>>} /\ busy
        BY <2>1, <3>1, <4>2
      <4>4. QED
        BY <4>3
    <3>2. CASE Creations = {} /\ Removals # {}
      <4>1. PICK w \in Removals : TRUE
        BY <3>2
      <4>2. Removals = {w}
        BY <4>1
      <4>3. all = {<<"remove", w>>} /\ busy
        BY <2>1, <3>2, <4>2
      <4>4. QED
        BY <4>3
    <3>3. CASE Creations = {} /\ Removals = {}
      BY <2>1, <3>3
    <3>4. QED
      BY <3>1, <3>2, <3>3
  <2>3. Cardinality(all) <= 1
    <3>1. CASE all = {}
      <4>1. Cardinality(all) = 0
        BY <3>1, FS_EmptySet
      <4>2. QED
        BY <4>1
    <3>2. ASSUME NEW h, all = {h}
          PROVE  Cardinality(all) <= 1
      <4>1. Cardinality(all) = 1
        BY <3>2, FS_Singleton
      <4>2. QED
        BY <4>1
    <3>3. QED
      BY <2>2, <3>1, <3>2
  <2>4. QED
    BY <2>2, <2>3 DEF OneHolder, Inspecting
<1>2. QED
  BY <1>1, WorktreesInvariance, PTL DEF WorktreesInv

\* A worktree that was found failed, missing, changed or removed is never made
\* usable again, however old the rows a command of the desktop works from
\* (transition_worktree and reconcile_project_worktrees).
THEOREM BrokenForGood == Spec => BrokenStaysBroken
<1>1. WorktreesInv /\ [Next]_vars =>
        [\A w \in Worktrees : rows[w].st \in Broken =>
           rows'[w].st \in Broken \union {"none"}]_worktreeVars
  BY BrokenStays
<1>2. QED
  BY <1>1, WorktreesInvariance, PTL DEF Spec, BrokenStaysBroken

-------------------------------------------------------------------------------
\* What the argument about the disk needs of the types.
DiskTypes ==
  /\ leaf \in [Worktrees -> {"missing", "dir", "other"}]
  /\ meta \in [Worktrees -> BOOLEAN] /\ at \in [Worktrees -> Nat]
  /\ listed \in Seq([w: Worktrees, st: States])
  /\ rec # "idle" => listed # <<>>
  /\ verdict \in Broken \union {"none", "ready"}

BoundTypes == {outside, faults, boots} \subseteq Nat

\* The places of a creation whose row is written.
Made == {"add", "fail", "verify", "inspect", "finish"}

\* A row is there before the directory is and until after it has gone, and while
\* it is its project is: nothing but the creation itself, which holds the
\* project, gets between its row and its `git worktree add`.
RegisteredInv ==
  /\ \A w \in Worktrees :
       /\ rows[w].st # "none" => ~Unregistered
       /\ leaf[w] = "dir" \/ meta[w] => w \in Kept
       /\ making[w] \in Made => rows[w] = [st |-> "creating", base |-> base[w]]
  /\ rec = "write" /\ verdict = "removed" =>
       leaf[Head(listed).w] # "dir" /\ ~meta[Head(listed).w]

\* As long as nobody else was at work, what a command has checked is still so.
UndisturbedInv ==
  outside = 0 =>
    /\ repo = known
    /\ \A w \in Worktrees :
         /\ leaf[w] # "other"
         /\ \/ rows[w].st \in {"ready", "removing", "retained_dirty"}
            \/ making[w] \in {"verify", "inspect", "finish"}
            => Validated(w)
    /\ rec = "write" /\ verdict = "ready" => Validated(Head(listed).w)

\* As long as nothing went wrong at all, a row is in between two states only
\* while its command is at work, which the reconciliation does not meet.
CalmInv ==
  outside + faults + boots = 0 =>
    /\ \A w \in Worktrees :
         /\ rows[w].st \notin Broken \ {"removed"} /\ making[w] # "fail"
         /\ rows[w].st = "creating" => making[w] \in Made
         /\ making[w] = "add" => leaf[w] = "missing"
         /\ rows[w].st = "removing" => removing[w] = "retain"
    /\ \A i \in DOMAIN listed : listed[i].w \in Kept
    /\ rec = "write" =>
         verdict \in {"none", "ready"} \/ Head(listed).st = "removing"

DiskInv == BoundTypes /\ DiskTypes /\ RegisteredInv /\ UndisturbedInv /\ CalmInv

\* The list of rows, and what is left of it after a visit.
LEMMA ListOfRows ==
  ASSUME NEW s \in SetToSeqs(Kept), Kept # {}
  PROVE  s \in Seq(Kept) /\ s # <<>>
<1>1. IsFiniteSet(Kept)
  BY WorktreesAssumption, FS_Subset DEF Kept
<1>2. Cardinality(Kept) \in Nat /\ Cardinality(Kept) # 0
  BY <1>1, FS_CardinalityType, FS_EmptySet
<1>3. s \in [1..Cardinality(Kept) -> Kept]
  BY DEF SetToSeqs
<1>4. QED
  BY <1>2, <1>3

LEMMA ListGoesOn ==
  ASSUME DiskTypes, rec # "idle", VisitNext
  PROVE  /\ listed' \in Seq([w: Worktrees, st: States])
         /\ rec' # "idle" => listed' # <<>>
         /\ \A i \in DOMAIN listed' :
              i + 1 \in DOMAIN listed /\ listed'[i] = listed[i + 1]
<1> DEFINE S == [w: Worktrees, st: States]
<1>1. listed \in Seq(S) /\ listed # <<>>
  BY DEF DiskTypes
<1>2. listed' = Tail(listed) /\ (rec' # "idle" => Len(listed) # 1)
  BY DEF VisitNext
<1> HIDE DEF S
<1>3. /\ listed' \in Seq(S) /\ Len(listed) \in Nat \ {0}
      /\ Len(listed') = Len(listed) - 1
      /\ \A i \in 1..Len(listed') : listed'[i] = listed[i + 1]
  BY <1>1, <1>2, HeadTailProperties, LenProperties, EmptySeq
<1>4. DOMAIN listed' = 1..Len(listed') /\ DOMAIN listed = 1..Len(listed)
  BY <1>1, <1>3, LenProperties
<1>5. \A i \in 1..Len(listed') : i + 1 \in 1..Len(listed)
  BY <1>3
<1>6. rec' # "idle" => listed' # <<>>
  <2>1. listed' = <<>> => Len(listed') = 0
    OBVIOUS
  <2>2. rec' # "idle" => Len(listed') # 0
    BY <1>2, <1>3
  <2>3. QED
    BY <2>1, <2>2
<1>7. QED
  BY <1>3, <1>4, <1>5, <1>6 DEF S

LEMMA FirstListed ==
  ASSUME DiskTypes, rec # "idle"
  PROVE  /\ 1 \in DOMAIN listed /\ Head(listed) = listed[1]
         /\ Head(listed) \in [w: Worktrees, st: States]
<1> DEFINE S == [w: Worktrees, st: States]
<1>1. listed \in Seq(S) /\ listed # <<>>
  BY DEF DiskTypes
<1> HIDE DEF S
<1>2. Len(listed) \in Nat \ {0} /\ DOMAIN listed = 1..Len(listed)
  BY <1>1, LenProperties, EmptySeq
<1>3. Head(listed) \in S /\ Head(listed) = listed[1]
  BY <1>1, HeadTailProperties
<1>4. QED
  BY <1>2, <1>3 DEF S

\* What is counted is a number: a step counts one of the three, or none.
LEMMA BoundsMove ==
  ASSUME [Next]_vars
  PROVE  /\ outside' \in {outside, outside + 1}
         /\ faults' \in {faults, faults + 1}
         /\ boots' \in {boots, boots + 1}
<1> USE DEF bounds, Fault
<1>1. CASE Inspect
  BY <1>1, InspectLeaves DEF InspectStep
<1>2. CASE Crash \/ Edit \/ UNCHANGED vars
  BY <1>2 DEF Crash, Dies, Edit, vars, worktreeVars
<1>3. ASSUME NEW w \in Worktrees, Creating(w)
      PROVE  /\ outside' \in {outside, outside + 1}
             /\ faults' \in {faults, faults + 1}
             /\ boots' \in {boots, boots + 1}
  BY <1>3
  DEF Creating, CreateBegins, CreateInserts, CreateAdds, CreateFails,
      CreateVerifies, CreateFinishes
<1>4. ASSUME NEW w \in Worktrees, Removing(w)
      PROVE  /\ outside' \in {outside, outside + 1}
             /\ faults' \in {faults, faults + 1}
             /\ boots' \in {boots, boots + 1}
  BY <1>4
  DEF Removing, RemoveReads, RemoveTakes, RemoveChecks, RemoveMarks,
      RemoveRetains
<1>5. CASE Reconcile \/ Unregister \/ TrustProject \/ Outsider
  BY <1>5
  DEF Reconcile, ListRows, SkipBusy, Visit, WriteVerdict, Unregister,
      CountWorktrees, DeleteRemoved, DeleteProject, TrustProject, Outsider
<1>6. QED
  BY <1>1, <1>2, <1>3, <1>4, <1>5 DEF Next, WorktreeNext

LEMMA BoundsStep ==
  ASSUME BoundTypes, [Next]_vars
  PROVE  BoundTypes'
BY BoundsMove DEF BoundTypes

\* What `git worktree add` has done changes its own directory and record only.
LEMMA AddMoves ==
  ASSUME DiskTypes, HoldTypes, NEW w \in Worktrees,
         Added(w) \/ PartlyAdded(w)
  PROVE  /\ leaf' \in [Worktrees -> {"missing", "dir", "other"}]
         /\ meta' \in [Worktrees -> BOOLEAN] /\ at' \in [Worktrees -> Nat]
         /\ \A v \in Worktrees \ {w} :
              leaf'[v] = leaf[v] /\ meta'[v] = meta[v] /\ at'[v] = at[v]
         /\ leaf'[w] \in {leaf[w], "dir"}
<1> USE DEF DiskTypes, HoldTypes
<1>1. CASE Added(w)
  BY <1>1 DEF Added
<1>2. CASE PartlyAdded(w)
  <2>1. at' = at
    BY <1>2 DEF PartlyAdded
  <2>2. CASE UNCHANGED <<leaf, meta>>
    BY <2>1, <2>2
  <2>3. CASE leaf' = [leaf EXCEPT ![w] = "dir"] /\ UNCHANGED meta
    BY <2>1, <2>3
  <2>4. CASE leaf' = [leaf EXCEPT ![w] = "dir"] /\ meta' = [meta EXCEPT ![w] = TRUE]
    BY <2>1, <2>4
  <2>5. QED
    BY <1>2, <2>2, <2>3, <2>4 DEF PartlyAdded
<1>3. QED
  BY <1>1, <1>2

\* Others make nothing that is on git's list, and leave the application alone.
LEMMA OutsiderMoves ==
  ASSUME DiskTypes, BoundTypes, Outsider
  PROVE  /\ UNCHANGED <<projectVars, rows, busy, makeVars, removing, recVars>>
         /\ leaf' \in [Worktrees -> {"missing", "dir", "other"}]
         /\ meta' \in [Worktrees -> BOOLEAN] /\ at' \in [Worktrees -> Nat]
         /\ \A v \in Worktrees :
              (leaf'[v] = "dir" => leaf[v] = "dir") /\ (meta'[v] => meta[v])
         /\ outside' # 0
<1> USE DEF DiskTypes
<1>1. UNCHANGED <<projectVars, rows, busy, makeVars, removing, recVars>>
  BY DEF Outsider
<1>2. outside' # 0
  BY DEF Outsider, BoundTypes
<1>3. CASE CommitOutside /\ UNCHANGED <<repo, leaf, meta>>
  <2>1. at' \in [Worktrees -> Nat]
    <3>1. CASE at' = at
      BY <3>1
    <3>2. ASSUME NEW w \in Worktrees, at' = [at EXCEPT ![w] = @ + 1]
          PROVE  at' \in [Worktrees -> Nat]
      BY <3>2
    <3>3. QED
      BY <1>3, <3>1, <3>2 DEF CommitOutside
  <2>2. QED
    BY <1>1, <1>2, <1>3, <2>1
<1>4. CASE meta' = [w \in Worktrees |-> FALSE] /\ UNCHANGED <<leaf, at>>
  BY <1>1, <1>2, <1>4
<1>5. CASE \E w \in Worktrees, l \in {"missing", "other"} :
             leaf' = [leaf EXCEPT ![w] = l] /\ UNCHANGED <<meta, at>>
  BY <1>1, <1>2, <1>5
<1>6. CASE \E w \in Worktrees :
             meta' = [meta EXCEPT ![w] = FALSE] /\ UNCHANGED <<leaf, at>>
  BY <1>1, <1>2, <1>6
<1>7. \/ CommitOutside /\ UNCHANGED <<repo, leaf, meta>>
      \/ meta' = [w \in Worktrees |-> FALSE] /\ UNCHANGED <<leaf, at>>
      \/ \E w \in Worktrees, l \in {"missing", "other"} :
           leaf' = [leaf EXCEPT ![w] = l] /\ UNCHANGED <<meta, at>>
      \/ \E w \in Worktrees :
           meta' = [meta EXCEPT ![w] = FALSE] /\ UNCHANGED <<leaf, at>>
  BY DEF Outsider
<1>8. QED
  BY <1>3, <1>4, <1>5, <1>6, <1>7

LEMMA DiskTypesStep ==
  ASSUME BoundTypes, DiskTypes, HoldTypes, [Next]_vars
  PROVE  DiskTypes'
<1> USE DEF DiskTypes, HoldTypes
<1>1. CASE Inspect
  BY <1>1, InspectLeaves DEF InspectStep, diskVars, recVars
<1>2. CASE Crash
  <2>1. /\ \/ UNCHANGED <<leaf, meta, at>>
           \/ \E w \in Worktrees : Added(w) \/ PartlyAdded(w)
        /\ rec' = "idle" /\ listed' = <<>> /\ verdict' = "none"
    BY <1>2 DEF Crash, Dies
  <2>2. QED
    BY <2>1, AddMoves
<1>3. CASE WorktreeNext /\ UNCHANGED inspectVars
  <2> USE DEF diskVars, recVars
  <2>1. ASSUME NEW w \in Worktrees, Creating(w)
        PROVE  DiskTypes'
    <3>1. CASE CreateBegins(w)
      BY <3>1 DEF CreateBegins
    <3>2. CASE CreateInserts(w)
      BY <3>2 DEF CreateInserts
    <3>3. CASE CreateAdds(w)
      BY <3>3, AddMoves DEF CreateAdds
    <3>4. CASE CreateFails(w) \/ CreateVerifies(w) \/ CreateFinishes(w)
      BY <3>4 DEF CreateFails, CreateVerifies, CreateFinishes
    <3>5. QED
      BY <2>1, <3>1, <3>2, <3>3, <3>4 DEF Creating
  <2>2. ASSUME NEW w \in Worktrees, Removing(w)
        PROVE  DiskTypes'
    BY <2>2
    DEF Removing, RemoveReads, RemoveTakes, RemoveChecks, RemoveMarks,
        RemoveRetains
  <2>3. CASE ListRows
    <3>1. PICK s \in SetToSeqs(Kept) :
            listed' = [i \in DOMAIN s |-> [w |-> s[i], st |-> rows[s[i]].st]]
      BY <2>3 DEF ListRows
    <3>2. s \in Seq(Kept) /\ s # <<>>
      BY <2>3, <3>1, ListOfRows DEF ListRows
    <3>3. \A w \in Kept : [w |-> w, st |-> rows[w].st] \in [w: Worktrees, st: States]
      BY DEF Kept
    <3>4. DOMAIN s = 1..Len(s) /\ Len(s) \in Nat /\ \A i \in DOMAIN s : s[i] \in Kept
      BY <3>2
    <3>5. /\ listed' \in [1..Len(s) -> [w: Worktrees, st: States]]
          /\ Len(s) # 0
      BY <3>1, <3>2, <3>3, <3>4
    <3>6. listed' \in Seq([w: Worktrees, st: States]) /\ listed' # <<>>
      <4> DEFINE S == [w: Worktrees, st: States]
      <4>1. listed' \in [1..Len(s) -> S]
        BY <3>5
      <4> HIDE DEF S
      <4>2. listed' \in Seq(S)
        <5>1. Seq(S) = UNION {[1..n -> S] : n \in Nat}
          BY SeqDef
        <5>2. QED
          BY <3>4, <4>1, <5>1
      <4>3. 1 \in DOMAIN listed'
        BY <3>4, <3>5, <4>1
      <4>4. listed' # <<>>
        BY <4>2, <4>3, LenProperties, EmptySeq
      <4>5. QED
        BY <4>2, <4>4 DEF S
    <3>7. QED
      BY <2>3, <3>6 DEF ListRows
  <2>4. CASE SkipBusy \/ WriteVerdict
    BY <2>4, ListGoesOn DEF SkipBusy, WriteVerdict
  <2>5. CASE Visit
    BY <2>5 DEF Visit, Judge, Unanswered, Broken
  <2>6. CASE Unregister \/ TrustProject
    BY <2>6
    DEF Unregister, CountWorktrees, DeleteRemoved, DeleteProject, TrustProject
  <2>7. CASE Outsider
    BY <2>7, OutsiderMoves
  <2>8. QED
    BY <1>3, <2>1, <2>2, <2>3, <2>4, <2>5, <2>6, <2>7
    DEF WorktreeNext, Reconcile
<1>4. CASE Edit \/ UNCHANGED vars
  BY <1>4 DEF Edit, vars, worktreeVars, diskVars, recVars
<1>5. QED
  BY <1>1, <1>2, <1>3, <1>4 DEF Next

\* Every step leaves the rows ahead of the disk.
LEMMA RegisteredStep ==
  ASSUME BoundTypes, DiskTypes, RegisteredInv, WorktreesInv, [Next]_vars
  PROVE  RegisteredInv'
<1> USE DEF DiskTypes, RegisteredInv, WorktreesInv, HoldTypes, Kept,
            Unregistered, Made
<1>1. CASE Inspect
  BY <1>1, InspectLeaves
  DEF InspectStep, projectVars, diskVars, makeVars, recVars
<1>2. CASE Crash
  <2>1. /\ UNCHANGED <<project, rows>> /\ rec' = "idle"
        /\ making' = [w \in Worktrees |-> IF rows[w] = NoRow THEN "idle" ELSE "done"]
    BY <1>2 DEF Crash, Dies, projectVars
  <2>2. CASE UNCHANGED <<leaf, meta, at>>
    BY <2>1, <2>2
  <2>3. ASSUME NEW w \in Worktrees, making[w] = "add",
               Added(w) \/ PartlyAdded(w)
        PROVE  RegisteredInv'
    <3>1. rows[w].st = "creating"
      BY <2>3
    <3>2. \A v \in Worktrees \ {w} : leaf'[v] = leaf[v] /\ meta'[v] = meta[v]
      BY <2>3, AddMoves
    <3>3. QED
      BY <2>1, <3>1, <3>2
  <2>4. QED
    BY <1>2, <2>2, <2>3 DEF Crash, Dies
<1>3. CASE WorktreeNext /\ UNCHANGED inspectVars
  <2> USE DEF projectVars, diskVars, makeVars, recVars
  <2>1. ASSUME NEW w \in Worktrees, Creating(w)
        PROVE  RegisteredInv'
    <3> USE DEF CreateEnds
    <3>1. CASE CreateBegins(w)
      BY <3>1 DEF CreateBegins
    <3>2. CASE CreateInserts(w)
      <4>1. rows[w].st = "none" /\ rec # "write"
        BY <3>2 DEF CreateInserts, BrokenInv, HoldInv, Creations
      <4>2. CASE ~Unregistered /\ rows' = [rows EXCEPT ![w] =
                                          [st |-> "creating", base |-> base[w]]]
                 /\ making' = [making EXCEPT ![w] = "add"]
        BY <3>2, <4>1, <4>2 DEF CreateInserts
      <4>3. CASE CreateEnds(w) /\ UNCHANGED rows
        BY <3>2, <4>1, <4>3 DEF CreateInserts
      <4>4. QED
        BY <3>2, <4>2, <4>3 DEF CreateInserts
    <3>3. CASE CreateAdds(w)
      <4>1. rec # "write"
        BY <3>3 DEF CreateAdds, HoldInv, Creations
      <4>2. QED
        BY <3>3, <4>1 DEF CreateAdds, Added, PartlyAdded
    <3>4. CASE CreateFails(w)
      BY <3>4 DEF CreateFails, Move
    <3>5. CASE CreateVerifies(w)
      BY <3>5 DEF CreateVerifies
    <3>6. CASE CreateFinishes(w)
      BY <3>6 DEF CreateFinishes, Move
    <3>7. QED
      BY <2>1, <3>1, <3>2, <3>3, <3>4, <3>5, <3>6 DEF Creating
  <2>2. ASSUME NEW w \in Worktrees, Removing(w)
        PROVE  RegisteredInv'
    <3>1. CASE RemoveReads(w) \/ RemoveTakes(w) \/ RemoveChecks(w)
      BY <3>1 DEF RemoveReads, RemoveTakes, RemoveChecks
    <3>2. CASE RemoveMarks(w)
      BY <3>2 DEF RemoveMarks, Move
    <3>3. CASE RemoveRetains(w)
      BY <3>3 DEF RemoveRetains, Move
    <3>4. QED
      BY <2>2, <3>1, <3>2, <3>3 DEF Removing
  <2>3. CASE ListRows \/ SkipBusy
    BY <2>3 DEF ListRows, SkipBusy, VisitNext
  <2>4. CASE Visit
    BY <2>4 DEF Visit, Judge, Unanswered
  <2>5. CASE WriteVerdict
    <3>1. \A w \in Worktrees : making[w] \notin Made
      BY <2>5 DEF WriteVerdict, HoldInv, Creations
    <3>2. Head(listed) \in [w: Worktrees, st: States]
      BY <2>5, FirstListed DEF WriteVerdict
    <3>3. CASE rows' = rows
      BY <2>5, <3>1, <3>3 DEF WriteVerdict, VisitNext
    <3>4. CASE verdict # "none" /\ Move(Head(listed).w, Head(listed).st, verdict)
      <4>1. \A v \in Worktrees :
              rows'[v] = rows[v] \/ (v = Head(listed).w /\ rows[v].st \in States
                                     /\ rows'[v].st = verdict)
        BY <3>2, <3>4 DEF Move
      <4>2. "none" \notin States
        BY DEF States
      <4>3. QED
        BY <2>5, <3>1, <3>4, <4>1, <4>2 DEF WriteVerdict, VisitNext
    <3>5. QED
      BY <2>5, <3>3, <3>4 DEF WriteVerdict
  <2>6. CASE Unregister
    BY <2>6
    DEF Unregister, CountWorktrees, DeleteRemoved, DeleteProject, NoRow
  <2>7. CASE TrustProject
    BY <2>7 DEF TrustProject
  <2>8. CASE Outsider
    <3>1. UNCHANGED <<project, rows, making, base, rec, listed, verdict>>
      BY <2>8 DEF Outsider
    <3>2. \A w \in Worktrees :
            (leaf'[w] = "dir" => leaf[w] = "dir") /\ (meta'[w] => meta[w])
      BY <2>8, OutsiderMoves
    <3>3. rec = "write" => Head(listed).w \in Worktrees
      BY FirstListed
    <3>4. /\ rec = "write" /\ verdict = "removed" =>
               leaf'[Head(listed).w] # "dir" /\ ~meta'[Head(listed).w]
      BY <3>2, <3>3
    <3>5. \A w \in Worktrees : leaf'[w] = "dir" \/ meta'[w] => w \in Kept
      BY <3>2
    <3>6. QED
      BY <3>1, <3>4, <3>5
  <2>9. QED
    BY <1>3, <2>1, <2>2, <2>3, <2>4, <2>5, <2>6, <2>7, <2>8
    DEF WorktreeNext, Reconcile
<1>4. CASE Edit \/ UNCHANGED vars
  BY <1>4
  DEF Edit, vars, worktreeVars, projectVars, diskVars, makeVars, recVars
<1>5. QED
  BY <1>1, <1>2, <1>3, <1>4 DEF Next

\* Every step leaves what was checked as it is, while nobody else is at work.
LEMMA UndisturbedStep ==
  ASSUME DiskInv, WorktreesInv, [Next]_vars
  PROVE  UndisturbedInv'
<1>a. BoundTypes /\ DiskTypes /\ RegisteredInv /\ UndisturbedInv
  BY DEF DiskInv
<1> SUFFICES ASSUME outside' = 0
             PROVE  UndisturbedInv'
  BY DEF UndisturbedInv
<1> USE DEF WorktreesInv, HoldTypes, Validated, Listed, Inspects
<1>1. CASE Inspect
  BY <1>1, <1>a, InspectLeaves
  DEF InspectStep, projectVars, diskVars, makeVars, recVars, bounds,
      UndisturbedInv
<1>2. CASE Crash
  <2>1. /\ UNCHANGED <<rows, repo, known, outside>> /\ rec' = "idle"
        /\ making' = [w \in Worktrees |-> IF rows[w] = NoRow THEN "idle" ELSE "done"]
    BY <1>2 DEF Crash, Dies, projectVars
  <2>2. CASE UNCHANGED <<leaf, meta, at>>
    BY <1>a, <2>1, <2>2 DEF UndisturbedInv
  <2>3. ASSUME NEW w \in Worktrees, making[w] = "add",
               Added(w) \/ PartlyAdded(w)
        PROVE  UndisturbedInv'
    <3>1. rows[w].st = "creating"
      BY <1>a, <2>3 DEF RegisteredInv, Made
    <3>2. /\ \A v \in Worktrees \ {w} :
               leaf'[v] = leaf[v] /\ meta'[v] = meta[v] /\ at'[v] = at[v]
          /\ leaf'[w] \in {leaf[w], "dir"}
      BY <1>a, <2>3, AddMoves
    <3>3. QED
      BY <1>a, <2>1, <3>1, <3>2 DEF UndisturbedInv
  <2>4. QED
    BY <1>2, <2>2, <2>3 DEF Crash, Dies
<1>3. CASE WorktreeNext /\ UNCHANGED inspectVars
  <2> USE DEF projectVars, diskVars, makeVars, recVars, bounds
  <2>1. ASSUME NEW w \in Worktrees, Creating(w)
        PROVE  UndisturbedInv'
    <3>a. outside = 0 /\ UNCHANGED <<repo, known, rec, listed, verdict>>
      BY <2>1
      DEF Creating, CreateBegins, CreateInserts, CreateAdds, CreateFails,
          CreateVerifies, CreateFinishes
    <3>b. /\ repo = known
          /\ \A v \in Worktrees :
               /\ leaf[v] # "other"
               /\ \/ rows[v].st \in {"ready", "removing", "retained_dirty"}
                  \/ making[v] \in {"verify", "inspect", "finish"}
                  => Validated(v)
          /\ rec = "write" /\ verdict = "ready" => Validated(Head(listed).w)
      BY <1>a, <3>a DEF UndisturbedInv
    <3>c. making[w] \notin {"idle", "done"} => rec # "write"
      BY DEF HoldInv, Creations
    <3> USE DEF CreateEnds
    <3>1. CASE CreateBegins(w)
      BY <3>1, <3>a, <3>b DEF CreateBegins, UndisturbedInv
    <3>2. CASE CreateInserts(w)
      <4>1. /\ UNCHANGED <<leaf, meta, at>> /\ rec # "write"
            /\ rows[w].st \notin {"ready", "removing", "retained_dirty"}
        BY <3>2, <3>c DEF CreateInserts, BrokenInv
      <4>2. \A v \in Worktrees \ {w} : rows'[v] = rows[v] /\ making'[v] = making[v]
        BY <3>2 DEF CreateInserts
      <4>3. /\ rows'[w].st \notin {"ready", "removing", "retained_dirty"}
            /\ making'[w] \in {"add", "done"}
        BY <3>2, <4>1 DEF CreateInserts
      <4>4. QED
        BY <3>a, <3>b, <4>1, <4>2, <4>3 DEF UndisturbedInv
    <3>3. CASE CreateAdds(w)
      <4>1. /\ rows' = rows /\ rec # "write"
            /\ rows[w].st = "creating" /\ rows[w].base = base[w]
        BY <3>3, <3>c, <1>a DEF CreateAdds, RegisteredInv, Made
      <4>2. \A v \in Worktrees \ {w} : making'[v] = making[v]
        BY <3>3 DEF CreateAdds
      <4>3. CASE Added(w)
        <5>1. /\ leaf'[w] = "dir" /\ meta'[w] /\ at'[w] = rows[w].base
              /\ \A v \in Worktrees \ {w} :
                   leaf'[v] = leaf[v] /\ meta'[v] = meta[v] /\ at'[v] = at[v]
          BY <1>a, <4>1, <4>3 DEF Added, DiskTypes
        <5>2. QED
          BY <3>a, <3>b, <4>1, <4>2, <5>1 DEF UndisturbedInv
      <4>4. CASE making'[w] = "fail" /\ (PartlyAdded(w) \/ UNCHANGED <<leaf, meta, at>>)
        <5>1. /\ leaf'[w] # "other"
              /\ \A v \in Worktrees \ {w} :
                   leaf'[v] = leaf[v] /\ meta'[v] = meta[v] /\ at'[v] = at[v]
          BY <1>a, <3>b, <4>4, AddMoves
        <5>2. QED
          BY <3>a, <3>b, <4>1, <4>2, <4>4, <5>1 DEF UndisturbedInv
      <4>5. QED
        BY <3>3, <4>3, <4>4 DEF CreateAdds
    <3>4. CASE CreateFails(w)
      <4>1. /\ UNCHANGED <<leaf, meta, at>> /\ making' = [making EXCEPT ![w] = "done"]
            /\ rows' = rows \/ Move(w, "creating", "failed")
        BY <3>4 DEF CreateFails
      <4>2. /\ \A v \in Worktrees \ {w} :
                   rows'[v] = rows[v] /\ making'[v] = making[v]
            /\ rows'[w] = rows[w] \/ rows'[w].st = "failed"
            /\ making'[w] = "done"
        BY <4>1 DEF Move
      <4>3. rec # "write"
        BY <3>4, <3>c DEF CreateFails
      <4>4. QED
        BY <3>a, <3>b, <4>1, <4>2, <4>3 DEF UndisturbedInv
    <3>5. CASE CreateVerifies(w)
      <4>1. /\ UNCHANGED <<rows, leaf, meta, at>> /\ making[w] \in {"verify", "inspect"}
            /\ \A v \in Worktrees \ {w} : making'[v] = making[v]
        BY <3>5 DEF CreateVerifies
      <4>2. QED
        BY <3>a, <3>b, <4>1 DEF UndisturbedInv
    <3>6. CASE CreateFinishes(w)
      <4>1. /\ UNCHANGED <<leaf, meta, at>> /\ making[w] = "finish"
            /\ making' = [making EXCEPT ![w] = "done"]
            /\ rows' = rows \/ Move(w, "creating", "ready")
        BY <3>6 DEF CreateFinishes
      <4>2. /\ \A v \in Worktrees \ {w} :
                   rows'[v] = rows[v] /\ making'[v] = making[v]
            /\ rows'[w].base = rows[w].base /\ making'[w] = "done"
        BY <4>1 DEF Move
      <4>3. Validated(w) /\ rec # "write"
        BY <3>b, <3>c, <4>1
      <4>4. QED
        BY <3>a, <3>b, <4>1, <4>2, <4>3 DEF UndisturbedInv
    <3>7. QED
      BY <2>1, <3>1, <3>2, <3>3, <3>4, <3>5, <3>6 DEF Creating
  <2>2. ASSUME NEW w \in Worktrees, Removing(w)
        PROVE  UndisturbedInv'
    <3>a. /\ outside = 0
          /\ UNCHANGED <<repo, known, leaf, meta, at, making, rec, listed, verdict>>
      BY <2>2
      DEF Removing, RemoveReads, RemoveTakes, RemoveChecks, RemoveMarks,
          RemoveRetains
    <3>1. \/ rows' = rows \/ Move(w, "ready", "removing")
          \/ Move(w, "removing", "retained_dirty")
      BY <2>2
      DEF Removing, RemoveReads, RemoveTakes, RemoveChecks, RemoveMarks,
          RemoveRetains
    <3>2. \A v \in Worktrees :
            \/ rows'[v] = rows[v]
            \/ rows[v].st \in {"ready", "removing"} /\ rows'[v].base = rows[v].base
      BY <3>1 DEF Move
    <3>3. rec = "write" => Head(listed).w \in Worktrees
      BY <1>a, FirstListed
    <3>4. QED
      BY <1>a, <3>a, <3>2, <3>3 DEF UndisturbedInv
  <2>3. CASE ListRows \/ SkipBusy
    BY <1>a, <2>3 DEF ListRows, SkipBusy, VisitNext, UndisturbedInv
  <2>4. CASE Visit
    <3>1. verdict' = "ready" => Validated(Head(listed).w)
      BY <2>4 DEF Visit, Judge, Unanswered
    <3>2. QED
      BY <1>a, <2>4, <3>1 DEF Visit, UndisturbedInv
  <2>5. CASE WriteVerdict
    <3>1. UNCHANGED <<repo, known, leaf, meta, at, making, outside>> /\ rec' # "write"
      BY <2>5 DEF WriteVerdict, VisitNext
    <3>2. Head(listed).w \in Worktrees
      BY <1>a, <2>5, FirstListed DEF WriteVerdict
    <3>3. /\ verdict \notin {"removing", "retained_dirty"}
          /\ verdict = "ready" => Validated(Head(listed).w)
      BY <1>a, <2>5, <3>1 DEF WriteVerdict, DiskTypes, Broken, UndisturbedInv
    <3>4. \A v \in Worktrees :
            \/ rows'[v] = rows[v]
            \/ /\ v = Head(listed).w /\ rows'[v].st = verdict
               /\ rows'[v].base = rows[v].base
      BY <2>5, <3>2 DEF WriteVerdict, Move
    <3>5. QED
      BY <1>a, <3>1, <3>3, <3>4 DEF UndisturbedInv
  <2>6. CASE Unregister
    <3>1. UNCHANGED <<repo, known, leaf, meta, at, making, rec, listed, verdict, outside>>
      BY <2>6 DEF Unregister, CountWorktrees, DeleteRemoved, DeleteProject
    <3>2. \A v \in Worktrees :
            rows'[v] = rows[v] \/ (rows[v].st = "removed" /\ rows'[v].st = "none")
      BY <2>6
      DEF Unregister, CountWorktrees, DeleteRemoved, DeleteProject, NoRow
    <3>3. rec = "write" => Head(listed).w \in Worktrees
      BY <1>a, FirstListed
    <3>4. \A v \in Worktrees : leaf[v] = "dir" => rows'[v] = rows[v]
      BY <1>a, <3>2 DEF RegisteredInv, Kept
    <3>5. QED
      BY <1>a, <3>1, <3>2, <3>3, <3>4 DEF UndisturbedInv
  <2>7. CASE TrustProject
    BY <1>a, <2>7 DEF TrustProject, UndisturbedInv
  <2>8. CASE Outsider
    BY <1>a, <2>8, OutsiderMoves
  <2>9. QED
    BY <1>3, <2>1, <2>2, <2>3, <2>4, <2>5, <2>6, <2>7, <2>8
    DEF WorktreeNext, Reconcile
<1>4. CASE Edit \/ UNCHANGED vars
  BY <1>a, <1>4
  DEF Edit, vars, worktreeVars, projectVars, diskVars, makeVars, recVars,
      bounds, UndisturbedInv
<1>5. QED
  BY <1>1, <1>2, <1>3, <1>4 DEF Next

LEMMA NothingCounted ==
  ASSUME NEW a \in Nat, NEW b \in Nat, NEW c \in Nat, a + b + c = 0
  PROVE  a = 0 /\ b = 0 /\ c = 0
OBVIOUS

\* Nothing has gone wrong after a step only if nothing went wrong in it.
LEMMA StaysCalm ==
  ASSUME BoundTypes, [Next]_vars, (outside + faults + boots)' = 0
  PROVE  /\ outside + faults + boots = 0 /\ outside = 0 /\ outside' = 0
         /\ ~Fault /\ ~Outsider /\ ~Crash
<1>1. outside' \in Nat /\ faults' \in Nat /\ boots' \in Nat
  BY BoundsStep DEF BoundTypes
<1>2. outside' = 0 /\ faults' = 0 /\ boots' = 0
  BY <1>1, NothingCounted
<1>3. outside = 0 /\ faults = 0 /\ boots = 0
  BY <1>2, BoundsMove DEF BoundTypes
<1>4. ~Fault /\ ~Outsider /\ ~Crash
  BY <1>2, <1>3 DEF Fault, Outsider, Crash, Dies
<1>5. QED
  BY <1>2, <1>3, <1>4

\* Every step leaves no row damaged or forgotten while nothing goes wrong.
LEMMA CalmStep ==
  ASSUME DiskInv, WorktreesInv, [Next]_vars
  PROVE  CalmInv'
<1>a. BoundTypes /\ DiskTypes /\ RegisteredInv
  BY DEF DiskInv
<1> SUFFICES ASSUME (outside + faults + boots)' = 0
             PROVE  CalmInv'
  BY DEF CalmInv
<1>b. outside = 0 /\ outside' = 0 /\ ~Fault /\ ~Outsider /\ ~Crash
  BY <1>a, StaysCalm
<1>c. /\ \A w \in Worktrees :
           /\ rows[w].st \notin Broken \ {"removed"} /\ making[w] # "fail"
           /\ rows[w].st = "creating" => making[w] \in Made
           /\ making[w] = "add" => leaf[w] = "missing"
           /\ rows[w].st = "removing" => removing[w] = "retain"
      /\ \A i \in DOMAIN listed : listed[i].w \in Kept
      /\ rec = "write" =>
           verdict \in {"none", "ready"} \/ Head(listed).st = "removing"
  BY <1>a, StaysCalm DEF DiskInv, CalmInv
<1>d. \A w \in Worktrees :
        /\ leaf[w] # "other"
        /\ \/ rows[w].st \in {"ready", "removing", "retained_dirty"}
           \/ making[w] \in {"verify", "inspect", "finish"}
           => Validated(w)
  BY <1>b DEF DiskInv, UndisturbedInv
<1> USE DEF WorktreesInv, HoldTypes
<1>1. CASE Inspect
  BY <1>1, <1>c, InspectLeaves
  DEF InspectStep, diskVars, makeVars, recVars, CalmInv, Kept
<1>2. CASE WorktreeNext /\ UNCHANGED inspectVars
  <2> USE DEF diskVars, makeVars, recVars
  <2>1. ASSUME NEW w \in Worktrees, Creating(w)
        PROVE  CalmInv'
    <3>a. UNCHANGED <<removing, rec, listed, verdict>>
      BY <2>1
      DEF Creating, CreateBegins, CreateInserts, CreateAdds, CreateFails,
          CreateVerifies, CreateFinishes
    <3> USE DEF CreateEnds
    <3>1. CASE CreateBegins(w)
      BY <3>1, <3>a, <1>c DEF CreateBegins, CalmInv, NoRow, Kept
    <3>2. CASE CreateInserts(w)
      <4>1. rows[w].st = "none" /\ leaf' = leaf /\ leaf[w] = "missing"
        BY <3>2, <1>a, <1>d
        DEF CreateInserts, BrokenInv, RegisteredInv, Kept, DiskTypes
      <4>2. \A v \in Worktrees \ {w} : rows'[v] = rows[v] /\ making'[v] = making[v]
        BY <3>2 DEF CreateInserts
      <4>3. \/ rows'[w].st = "creating" /\ making'[w] = "add"
            \/ rows'[w].st = "none" /\ making'[w] = "done"
        BY <3>2, <4>1 DEF CreateInserts
      <4>4. QED
        BY <3>a, <1>c, <4>1, <4>2, <4>3 DEF CalmInv, Broken, Made, Kept
    <3>3. CASE CreateAdds(w)
      <4>1. rows' = rows /\ making[w] = "add" /\ leaf[w] = "missing"
        BY <3>3, <1>c DEF CreateAdds
      <4>2. Added(w) /\ making' = [making EXCEPT ![w] = "verify"]
        BY <3>3, <4>1, <1>b DEF CreateAdds
      <4>3. \A v \in Worktrees \ {w} : leaf'[v] = leaf[v] /\ making'[v] = making[v]
        BY <4>2 DEF Added
      <4>4. making'[w] = "verify"
        BY <4>2
      <4>5. QED
        BY <3>a, <1>c, <4>1, <4>3, <4>4 DEF CalmInv, Made, Kept
    <3>4. CASE CreateFails(w)
      BY <3>4, <1>c DEF CreateFails
    <3>5. CASE CreateVerifies(w)
      <4>1. /\ UNCHANGED <<rows, leaf>> /\ Validated(w)
            /\ making[w] \in {"verify", "inspect"}
        BY <3>5, <1>d DEF CreateVerifies
      <4>2. making'[w] \in {"inspect", "finish"}
            /\ \A v \in Worktrees \ {w} : making'[v] = making[v]
        BY <3>5, <4>1, <1>b DEF CreateVerifies, Validated, Listed
      <4>3. QED
        BY <3>a, <1>c, <4>1, <4>2 DEF CalmInv, Made, Kept
    <3>6. CASE CreateFinishes(w)
      <4>1. /\ leaf' = leaf /\ making' = [making EXCEPT ![w] = "done"]
            /\ Move(w, "creating", "ready") /\ making[w] = "finish"
        BY <3>6, <1>b DEF CreateFinishes
      <4>2. rows[w].st = "creating"
        BY <4>1, <1>a DEF RegisteredInv, Made
      <4>3. /\ \A v \in Worktrees \ {w} :
                 rows'[v] = rows[v] /\ making'[v] = making[v]
            /\ rows'[w].st = "ready" /\ making'[w] = "done"
        BY <4>1, <4>2 DEF Move
      <4>4. QED
        BY <3>a, <1>c, <4>1, <4>3 DEF CalmInv, Broken, Kept
    <3>7. QED
      BY <2>1, <3>1, <3>2, <3>3, <3>4, <3>5, <3>6 DEF Creating
  <2>2. ASSUME NEW w \in Worktrees, Removing(w)
        PROVE  CalmInv'
    <3>a. UNCHANGED <<leaf, making, rec, listed, verdict>>
      BY <2>2
      DEF Removing, RemoveReads, RemoveTakes, RemoveChecks, RemoveMarks,
          RemoveRetains
    <3>1. /\ \A v \in Worktrees \ {w} :
               rows'[v] = rows[v] /\ removing'[v] = removing[v]
          /\ \/ rows'[w] = rows[w] /\ removing[w] # "retain"
             \/ rows'[w].st = "removing" /\ removing'[w] = "retain"
                /\ rows[w].st = "ready"
             \/ rows'[w].st # "removing" /\ rows[w].st = "removing"
                /\ rows'[w].st = "retained_dirty"
             \/ rows'[w] = rows[w] /\ rows[w].st # "removing"
      <4> USE DEF RemoveEnds
      <4>1. CASE RemoveReads(w)
        BY <4>1 DEF RemoveReads
      <4>2. CASE RemoveTakes(w) \/ RemoveChecks(w)
        BY <4>2 DEF RemoveTakes, RemoveChecks
      <4>3. CASE RemoveMarks(w)
        BY <4>3, <1>b DEF RemoveMarks, Move
      <4>4. CASE RemoveRetains(w)
        BY <4>4, <1>b DEF RemoveRetains, Move
      <4>5. QED
        BY <2>2, <4>1, <4>2, <4>3, <4>4 DEF Removing
    <3>2. QED
      BY <3>a, <3>1, <1>c DEF CalmInv, Broken, Kept
  <2>3. CASE ListRows
    <3>1. PICK s \in SetToSeqs(Kept) :
            listed' = [i \in DOMAIN s |-> [w |-> s[i], st |-> rows[s[i]].st]]
      BY <2>3 DEF ListRows
    <3>2. s \in Seq(Kept) /\ s # <<>>
      BY <2>3, <3>1, ListOfRows DEF ListRows
    <3>3. \A i \in DOMAIN listed' : listed'[i].w \in Kept
      BY <3>1, <3>2
    <3>4. QED
      BY <2>3, <3>3, <1>c DEF ListRows, CalmInv, Kept
  <2>4. CASE SkipBusy
    <3>1. \A i \in DOMAIN listed' : listed'[i].w \in Kept
      BY <2>4, <1>a, <1>c, ListGoesOn DEF SkipBusy
    <3>2. QED
      BY <2>4, <3>1, <1>c DEF SkipBusy, VisitNext, CalmInv, Kept
  <2>5. CASE Visit
    <3> DEFINE w == Head(listed).w
               st == Head(listed).st
    <3>1. w \in Kept /\ w \in Worktrees /\ st \in States
      BY <2>5, <1>a, <1>c, FirstListed DEF Visit
    <3>2. making[w] \notin Made /\ removing[w] # "retain"
      BY <2>5, <3>1 DEF Visit, HoldInv, Creations, Removals, Made
    <3>3. Validated(w)
      BY <3>1, <3>2, <1>c, <1>d DEF Kept, States, Broken
    <3>4. ~Unregistered
      BY <3>1, <1>a DEF RegisteredInv, Kept
    <3>5. verdict' = Judge(w, st)
      BY <2>5, <3>4, <1>b DEF Visit
    <3>6. verdict' \in {"none", "ready"} \/ st = "removing"
      BY <3>3, <3>5 DEF Judge, Validated, Listed
    <3>7. QED
      BY <2>5, <3>6, <1>c DEF Visit, CalmInv, Kept
  <2>6. CASE WriteVerdict
    <3> DEFINE w == Head(listed).w
               st == Head(listed).st
    <3>1. w \in Worktrees /\ Removals = {}
      BY <2>6, <1>a, FirstListed DEF WriteVerdict, HoldInv
    <3>2. rows[w].st # "removing"
      BY <3>1, <1>c DEF Removals
    <3>3. rows' = rows \/ (verdict = "ready" /\ Move(w, st, verdict))
      BY <2>6, <3>2, <1>c DEF WriteVerdict, Move
    <3>4. \A v \in Worktrees :
            \/ rows'[v] = rows[v]
            \/ rows'[v].st = "ready" /\ rows[v].st = st
      BY <3>1, <3>3 DEF Move
    <3>5. \A v \in Kept : v \in Kept'
      BY <3>4 DEF Kept
    <3>6. \A i \in DOMAIN listed' : listed'[i].w \in Kept'
      BY <2>6, <3>5, <1>a, <1>c, ListGoesOn DEF WriteVerdict
    <3>7. UNCHANGED <<making, removing, leaf>> /\ rec' # "write"
      BY <2>6 DEF WriteVerdict, VisitNext
    <3>8. QED
      BY <3>4, <3>6, <3>7, <1>c DEF CalmInv, Broken
  <2>7. CASE Unregister
    <3>1. UNCHANGED <<leaf, making, removing, rec, listed, verdict>>
      BY <2>7 DEF Unregister, CountWorktrees, DeleteRemoved, DeleteProject
    <3>2. \A v \in Worktrees :
            rows'[v] = rows[v] \/ (rows[v].st = "removed" /\ rows'[v].st = "none")
      BY <2>7
      DEF Unregister, CountWorktrees, DeleteRemoved, DeleteProject, NoRow
    <3>3. \A v \in Kept : v \in Kept'
      BY <3>2 DEF Kept
    <3>4. QED
      BY <3>1, <3>2, <3>3, <1>c DEF CalmInv, Broken
  <2>8. CASE TrustProject
    BY <2>8, <1>c DEF TrustProject, CalmInv, Kept
  <2>9. QED
    BY <1>2, <1>b, <2>1, <2>2, <2>3, <2>4, <2>5, <2>6, <2>7, <2>8
    DEF WorktreeNext, Reconcile
<1>3. CASE Edit \/ UNCHANGED vars
  BY <1>3, <1>c
  DEF Edit, vars, worktreeVars, diskVars, makeVars, recVars, CalmInv, Kept
<1>4. QED
  BY <1>b, <1>1, <1>2, <1>3 DEF Next

LEMMA DiskInit == Init => DiskInv
<1> SUFFICES ASSUME Init PROVE DiskInv
  OBVIOUS
<1> USE DEF Init, WorktreeInit, WorktreeStart
<1>1. BoundTypes
  BY DEF BoundTypes
<1>2. DiskTypes
  BY DEF DiskTypes
<1>3. PICK kept \in SUBSET Worktrees, rest \in {"none", "removed"} :
        /\ kept # {} \/ rest = "removed" => project = "strong"
        /\ rows = [w \in Worktrees |->
                    [st |-> IF w \in kept THEN "ready" ELSE rest, base |-> 0]]
        /\ leaf = [w \in Worktrees |-> IF w \in kept THEN "dir" ELSE "missing"]
        /\ meta = [w \in Worktrees |-> w \in kept]
        /\ making = [w \in Worktrees |-> IF rows[w] = NoRow THEN "idle" ELSE "done"]
  OBVIOUS
<1>4. RegisteredInv
  BY <1>3 DEF RegisteredInv, Unregistered, Kept, Made
<1>5. UndisturbedInv
  BY <1>3 DEF UndisturbedInv, Validated, Listed, Inspects
<1>6. CalmInv
  BY <1>3 DEF CalmInv, Broken
<1>7. QED
  BY <1>1, <1>2, <1>4, <1>5, <1>6 DEF DiskInv

LEMMA DiskInvariance == Spec => []DiskInv
<1>1. DiskInv /\ WorktreesInv /\ [Next]_vars => DiskInv'
  BY BoundsStep, DiskTypesStep, RegisteredStep, UndisturbedStep, CalmStep
  DEF DiskInv, WorktreesInv
<1>2. QED
  BY <1>1, DiskInit, WorktreesInvariance, PTL DEF Spec

\* What a command made on the disk has a row and a project, whatever fails, who
\* restarts and what others do; what is ready is there unless others were at
\* work; and while nothing goes wrong nothing is given up
\* (create_project_worktree, reconcile_project_worktrees and unregister_project).
THEOREM DiskIsAccountedFor == Spec => []RowsMatchDisk
<1>1. DiskInv => RowsMatchDisk
  BY DEF DiskInv, RegisteredInv, UndisturbedInv, CalmInv, RowsMatchDisk, Kept
<1>2. QED
  BY <1>1, DiskInvariance, PTL

-------------------------------------------------------------------------------
(* What is shown of a file is what the file was.                           *)

\* There were that many edits; one more if the file is no longer as it was read.
AtLeast(n, agrees) == edits >= n /\ (agrees \/ edits > n)

InventoryPoints == {"before", "staged", "unstaged", "after", "again", "owned"}
ClassifyPoints  == {"pass", "fresh", "count", "compare", "refresh", "final"}
CountPoints     == {"fresh", "count"}

HasRead(pass, n) == insp.pass = pass /\ Len(reads) = n

\* Where an inspection is, and how much it has read by then.
PlaceInv ==
  LET L == Len(reads) IN
  /\ insp.pc # "idle" => file \in seen /\ answer.op = "none"
  /\ insp.pc = "take" => L = 0 /\ insp.pass = 1 /\ insp.op # "none"
  /\ insp.pc \in InventoryPoints => insp.op = "inventory"
  /\ insp.pc \in ClassifyPoints => insp.op \in {"classification", "diff"}
  /\ insp.pc = "capture" => kind = "text" /\ L \in 0..6
  /\ insp.pc = "before" => L = 0
  /\ insp.pc = "staged" => L \in {1, 4}
  /\ insp.pc = "unstaged" => L \in {2, 5}
  /\ insp.pc = "after" => L \in {3, 6}
  /\ insp.pc = "again" => L = 3
  /\ insp.pc = "owned" => L = 6
  /\ insp.pc = "pass" => HasRead(1, 0) \/ HasRead(2, 3) \/ HasRead(3, 5)
  /\ insp.pc \in CountPoints => \/ HasRead(1, 1) \/ HasRead(2, 3) \/ HasRead(3, 5)
                                \/ HasRead(1, 2) \/ HasRead(2, 4) \/ HasRead(3, 6)
  /\ insp.pc = "compare" => HasRead(1, 3) \/ HasRead(2, 5) \/ HasRead(3, 7)
  /\ insp.pc \in {"refresh", "final"} => HasRead(3, 7)

\* A file that was seen is as one inventory of it says.
InventoryFound ==
  \E f \in seen, q \in {0, 3} :
    q + 3 <= Len(reads) /\ reads[q + 2] = Staged(f) /\ reads[q + 3] = Unstaged(f)

\* The inventory reads the index (1 and 4), what is staged (2 and 5) and what is not (3 and 6).
InventoryInv ==
  LET L == Len(reads)
      q == IF L < 4 THEN 0 ELSE 3
      c == IF L < 4 THEN 0 ELSE 2
      same == L >= 4 => reads[4] = reads[1]
  IN same =>
     /\ insp.pc = "staged" => InventoryFound \/ AtLeast(c, file.index = reads[q + 1])
     /\ insp.pc = "unstaged" =>
          \/ InventoryFound
          \/ IF reads[q + 2] = (reads[q + 1] # 0) THEN AtLeast(c, file.index = reads[q + 1])
             ELSE AtLeast(c + 1, file.index # reads[q + 1])
     /\ insp.pc = "after" => InventoryFound \/ AtLeast(c + 1, file.index # reads[q + 1])
     /\ insp.pc = "again" => InventoryFound \/ AtLeast(2, file.index = reads[1])
     /\ insp.pc = "owned" => InventoryFound \/ edits >= 4

\* The numbers of a file are among the readings of a section: the classification
\* counts the staged one at 2, 4 and 6 and the other at 3, 5 and 7.
Among(places, numbers) == \E i \in places : i <= Len(reads) /\ reads[i] = numbers

\* A file that was seen has the numbers that were counted, and no others.
CountsFound ==
  \E f \in seen :
    /\ IF reads[1][1] THEN Among({2, 4, 6}, StagedNumbers(f)) ELSE StagedNumbers(f) = <<>>
    /\ IF reads[1][2] THEN Among({3, 5, 7}, UnstagedNumbers(f)) ELSE UnstagedNumbers(f) = <<>>

\* Or it was edited between each two readings: of both sections in turn, or of the one that
\* is counted and of the inventory, which says that the other has nothing.
CountsNear ==
  LET L == Len(reads) IN
  IF reads[1][1] /\ reads[1][2]
  THEN L = 1 \/ AtLeast(L - 2, reads[L] = IF L \in {2, 4, 6} THEN StagedNumbers(file)
                                          ELSE UnstagedNumbers(file))
  ELSE IF reads[1][1]
  THEN IF insp.pc \notin CountPoints THEN AtLeast(L - 2, reads[L - 1] = StagedNumbers(file))
       ELSE AtLeast(L - 1, IF L \in {1, 3, 5} THEN UnstagedNumbers(file) = <<>>
                           ELSE reads[L] = StagedNumbers(file))
  ELSE IF insp.pc \notin CountPoints THEN AtLeast(L - 2, reads[L] = UnstagedNumbers(file))
       ELSE AtLeast(IF L \in {1, 3, 5} THEN L - 1 ELSE L - 2, StagedNumbers(file) = <<>>)

CountsInv ==
  LET L == Len(reads) IN
  insp.pc \in ClassifyPoints /\ L > 0 =>
    /\ reads[1] \in {Status(f) : f \in {g \in Files : Changed(g)}}
    /\ \A i \in {2, 4, 6} : i <= L /\ (kind = "deferred" \/ ~reads[1][1]) => reads[i] = <<>>
    /\ \A i \in {3, 5, 7} : i <= L /\ (kind = "deferred" \/ ~reads[1][2]) => reads[i] = <<>>
    /\ insp.pc = "count" => kind # "deferred" /\ reads[1][IF L \in {1, 3, 5} THEN 1 ELSE 2]
    /\ insp.pass = 3 => reads[4] = reads[2] /\ reads[5] = reads[3]
    /\ insp.pc \in {"refresh", "final"} => reads[6] = reads[4] /\ reads[7] = reads[5]
    /\ kind # "deferred" => CountsFound \/ CountsNear

\* The captures read the two sections in turn.
DiffFound ==
  \E f \in seen : Among({1, 3, 5}, StagedNumbers(f)) /\ Among({2, 4, 6}, UnstagedNumbers(f))

DiffInv ==
  LET L == Len(reads) IN
  insp.pc = "capture" /\ L > 0 =>
    \/ DiffFound
    \/ AtLeast(L - 1, reads[L] = IF L \in {1, 3, 5} THEN StagedNumbers(file)
                                 ELSE UnstagedNumbers(file))

ShownTypes ==
  /\ kind \in {"text", "binary", "deferred"} /\ file \in Files /\ edits \in Nat
  /\ insp \in Inspections /\ \E S : reads \in Seq(S)

ShownInv == ShownTypes /\ PlaceInv /\ InventoryInv /\ CountsInv /\ DiffInv /\ ShownWasReal

ReadingPoints == InventoryPoints \union ClassifyPoints \union {"capture"}

\* A step of an inspection that only goes on.
LEMMA GoesTo ==
  ASSUME insp \in Inspections, NEW pc \in ReadingPoints, Goes(pc)
  PROVE  insp'.pc = pc /\ insp'.op = insp.op /\ insp'.pass = insp.pass /\ insp' \in Inspections
<1>1. insp = [op |-> insp.op, w |-> insp.w, pc |-> insp.pc, pass |-> insp.pass]
      /\ insp.op \in {"none", "inventory", "classification", "diff"}
      /\ insp.w \in Worktrees \union {Idle.w} /\ insp.pass \in 1..3
  BY DEF Inspections
<1>2. insp' = [op |-> insp.op, w |-> insp.w, pc |-> pc, pass |-> insp.pass]
  BY <1>1 DEF Goes
<1>3. pc \in {"before", "staged", "unstaged", "after", "again", "owned", "pass", "fresh", "count",
              "compare", "refresh", "final", "capture"}
  BY DEF ReadingPoints, InventoryPoints, ClassifyPoints
<1>4. QED
  BY <1>1, <1>2, <1>3 DEF Inspections

\* One that reads something, and goes on.
LEMMA ReadsOn ==
  ASSUME ShownTypes, NEW r, NEW pc \in ReadingPoints, Reads(r, pc)
  PROVE  /\ UNCHANGED <<kind, file, edits, seen, answer>> /\ ShownTypes'
         /\ insp'.pc = pc /\ insp'.op = insp.op /\ insp'.pass = insp.pass
         /\ Len(reads) \in Nat /\ Len(reads') = Len(reads) + 1 /\ reads'[Len(reads) + 1] = r
         /\ \A i \in 1..Len(reads) : reads'[i] = reads[i]
<1>1. UNCHANGED <<kind, file, edits, seen, answer>> /\ reads' = Append(reads, r) /\ Goes(pc)
  BY DEF Reads
<1>2. insp'.pc = pc /\ insp'.op = insp.op /\ insp'.pass = insp.pass /\ insp' \in Inspections
  BY <1>1, GoesTo DEF ShownTypes
<1>3. PICK S : reads \in Seq(S)
  BY DEF ShownTypes
<1>4. reads \in Seq(S \union {r})
  <2>1. \A i \in 1..Len(reads) : reads[i] \in S
    BY <1>3
  <2>2. reads = [i \in 1..Len(reads) |-> reads[i]] /\ Len(reads) \in Nat
    BY <1>3
  <2>3. QED
    BY <2>1, <2>2
<1>5. /\ Append(reads, r) \in Seq(S \union {r}) /\ Len(reads) \in Nat
      /\ Len(Append(reads, r)) = Len(reads) + 1
      /\ Append(reads, r)[Len(reads) + 1] = r
      /\ \A i \in 1..Len(reads) : Append(reads, r)[i] = reads[i]
  BY <1>4, AppendProperties
<1>6. \E T : reads' \in Seq(T)
  BY <1>1, <1>5
<1>7. QED
  BY <1>1, <1>2, <1>5, <1>6 DEF ShownTypes

\* What no step but an edit changes, and every step but a reading.
LEMMA ShownRests ==
  ASSUME ShownInv, UNCHANGED inspectVars
  PROVE  ShownInv'
<1> USE DEF inspectVars
<1>1. ShownTypes'
  BY DEF ShownInv, ShownTypes
<1>2. PlaceInv'
  BY DEF ShownInv, PlaceInv, HasRead
<1>3. InventoryInv'
  BY DEF ShownInv, InventoryInv, InventoryFound, AtLeast
<1>4. CountsInv'
  <2>1. \A f : StagedNumbers(f)' = StagedNumbers(f) /\ UnstagedNumbers(f)' = UnstagedNumbers(f)
    BY DEF StagedNumbers, UnstagedNumbers, Numbers
  <2>2. CountsFound => CountsFound'
    BY <2>1 DEF CountsFound, Among
  <2>3. CountsNear => CountsNear'
    BY <2>1 DEF CountsNear, AtLeast, StagedNumbers, UnstagedNumbers, Numbers
  <2>4. QED
    BY <2>2, <2>3 DEF ShownInv, CountsInv
<1>5. DiffInv'
  BY DEF ShownInv, DiffInv, DiffFound, AtLeast, StagedNumbers, UnstagedNumbers, Numbers, Among
<1>6. ShownWasReal'
  BY DEF ShownInv, ShownWasReal, Result, Status, StagedNumbers, UnstagedNumbers, Numbers
<1>7. QED
  BY <1>1, <1>2, <1>3, <1>4, <1>5, <1>6 DEF ShownInv

\* An edit is one more, and leaves what was seen.
LEMMA ShownEdit ==
  ASSUME ShownInv, Edit
  PROVE  ShownInv'
<1>1. /\ edits' = edits + 1 /\ edits \in Nat /\ edits' \in Nat /\ file' \in Files
      /\ UNCHANGED <<kind, insp, reads>> /\ answer' = NoAnswer /\ answer'.op = "none"
      /\ insp # Idle => seen' = seen \union {file'}
  BY DEF Edit, ShownInv, ShownTypes, NoAnswer
<1>2. \A n \in Nat : \A a, b : AtLeast(n, a) => edits' >= n + 1
  BY <1>1 DEF AtLeast
<1>3. ShownTypes'
  BY <1>1 DEF ShownInv, ShownTypes
<1>4. ShownWasReal'
  BY <1>1 DEF ShownWasReal
<1>5. CASE insp.pc = "idle"
  <2>1. PlaceInv' /\ InventoryInv' /\ CountsInv' /\ DiffInv'
    BY <1>1, <1>5
    DEF PlaceInv, InventoryInv, CountsInv, DiffInv, InventoryPoints, ClassifyPoints,
        CountPoints, HasRead
  <2>2. QED
    BY <1>3, <1>4, <2>1 DEF ShownInv
<1>6. CASE insp.pc # "idle"
  <2>1. seen' = seen \union {file'}
    BY <1>1, <1>6 DEF Idle
  <2>2. PlaceInv'
    BY <1>1, <2>1 DEF ShownInv, PlaceInv, HasRead
  <2>3. InventoryInv'
    <3>1. InventoryFound => InventoryFound'
      BY <1>1, <2>1 DEF InventoryFound
    <3>2. QED
      BY <1>1, <3>1 DEF ShownInv, InventoryInv, AtLeast
  <2>4. \A f \in Files : StagedNumbers(f)' = StagedNumbers(f) /\ UnstagedNumbers(f)' = UnstagedNumbers(f)
    BY <1>1 DEF StagedNumbers, UnstagedNumbers, Numbers
  <2>5. CountsInv'
    <3>1. CountsFound => CountsFound'
      BY <1>1, <2>1 DEF CountsFound, StagedNumbers, UnstagedNumbers, Numbers, Among
    <3>2. Len(reads) > 0 /\ insp.pc \in ClassifyPoints /\ CountsNear => CountsNear'
      BY <1>1 DEF ShownInv, PlaceInv, CountsNear, AtLeast, ClassifyPoints, CountPoints, HasRead
    <3>3. QED
      BY <1>1, <3>1, <3>2 DEF ShownInv, CountsInv
  <2>6. DiffInv'
    <3>1. DiffFound => DiffFound'
      BY <1>1, <2>1 DEF DiffFound, StagedNumbers, UnstagedNumbers, Numbers, Among
    <3>2. QED
      BY <1>1, <3>1 DEF ShownInv, PlaceInv, DiffInv, AtLeast, HasRead
  <2>7. QED
    BY <1>3, <1>4, <2>2, <2>3, <2>5, <2>6 DEF ShownInv
<1>7. QED
  BY <1>5, <1>6

\* An inspection that begins has seen the file and read nothing.
LEMMA ShownBegins ==
  ASSUME ShownInv, NEW w \in Worktrees, NEW op \in {"inventory", "classification", "diff"},
         InspectReads(w, op)
  PROVE  ShownInv'
<1>1. /\ insp' = [op |-> op, w |-> w, pc |-> "take", pass |-> 1] /\ reads' = <<>> /\ seen' = {file}
      /\ answer' = NoAnswer /\ UNCHANGED <<kind, file, edits>>
  BY DEF InspectReads
<1>2. insp' \in Inspections /\ insp'.pc = "take" /\ insp'.op = op /\ insp'.pass = 1
  BY <1>1 DEF Inspections
<1>3. reads' \in Seq({}) /\ Len(reads') = 0 /\ answer'.op = "none"
  BY <1>1 DEF NoAnswer
<1>4. ShownTypes'
  BY <1>1, <1>2, <1>3 DEF ShownInv, ShownTypes
<1>5. PlaceInv' /\ InventoryInv' /\ CountsInv' /\ DiffInv' /\ ShownWasReal'
  BY <1>1, <1>2, <1>3
  DEF PlaceInv, InventoryInv, CountsInv, DiffInv, ShownWasReal, InventoryPoints, ClassifyPoints,
      CountPoints, HasRead
<1>6. QED
  BY <1>4, <1>5 DEF ShownInv

\* One that ends leaves nothing but its answer.
LEMMA ShownEnds ==
  ASSUME ShownInv, insp' = Idle, UNCHANGED <<kind, file, edits>>, \E S : reads' \in Seq(S),
         ShownWasReal'
  PROVE  ShownInv'
<1>1. insp' \in Inspections /\ insp'.pc = "idle"
  BY DEF Idle, Inspections
<1>2. ShownTypes'
  BY <1>1 DEF ShownInv, ShownTypes
<1>3. PlaceInv' /\ InventoryInv' /\ CountsInv' /\ DiffInv'
  BY <1>1
  DEF PlaceInv, InventoryInv, CountsInv, DiffInv, InventoryPoints, ClassifyPoints, CountPoints,
      HasRead
<1>4. QED
  BY <1>2, <1>3 DEF ShownInv

\* The project is taken, or it is busy.
LEMMA ShownTakes ==
  ASSUME ShownInv, InspectTakes
  PROVE  ShownInv'
<1>1. insp.pc = "take" /\ UNCHANGED <<kind, file, edits, reads, answer>> /\ answer.op = "none"
      /\ Len(reads) = 0 /\ insp.pass = 1 /\ insp.op # "none" /\ file \in seen
  BY DEF InspectTakes, ShownInv, PlaceInv, HasRead
<1>2. CASE insp' = Idle
  <2>1. ShownWasReal'
    BY <1>1 DEF ShownWasReal
  <2>2. \E S : reads' \in Seq(S)
    BY <1>1 DEF ShownInv, ShownTypes
  <2>3. QED
    BY <1>1, <1>2, <2>1, <2>2, ShownEnds
<1>3. CASE Goes(IF insp.op = "inventory" THEN "before" ELSE "pass") /\ UNCHANGED seen
  <2> DEFINE pc == IF insp.op = "inventory" THEN "before" ELSE "pass"
  <2>1. pc \in {"before", "pass"} /\ pc \in ReadingPoints
        /\ (pc = "before" <=> insp.op = "inventory")
    BY DEF ReadingPoints, InventoryPoints, ClassifyPoints
  <2>2. insp \in Inspections
    BY DEF ShownInv, ShownTypes
  <2>3. insp'.pc = pc /\ insp'.op = insp.op /\ insp'.pass = insp.pass /\ insp' \in Inspections
    BY <1>3, <2>1, <2>2, GoesTo
  <2> HIDE DEF pc
  <2>4. ShownTypes'
    BY <1>1, <2>3 DEF ShownInv, ShownTypes
  <2>5. insp.op \in {"inventory", "classification", "diff"}
    BY <1>1, <2>2 DEF Inspections
  <2>6. PlaceInv' /\ InventoryInv' /\ CountsInv' /\ DiffInv' /\ ShownWasReal'
    BY <1>1, <1>3, <2>1, <2>3, <2>5
    DEF PlaceInv, InventoryInv, CountsInv, DiffInv, ShownWasReal, InventoryPoints,
        ClassifyPoints, CountPoints, HasRead
  <2>7. QED
    BY <2>4, <2>6 DEF ShownInv
<1>4. QED
  BY <1>2, <1>3, Zenon DEF InspectTakes

\* The index is read, what is staged, what is not, and the index again.
LEMMA ShownInventory ==
  ASSUME ShownInv,
         InventoryBefore \/ InventoryStaged \/ InventoryUnstaged \/ InventoryAfter \/ InventoryAgain
  PROVE  ShownInv'
<1> USE DEF ShownInv, InventoryPoints, ClassifyPoints, CountPoints, ReadingPoints
<1>0. file.index \in Nat /\ file.work \in Nat /\ edits \in Nat
  BY DEF ShownTypes, Files
<1>1. CASE InventoryBefore
  <2>1. insp.pc = "before" /\ Reads(file.index, "staged")
    BY <1>1 DEF InventoryBefore
  <2>2. /\ UNCHANGED <<kind, file, edits, seen, answer>> /\ ShownTypes'
        /\ insp'.pc = "staged" /\ insp'.op = insp.op /\ Len(reads') = Len(reads) + 1
        /\ reads'[Len(reads) + 1] = file.index
    BY <2>1, ReadsOn
  <2>3. Len(reads) = 0
    BY <2>1 DEF PlaceInv, HasRead
  <2>4. PlaceInv' /\ CountsInv' /\ DiffInv' /\ ShownWasReal'
    <3>1. insp.op = "inventory" /\ file \in seen /\ answer.op = "none"
      BY <2>1 DEF PlaceInv, HasRead
    <3>2. PlaceInv'
      BY <2>1, <2>2, <2>3, <3>1 DEF PlaceInv, HasRead
    <3>3. CountsInv' /\ DiffInv' /\ ShownWasReal'
      BY <2>2, <3>1 DEF CountsInv, DiffInv, ShownWasReal
    <3>4. QED
      BY <3>2, <3>3
  <2>5. InventoryInv'
    BY <1>0, <2>2, <2>3 DEF InventoryInv, AtLeast
  <2>6. QED
    BY <2>2, <2>4, <2>5
<1>2. CASE InventoryStaged
  <2>1. insp.pc = "staged" /\ Reads(Staged(file), "unstaged")
    BY <1>2 DEF InventoryStaged
  <2>2. /\ UNCHANGED <<kind, file, edits, seen, answer>> /\ ShownTypes'
        /\ insp'.pc = "unstaged" /\ insp'.op = insp.op /\ Len(reads') = Len(reads) + 1
        /\ reads'[Len(reads) + 1] = Staged(file)
        /\ \A i \in 1..Len(reads) : reads'[i] = reads[i]
    BY <2>1, ReadsOn
  <2>3. Len(reads) \in {1, 4}
    BY <2>1 DEF PlaceInv, HasRead
  <2>4. PlaceInv' /\ CountsInv' /\ DiffInv' /\ ShownWasReal'
    <3>1. insp.op = "inventory" /\ file \in seen /\ answer.op = "none"
      BY <2>1 DEF PlaceInv, HasRead
    <3>2. PlaceInv'
      <4>1. Len(reads') \in {2, 5}
        <5>1. CASE Len(reads) = 1
          BY <2>2, <5>1
        <5>2. CASE Len(reads) = 4
          BY <2>2, <5>2
        <5>3. QED
          BY <2>3, <5>1, <5>2
      <4>2. QED
        BY <2>2, <3>1, <4>1 DEF PlaceInv, HasRead
    <3>3. CountsInv' /\ DiffInv' /\ ShownWasReal'
      BY <2>2, <3>1 DEF CountsInv, DiffInv, ShownWasReal
    <3>4. QED
      BY <3>2, <3>3
  <2>5. InventoryFound => InventoryFound'
    BY <2>2, <2>3 DEF InventoryFound
  <2>6. InventoryInv'
    <3>1. CASE Len(reads) = 1
      BY <1>0, <2>1, <2>2, <2>5, <3>1 DEF InventoryInv, AtLeast, Staged
    <3>2. CASE Len(reads) = 4
      BY <1>0, <2>1, <2>2, <2>5, <3>2 DEF InventoryInv, AtLeast, Staged
    <3>3. QED
      BY <2>3, <3>1, <3>2
  <2>7. QED
    BY <2>2, <2>4, <2>6
<1>3. CASE InventoryUnstaged
  <2>1. insp.pc = "unstaged" /\ Reads(file.work # reads[Len(reads) - 1], "after")
    BY <1>3 DEF InventoryUnstaged
  <2>2. /\ UNCHANGED <<kind, file, edits, seen, answer>> /\ ShownTypes'
        /\ insp'.pc = "after" /\ insp'.op = insp.op /\ Len(reads') = Len(reads) + 1
        /\ reads'[Len(reads) + 1] = (file.work # reads[Len(reads) - 1])
        /\ \A i \in 1..Len(reads) : reads'[i] = reads[i]
    BY <2>1, ReadsOn
  <2>3. Len(reads) \in {2, 5} /\ file \in seen
    BY <2>1 DEF PlaceInv, HasRead
  <2>4. PlaceInv' /\ CountsInv' /\ DiffInv' /\ ShownWasReal'
    <3>1. insp.op = "inventory" /\ file \in seen /\ answer.op = "none"
      BY <2>1 DEF PlaceInv, HasRead
    <3>2. PlaceInv'
      <4>1. Len(reads') \in {3, 6}
        <5>1. CASE Len(reads) = 2
          BY <2>2, <5>1
        <5>2. CASE Len(reads) = 5
          BY <2>2, <5>2
        <5>3. QED
          BY <2>3, <5>1, <5>2
      <4>2. QED
        BY <2>2, <3>1, <4>1 DEF PlaceInv, HasRead
    <3>3. CountsInv' /\ DiffInv' /\ ShownWasReal'
      BY <2>2, <3>1 DEF CountsInv, DiffInv, ShownWasReal
    <3>4. QED
      BY <3>2, <3>3
  <2>5. InventoryFound => InventoryFound'
    BY <2>2, <2>3 DEF InventoryFound
  <2>6. InventoryInv'
    <3>1. CASE Len(reads) = 2
      <4>1. (file.index = reads[1] /\ reads[2] = (reads[1] # 0)) => InventoryFound'
        BY <2>2, <2>3, <3>1 DEF InventoryFound, Staged, Unstaged
      <4>2. QED
        BY <1>0, <2>1, <2>2, <2>5, <3>1, <4>1 DEF InventoryInv, AtLeast
    <3>2. CASE Len(reads) = 5
      <4>1. (file.index = reads[4] /\ reads[5] = (reads[4] # 0)) => InventoryFound'
        BY <2>2, <2>3, <3>2 DEF InventoryFound, Staged, Unstaged
      <4>2. QED
        BY <1>0, <2>1, <2>2, <2>5, <3>2, <4>1 DEF InventoryInv, AtLeast
    <3>3. QED
      BY <2>3, <3>1, <3>2
  <2>7. QED
    BY <2>2, <2>4, <2>6
<1>4. CASE InventoryAfter
  <2> DEFINE pc == IF Len(reads) = 3 THEN "again" ELSE "owned"
  <2>1. insp.pc = "after" /\ file.index = reads[Len(reads) - 2] /\ Goes(pc)
        /\ UNCHANGED <<kind, file, edits, seen, reads, answer>>
    BY <1>4 DEF InventoryAfter
  <2>2. Len(reads) \in {3, 6} /\ pc \in ReadingPoints /\ (pc = "again" \/ pc = "owned")
        /\ (pc = "again" <=> Len(reads) = 3)
    BY <2>1 DEF PlaceInv, HasRead
  <2>3. insp'.pc = pc /\ insp'.op = insp.op /\ insp'.pass = insp.pass /\ insp' \in Inspections
    BY <2>1, <2>2, GoesTo DEF ShownTypes
  <2> HIDE DEF pc
  <2>4. ShownTypes'
    BY <2>1, <2>3 DEF ShownTypes
  <2>5. PlaceInv' /\ CountsInv' /\ DiffInv' /\ ShownWasReal'
    BY <2>1, <2>2, <2>3
    DEF PlaceInv, CountsInv, DiffInv, ShownWasReal, Result, Status, StagedNumbers,
        UnstagedNumbers, Numbers, HasRead
  <2>6. InventoryFound => InventoryFound'
    BY <2>1 DEF InventoryFound
  <2>7. InventoryInv'
    <3>1. CASE Len(reads) = 3
      BY <1>0, <2>1, <2>2, <2>3, <2>6, <3>1 DEF InventoryInv, AtLeast
    <3>2. CASE Len(reads) = 6
      BY <1>0, <2>1, <2>2, <2>3, <2>6, <3>2 DEF InventoryInv, AtLeast
    <3>3. QED
      BY <2>2, <3>1, <3>2
  <2>8. QED
    BY <2>4, <2>5, <2>7
<1>5. CASE InventoryAgain
  <2>1. insp.pc = "again" /\ Reads(file.index, "staged")
    BY <1>5 DEF InventoryAgain
  <2>2. /\ UNCHANGED <<kind, file, edits, seen, answer>> /\ ShownTypes'
        /\ insp'.pc = "staged" /\ insp'.op = insp.op /\ Len(reads') = Len(reads) + 1
        /\ reads'[Len(reads) + 1] = file.index
        /\ \A i \in 1..Len(reads) : reads'[i] = reads[i]
    BY <2>1, ReadsOn
  <2>3. Len(reads) = 3
    BY <2>1 DEF PlaceInv, HasRead
  <2>4. PlaceInv' /\ CountsInv' /\ DiffInv' /\ ShownWasReal'
    <3>1. insp.op = "inventory" /\ file \in seen /\ answer.op = "none"
      BY <2>1 DEF PlaceInv, HasRead
    <3>2. PlaceInv'
      BY <2>1, <2>2, <2>3, <3>1 DEF PlaceInv, HasRead
    <3>3. CountsInv' /\ DiffInv' /\ ShownWasReal'
      BY <2>2, <3>1 DEF CountsInv, DiffInv, ShownWasReal
    <3>4. QED
      BY <3>2, <3>3
  <2>5. InventoryFound => InventoryFound'
    BY <2>2, <2>3 DEF InventoryFound
  <2>6. InventoryInv'
    BY <1>0, <2>1, <2>2, <2>3, <2>5 DEF InventoryInv, AtLeast
  <2>7. QED
    BY <2>2, <2>4, <2>6
<1>6. QED
  BY <1>1, <1>2, <1>3, <1>4, <1>5

\* A section without changes has no numbers, and one with changes has some.
LEMMA NumbersOf ==
  ASSUME kind \in {"text", "binary"}, NEW f \in Files
  PROVE  /\ StagedNumbers(f) = <<>> <=> ~Staged(f)
         /\ UnstagedNumbers(f) = <<>> <=> ~Unstaged(f)
<1>1. <<"binary">> # <<>> /\ <<f.index>> # <<>> /\ <<f.index, f.work>> # <<>>
  OBVIOUS
<1>2. QED
  BY <1>1 DEF StagedNumbers, UnstagedNumbers, Numbers

\* A pass begins: the file is as the first inventory says.
LEMMA ShownPass ==
  ASSUME ShownInv, PassBegins
  PROVE  ShownInv'
<1> USE DEF ShownInv, InventoryPoints, ClassifyPoints, CountPoints, ReadingPoints
<1>1. /\ insp.pc = "pass" /\ Changed(file) /\ (insp.pass > 1 => reads[1] = Status(file))
      /\ insp.op \in {"classification", "diff"} /\ file \in seen /\ answer.op = "none"
      /\ HasRead(1, 0) \/ HasRead(2, 3) \/ HasRead(3, 5)
      /\ file \in Files /\ edits \in Nat /\ kind \in {"text", "binary", "deferred"}
  BY DEF PassBegins, InventoryOf, PlaceInv, ShownTypes
<1>2. /\ Status(file) \in {Status(f) : f \in {g \in Files : Changed(g)}}
      /\ Status(file)[1] = Staged(file) /\ Status(file)[2] = Unstaged(file)
      /\ Staged(file) \in BOOLEAN /\ Unstaged(file) \in BOOLEAN
      /\ Staged(file) \/ Unstaged(file)
  BY <1>1 DEF Status, Changed, Staged, Unstaged
<1>3. kind # "deferred" => /\ StagedNumbers(file) = <<>> <=> ~Staged(file)
                           /\ UnstagedNumbers(file) = <<>> <=> ~Unstaged(file)
  BY <1>1, NumbersOf
<1>4. CASE insp.pass = 1
  <2>1. Len(reads) = 0 /\ Reads(Status(file), "fresh")
    BY <1>1, <1>4 DEF PassBegins, InventoryOf, HasRead
  <2>2. /\ UNCHANGED <<kind, file, edits, seen, answer>> /\ ShownTypes'
        /\ insp'.pc = "fresh" /\ insp'.op = insp.op /\ insp'.pass = 1 /\ Len(reads') = 1
        /\ reads'[1] = Status(file)
    BY <1>4, <2>1, ReadsOn
  <2>3. PlaceInv' /\ InventoryInv' /\ DiffInv' /\ ShownWasReal'
    BY <1>1, <2>2 DEF PlaceInv, InventoryInv, DiffInv, ShownWasReal, HasRead
  <2>4. CountsInv'
    <3>1. reads'[1] \in {Status(f) : f \in {g \in Files : Changed(g)}}
      BY <1>2, <2>2
    <3>2. kind # "deferred" => CountsNear'
      BY <1>1, <1>2, <1>3, <2>2 DEF CountsNear, AtLeast, StagedNumbers, UnstagedNumbers, Numbers
    <3>3. QED
      BY <2>2, <3>1, <3>2 DEF CountsInv
  <2>5. QED
    BY <2>2, <2>3, <2>4
<1>5. CASE insp.pass # 1
  <2>1. insp.pass > 1 /\ Goes("fresh") /\ UNCHANGED <<kind, file, edits, seen, reads, answer>>
    BY <1>1, <1>5 DEF PassBegins, worktreeVars, HasRead
  <2>a. PICK n \in {3, 5} : Len(reads) = n
    BY <1>1, <1>5 DEF HasRead
  <2>2. insp'.pc = "fresh" /\ insp'.op = insp.op /\ insp'.pass = insp.pass /\ insp' \in Inspections
    BY <2>1, GoesTo DEF ShownTypes
  <2>3. ShownTypes'
    BY <2>1, <2>2 DEF ShownTypes
  <2>4. PlaceInv' /\ InventoryInv' /\ DiffInv' /\ ShownWasReal'
    BY <1>1, <2>1, <2>2 DEF PlaceInv, InventoryInv, DiffInv, ShownWasReal, HasRead
  <2>5. CountsInv'
    <3>1. \A f : StagedNumbers(f)' = StagedNumbers(f) /\ UnstagedNumbers(f)' = UnstagedNumbers(f)
      BY <2>1 DEF StagedNumbers, UnstagedNumbers, Numbers
    <3>2. CountsFound => CountsFound'
      BY <2>1, <3>1 DEF CountsFound, Among
    <3>3. reads[1][1] = Staged(file) /\ reads[1][2] = Unstaged(file)
      BY <1>1, <1>2, <2>1
    \* The section that is counted still is what it was, and the other has nothing.
    <3>4. ASSUME kind # "deferred", CountsNear
          PROVE  CountsFound' \/ CountsNear'
      <4>1. CASE Staged(file) /\ Unstaged(file)
        BY <2>1, <2>2, <3>1, <3>3, <3>4, <4>1 DEF CountsNear, AtLeast
      <4>2. CASE Staged(file) /\ ~Unstaged(file)
        <5>1. AtLeast(n - 2, reads[n - 1] = StagedNumbers(file))
          BY <1>1, <2>1, <2>a, <3>3, <3>4, <4>2 DEF CountsNear
        <5>2. reads[n - 1] = StagedNumbers(file) => CountsFound'
          BY <1>1, <1>3, <2>1, <2>a, <3>1, <3>3, <3>4, <4>2 DEF CountsFound, Among
        <5>3. edits > n - 2 => CountsNear'
          BY <1>1, <1>3, <2>1, <2>a, <2>2, <3>1, <3>3, <3>4, <4>2 DEF CountsNear, AtLeast
        <5>4. QED
          BY <5>1, <5>2, <5>3 DEF AtLeast
      <4>3. CASE ~Staged(file) /\ Unstaged(file)
        <5>1. AtLeast(n - 2, reads[n] = UnstagedNumbers(file))
          BY <1>1, <2>1, <2>a, <3>3, <3>4, <4>3 DEF CountsNear
        <5>2. reads[n] = UnstagedNumbers(file) => CountsFound'
          BY <1>1, <1>3, <2>1, <2>a, <3>1, <3>3, <3>4, <4>3 DEF CountsFound, Among
        <5>3. edits > n - 2 => CountsNear'
          BY <1>1, <1>3, <2>1, <2>a, <2>2, <3>1, <3>3, <3>4, <4>3 DEF CountsNear, AtLeast
        <5>4. QED
          BY <5>1, <5>2, <5>3 DEF AtLeast
      <4>4. QED
        BY <1>2, <4>1, <4>2, <4>3
    <3>5. QED
      BY <1>1, <2>1, <2>2, <3>2, <3>4 DEF CountsInv
  <2>6. QED
    BY <2>3, <2>4, <2>5
<1>6. QED
  BY <1>4, <1>5

\* What a pass does to a section: it has none, it is looked up, its lines are counted.
LEMMA ShownCounts ==
  ASSUME ShownInv, ClassifySkips \/ ClassifyFresh \/ ClassifyCounts
  PROVE  ShownInv'
<1> USE DEF ShownInv, InventoryPoints, ClassifyPoints, CountPoints, ReadingPoints
<1>1. /\ insp.pc \in {"fresh", "count"} /\ insp.op \in {"classification", "diff"}
      /\ file \in seen /\ answer.op = "none" /\ file \in Files /\ edits \in Nat
      /\ \/ HasRead(1, 1) \/ HasRead(2, 3) \/ HasRead(3, 5)
         \/ HasRead(1, 2) \/ HasRead(2, 4) \/ HasRead(3, 6)
      /\ kind \in {"text", "binary", "deferred"}
  BY DEF ClassifySkips, ClassifyFresh, ClassifyCounts, PlaceInv, ShownTypes
<1>2. PICK p \in 1..3, n \in 1..6 : HasRead(p, n) /\ (n = 2 * p - 1 \/ n = 2 * p)
  BY <1>1
<1>a. Len(reads) = n /\ insp.pass = p
  BY <1>2 DEF HasRead
<1>b. /\ Section = IF n \in {1, 3, 5} THEN 1 ELSE 2
      /\ AfterSection = IF n \in {1, 3, 5} THEN "fresh" ELSE "compare"
  <2>1. Section = n - 2 * p + 2
    BY <1>a DEF Section
  <2>2. QED
    BY <1>2, <1>a, <1>b, <2>1 DEF AfterSection
\* Each makes one of three of it.
<1>3. \/ /\ insp.pc = "fresh" /\ Goes("count") /\ reads[1][Section] /\ kind # "deferred"
         /\ UNCHANGED <<kind, file, edits, seen, reads, answer>>
      \/ /\ insp.pc = "fresh" /\ (kind = "deferred" \/ ~reads[1][Section])
         /\ Reads(<<>>, AfterSection)
      \/ /\ insp.pc = "count"
         /\ Reads(IF Section = 1 THEN StagedNumbers(file) ELSE UnstagedNumbers(file), AfterSection)
  BY DEF ClassifySkips, ClassifyFresh, ClassifyCounts
<1>4. /\ reads[1] \in {Status(f) : f \in {g \in Files : Changed(g)}}
      /\ reads[1][1] \in BOOLEAN /\ reads[1][2] \in BOOLEAN /\ (reads[1][1] \/ reads[1][2])
  <2>1. PICK f \in Files : Changed(f) /\ reads[1] = Status(f)
    BY <1>1, <1>2, <1>a, <1>b DEF CountsInv
  <2>2. reads[1][1] = Staged(f) /\ reads[1][2] = Unstaged(f)
    BY <2>1 DEF Status
  <2>3. QED
    BY <2>1, <2>2 DEF Changed, Staged, Unstaged
<1>5. /\ \A i \in {2, 4, 6} : i <= n /\ (kind = "deferred" \/ ~reads[1][1]) => reads[i] = <<>>
      /\ \A i \in {3, 5, 7} : i <= n /\ (kind = "deferred" \/ ~reads[1][2]) => reads[i] = <<>>
      /\ insp.pc = "count" => kind # "deferred" /\ reads[1][IF n \in {1, 3, 5} THEN 1 ELSE 2]
      /\ insp.pass = 3 => reads[4] = reads[2] /\ reads[5] = reads[3]
      /\ kind # "deferred" => CountsFound \/ CountsNear
  BY <1>1, <1>2, <1>a, <1>b DEF CountsInv
<1>6. CASE /\ insp.pc = "fresh" /\ Goes("count") /\ reads[1][Section] /\ kind # "deferred"
           /\ UNCHANGED <<kind, file, edits, seen, reads, answer>>
  <2>1. insp'.pc = "count" /\ insp'.op = insp.op /\ insp'.pass = insp.pass /\ insp' \in Inspections
    BY <1>6, GoesTo DEF ShownTypes
  <2>2. ShownTypes'
    BY <1>6, <2>1 DEF ShownTypes
  <2>3. PlaceInv' /\ InventoryInv' /\ DiffInv' /\ ShownWasReal'
    BY <1>1, <1>6, <2>1 DEF PlaceInv, InventoryInv, DiffInv, ShownWasReal, HasRead
  <2>4. \A f : StagedNumbers(f)' = StagedNumbers(f) /\ UnstagedNumbers(f)' = UnstagedNumbers(f)
    BY <1>6 DEF StagedNumbers, UnstagedNumbers, Numbers
  <2>5. CountsFound => CountsFound'
    BY <1>6, <2>4 DEF CountsFound, Among
  <2>6. CountsNear => CountsNear'
    BY <1>6, <2>1, <2>4 DEF CountsNear, AtLeast, StagedNumbers, UnstagedNumbers, Numbers
  <2>7. CountsInv'
    BY <1>2, <1>a, <1>b, <1>4, <1>5, <1>6, <2>1, <2>5, <2>6 DEF CountsInv
  <2>8. QED
    BY <2>2, <2>3, <2>7
<1>7. ASSUME NEW r, Reads(r, AfterSection),
             \/ r = <<>> /\ (kind = "deferred" \/ ~reads[1][Section])
             \/ /\ kind # "deferred" /\ reads[1][Section]
                /\ r = IF Section = 1 THEN StagedNumbers(file) ELSE UnstagedNumbers(file)
      PROVE  ShownInv'
  <2>1. AfterSection \in ReadingPoints
    BY <1>2, <1>a, <1>b
  <2>2. /\ UNCHANGED <<kind, file, edits, seen, answer>> /\ ShownTypes'
        /\ insp'.pc = AfterSection /\ insp'.op = insp.op /\ insp'.pass = insp.pass
        /\ Len(reads') = n + 1 /\ reads'[n + 1] = r /\ \A i \in 1..n : reads'[i] = reads[i]
    BY <1>a, <1>7, <2>1, ReadsOn
  <2>3. PlaceInv' /\ InventoryInv' /\ DiffInv' /\ ShownWasReal'
    <3>1. PlaceInv'
      BY <1>1, <1>2, <1>a, <1>b, <2>2 DEF PlaceInv, HasRead
    <3>2. InventoryInv' /\ DiffInv' /\ ShownWasReal'
      BY <1>1, <1>2, <1>a, <1>b, <2>2 DEF InventoryInv, DiffInv, ShownWasReal
    <3>3. QED
      BY <3>1, <3>2
  <2>4. \A f : StagedNumbers(f)' = StagedNumbers(f) /\ UnstagedNumbers(f)' = UnstagedNumbers(f)
    BY <2>2 DEF StagedNumbers, UnstagedNumbers, Numbers
  <2>5. CountsFound => CountsFound'
    BY <1>2, <1>a, <1>b, <2>2, <2>4 DEF CountsFound, Among
  <2>6. reads'[1] = reads[1]
    BY <1>2, <1>a, <1>b, <2>2
  <2>7. ASSUME kind # "deferred", CountsNear
        PROVE  CountsFound' \/ CountsNear'
    <3>1. /\ StagedNumbers(file) = <<>> <=> ~Staged(file)
          /\ UnstagedNumbers(file) = <<>> <=> ~Unstaged(file)
      BY <1>1, <2>7, NumbersOf
    <3>2. CASE reads[1][1] /\ reads[1][2]
      <4>1. r = IF n \in {1, 3, 5} THEN StagedNumbers(file) ELSE UnstagedNumbers(file)
        BY <1>2, <1>a, <1>b, <1>7, <2>7, <3>2
      <4>2. n = 1 \/ AtLeast(n - 2, reads[n] = IF n \in {2, 4, 6} THEN StagedNumbers(file)
                                               ELSE UnstagedNumbers(file))
        BY <1>a, <2>7, <3>2 DEF CountsNear
      <4>3. n # 1 /\ reads[n] = (IF n \in {2, 4, 6} THEN StagedNumbers(file) ELSE UnstagedNumbers(file))
              => CountsFound'
        BY <1>1, <1>2, <1>a, <1>b, <2>2, <2>4, <2>6, <3>2, <4>1 DEF CountsFound, Among
      <4>4. n = 1 \/ edits > n - 2 => CountsNear'
        BY <1>1, <1>2, <1>a, <1>b, <2>2, <2>4, <2>6, <3>2, <4>1 DEF CountsNear, AtLeast
      <4>5. QED
        BY <4>2, <4>3, <4>4 DEF AtLeast
    <3>3. CASE reads[1][1] /\ ~reads[1][2]
      <4>1. CASE n \in {1, 3, 5}
        <5>1. r = StagedNumbers(file) /\ AfterSection = "fresh"
          BY <1>2, <1>a, <1>b, <1>7, <2>7, <3>3, <4>1
        <5>2. AtLeast(n - 1, UnstagedNumbers(file) = <<>>)
          BY <1>1, <1>a, <2>7, <3>3, <4>1 DEF CountsNear
        <5>3. UnstagedNumbers(file) = <<>> => CountsFound'
          BY <1>1, <1>2, <1>a, <1>b, <2>2, <2>4, <2>6, <3>3, <4>1, <5>1 DEF CountsFound, Among
        <5>4. edits > n - 1 => CountsNear'
          BY <1>1, <1>2, <1>a, <1>b, <2>2, <2>4, <2>6, <3>3, <4>1, <5>1 DEF CountsNear, AtLeast
        <5>5. QED
          BY <5>2, <5>3, <5>4 DEF AtLeast
      <4>2. CASE n \in {2, 4, 6}
        <5>1. AtLeast(n - 1, reads[n] = StagedNumbers(file)) /\ AfterSection = "compare"
          BY <1>1, <1>2, <1>a, <1>b, <2>7, <3>3, <4>2 DEF CountsNear
        <5>2. CountsNear'
          BY <1>1, <1>2, <1>a, <1>b, <2>2, <2>4, <2>6, <3>3, <4>2, <5>1 DEF CountsNear, AtLeast
        <5>3. QED
          BY <5>2
      <4>3. QED
        BY <1>2, <1>a, <1>b, <4>1, <4>2
    <3>4. CASE ~reads[1][1] /\ reads[1][2]
      <4>1. CASE n \in {1, 3, 5}
        <5>1. AtLeast(n - 1, StagedNumbers(file) = <<>>) /\ AfterSection = "fresh"
          BY <1>1, <1>2, <1>a, <1>b, <2>7, <3>4, <4>1 DEF CountsNear
        <5>2. CountsNear'
          BY <1>1, <1>2, <1>a, <1>b, <2>2, <2>4, <2>6, <3>4, <4>1, <5>1 DEF CountsNear, AtLeast
        <5>3. QED
          BY <5>2
      <4>2. CASE n \in {2, 4, 6}
        <5>1. r = UnstagedNumbers(file) /\ AfterSection = "compare"
          BY <1>2, <1>a, <1>b, <1>7, <2>7, <3>4, <4>2
        <5>2. AtLeast(n - 2, StagedNumbers(file) = <<>>)
          BY <1>1, <1>a, <2>7, <3>4, <4>2 DEF CountsNear
        <5>3. StagedNumbers(file) = <<>> => CountsFound'
          BY <1>1, <1>2, <1>a, <1>b, <2>2, <2>4, <2>6, <3>4, <4>2, <5>1 DEF CountsFound, Among
        <5>4. edits > n - 2 => CountsNear'
          BY <1>1, <1>2, <1>a, <1>b, <2>2, <2>4, <2>6, <3>4, <4>2, <5>1 DEF CountsNear, AtLeast
        <5>5. QED
          BY <5>2, <5>3, <5>4 DEF AtLeast
      <4>3. QED
        BY <1>2, <1>a, <1>b, <4>1, <4>2
    <3>5. QED
      BY <1>4, <3>2, <3>3, <3>4
  <2>8. CountsInv'
    <3>1. \A i \in {2, 4, 6} : i <= n + 1 /\ (kind = "deferred" \/ ~reads[1][1]) => reads'[i] = <<>>
      BY <1>2, <1>a, <1>b, <1>5, <1>7, <2>2
    <3>2. \A i \in {3, 5, 7} : i <= n + 1 /\ (kind = "deferred" \/ ~reads[1][2]) => reads'[i] = <<>>
      BY <1>2, <1>a, <1>b, <1>5, <1>7, <2>2
    <3>3. insp'.pass = 3 => reads'[4] = reads'[2] /\ reads'[5] = reads'[3]
      BY <1>2, <1>a, <1>5, <2>2
    <3>4. insp'.pc \in {"fresh", "compare"}
      BY <1>2, <1>a, <1>b, <2>2
    <3>5. QED
      BY <1>4, <1>5, <2>2, <2>5, <2>6, <2>7, <3>1, <3>2, <3>3, <3>4 DEF CountsInv
  <2>9. QED
    BY <2>2, <2>3, <2>8
<1>8. CASE insp.pc = "fresh" /\ (kind = "deferred" \/ ~reads[1][Section]) /\ Reads(<<>>, AfterSection)
  BY <1>7, <1>8
<1>9. CASE /\ insp.pc = "count"
           /\ Reads(IF Section = 1 THEN StagedNumbers(file) ELSE UnstagedNumbers(file), AfterSection)
  <2>1. kind # "deferred" /\ reads[1][Section]
    BY <1>2, <1>a, <1>b, <1>5, <1>9
  <2>2. QED
    BY <1>7, <1>9, <2>1
<1>10. QED
  BY <1>3, <1>6, <1>8, <1>9

\* A pass ends: what it read is what the one before it read.
LEMMA ShownCompares ==
  ASSUME ShownInv, PassEnds
  PROVE  ShownInv'
<1> USE DEF ShownInv, InventoryPoints, ClassifyPoints, CountPoints, ReadingPoints
<1>1. /\ insp.pc = "compare" /\ insp.op \in {"classification", "diff"} /\ insp \in Inspections
      /\ file \in seen /\ answer.op = "none" /\ UNCHANGED <<kind, file, edits, seen, reads, answer>>
      /\ HasRead(1, 3) \/ HasRead(2, 5) \/ HasRead(3, 7)
  BY DEF PassEnds, PlaceInv, ShownTypes
<1>2. PICK n \in {3, 5, 7} : Len(reads) = n /\ insp.pass = (n - 1) \div 2
  BY <1>1 DEF HasRead
<1>3. /\ insp'.pc = (IF insp.pass = 3 THEN "refresh" ELSE "pass") /\ insp'.op = insp.op
      /\ insp'.pass = (IF insp.pass < 3 THEN insp.pass + 1 ELSE insp.pass)
      /\ insp' \in Inspections
  <2>1. insp' = [insp EXCEPT !.pc = IF insp.pass = 3 THEN "refresh" ELSE "pass",
                             !.pass = IF insp.pass < 3 THEN insp.pass + 1 ELSE insp.pass]
    BY DEF PassEnds
  <2>2. /\ insp.op \in {"none", "inventory", "classification", "diff"} /\ insp.pass \in 1..3
        /\ insp.w \in Worktrees \union {Idle.w}
        /\ insp = [op |-> insp.op, w |-> insp.w, pc |-> insp.pc, pass |-> insp.pass]
    BY <1>1 DEF Inspections
  <2>3. insp' = [op |-> insp.op, w |-> insp.w, pc |-> IF insp.pass = 3 THEN "refresh" ELSE "pass",
                 pass |-> IF insp.pass < 3 THEN insp.pass + 1 ELSE insp.pass]
    BY <2>1, <2>2
  <2>4. (IF insp.pass < 3 THEN insp.pass + 1 ELSE insp.pass) \in 1..3
    BY <2>2
  <2>5. QED
    BY <2>2, <2>3, <2>4 DEF Inspections
<1>4. /\ n = 5 => reads[5] = reads[3] /\ reads[4] = reads[2]
      /\ n = 7 => reads[7] = reads[5] /\ reads[6] = reads[4]
  BY <1>2 DEF PassEnds
<1>5. ShownTypes' /\ PlaceInv' /\ InventoryInv' /\ DiffInv' /\ ShownWasReal'
  <2>1. ShownTypes'
    BY <1>1, <1>3 DEF ShownTypes
  <2>2. PlaceInv'
    BY <1>1, <1>2, <1>3 DEF PlaceInv, HasRead
  <2>3. InventoryInv' /\ DiffInv' /\ ShownWasReal'
    BY <1>1, <1>2, <1>3 DEF InventoryInv, DiffInv, ShownWasReal
  <2>4. QED
    BY <2>1, <2>2, <2>3
<1>6. CountsInv'
  <2>1. \A f : StagedNumbers(f)' = StagedNumbers(f) /\ UnstagedNumbers(f)' = UnstagedNumbers(f)
    BY <1>1 DEF StagedNumbers, UnstagedNumbers, Numbers
  <2>2. CountsFound => CountsFound'
    BY <1>1, <2>1 DEF CountsFound, Among
  <2>3. CountsNear => CountsNear'
    BY <1>1, <1>2, <1>3, <2>1
    DEF CountsNear, AtLeast, StagedNumbers, UnstagedNumbers, Numbers
  <2>4. QED
    BY <1>1, <1>2, <1>3, <1>4, <2>2, <2>3 DEF CountsInv
<1>7. QED
  BY <1>5, <1>6

\* The rows are read once more.
LEMMA ShownRefresh ==
  ASSUME ShownInv, Refresh
  PROVE  ShownInv'
<1> USE DEF ShownInv, InventoryPoints, ClassifyPoints, CountPoints, ReadingPoints
<1>1. /\ insp.pc = "refresh" /\ insp.op \in {"classification", "diff"} /\ HasRead(3, 7)
      /\ file \in seen /\ answer.op = "none" /\ UNCHANGED <<kind, file, edits, seen, reads, answer>>
  BY DEF Refresh, PlaceInv
<1>2. insp'.pc = "final" /\ insp'.op = insp.op /\ insp'.pass = insp.pass /\ insp' \in Inspections
  BY GoesTo DEF Refresh, ShownTypes
<1>3. ShownTypes' /\ PlaceInv' /\ InventoryInv' /\ DiffInv' /\ ShownWasReal'
  BY <1>1, <1>2 DEF ShownTypes, PlaceInv, HasRead, InventoryInv, DiffInv, ShownWasReal
<1>4. CountsInv'
  <2>1. \A f : StagedNumbers(f)' = StagedNumbers(f) /\ UnstagedNumbers(f)' = UnstagedNumbers(f)
    BY <1>1 DEF StagedNumbers, UnstagedNumbers, Numbers
  <2>2. CountsFound => CountsFound'
    BY <1>1, <2>1 DEF CountsFound, Among
  <2>3. CountsNear => CountsNear'
    BY <1>1, <1>2, <2>1 DEF CountsNear, AtLeast, StagedNumbers, UnstagedNumbers, Numbers
  <2>4. QED
    BY <1>1, <1>2, <2>2, <2>3 DEF CountsInv, HasRead
<1>5. QED
  BY <1>3, <1>4

\* Two readings that follow each other.
LEMMA PairOf ==
  ASSUME NEW S, NEW s \in Seq(S), NEW m \in Nat \ {0}, NEW n \in Nat, n = m + 1, n <= Len(s)
  PROVE  SubSeq(s, m, n) = <<s[m], s[n]>>
<1> DEFINE t == SubSeq(s, m, n)
<1>1. t \in Seq(S) /\ Len(t) = 2 /\ t[1] = s[m] /\ t[2] = s[n]
  BY SubSeqProperties
<1> HIDE DEF t
<1>2. t = [i \in 1..2 |-> t[i]]
  BY <1>1
<1>3. t = <<t[1], t[2]>>
  BY <1>2
<1>4. QED
  BY <1>1, <1>3 DEF t

\* What three passes agree on is shown, or a diff begins.
LEMMA ShownFinal ==
  ASSUME ShownInv, FinalValidation
  PROVE  ShownInv'
<1> USE DEF ShownInv, InventoryPoints, ClassifyPoints, CountPoints, ReadingPoints
<1>1. /\ insp.pc = "final" /\ insp.op \in {"classification", "diff"} /\ Len(reads) = 7 /\ insp.pass = 3
      /\ file \in seen /\ answer.op = "none" /\ UNCHANGED <<kind, file, edits, seen>>
      /\ insp \in Inspections /\ kind \in {"text", "binary", "deferred"}
  BY DEF FinalValidation, Returns, PlaceInv, HasRead, ShownTypes
<1>2. CASE insp' = Idle /\ answer' = [op |-> "classification", is |-> SubSeq(reads, 6, 7)]
           /\ reads' = <<>>
  <2>1. SubSeq(reads, 6, 7) = <<reads[6], reads[7]>>
    <3>1. PICK S : reads \in Seq(S)
      BY DEF ShownTypes
    <3>2. QED
      BY <1>1, <3>1, PairOf
  <2>2. /\ reads[4] = reads[2] /\ reads[6] = reads[4] /\ reads[5] = reads[3] /\ reads[7] = reads[5]
        /\ kind = "deferred" \/ ~reads[1][1] => reads[6] = <<>>
        /\ kind = "deferred" \/ ~reads[1][2] => reads[7] = <<>>
        /\ kind # "deferred" => CountsFound \/ CountsNear
    BY <1>1 DEF CountsInv
  <2>3. kind # "deferred" /\ CountsNear => edits >= 5
    BY <1>1 DEF CountsNear, AtLeast
  <2>4. ASSUME kind # "deferred", CountsFound
        PROVE  \E f \in seen : <<reads[6], reads[7]>> = <<StagedNumbers(f), UnstagedNumbers(f)>>
    <3>1. PICK f \in seen :
            /\ IF reads[1][1] THEN Among({2, 4, 6}, StagedNumbers(f)) ELSE StagedNumbers(f) = <<>>
            /\ IF reads[1][2] THEN Among({3, 5, 7}, UnstagedNumbers(f)) ELSE UnstagedNumbers(f) = <<>>
      BY <2>4 DEF CountsFound
    <3>2. reads[6] = StagedNumbers(f)
      BY <2>2, <3>1 DEF Among
    <3>3. reads[7] = UnstagedNumbers(f)
      BY <2>2, <3>1 DEF Among
    <3>4. QED
      BY <3>2, <3>3
  <2>5. kind = "deferred" => <<reads[6], reads[7]>> = <<StagedNumbers(file), UnstagedNumbers(file)>>
    BY <2>2 DEF StagedNumbers, UnstagedNumbers, Numbers
  <2>6. edits < 5 => \E f \in seen :
          <<reads[6], reads[7]>> = <<StagedNumbers(f), UnstagedNumbers(f)>>
    <3>1. edits \in Nat
      BY DEF ShownTypes
    <3>2. QED
      BY <1>1, <2>2, <2>3, <2>4, <2>5, <3>1
  <2>7. \A f : StagedNumbers(f)' = StagedNumbers(f) /\ UnstagedNumbers(f)' = UnstagedNumbers(f)
    BY <1>1 DEF StagedNumbers, UnstagedNumbers, Numbers
  <2>8. answer'.op = "classification" /\ answer'.is = <<reads[6], reads[7]>>
    BY <1>2, <2>1
  <2>9. ShownWasReal'
    BY <1>1, <2>6, <2>7, <2>8 DEF ShownWasReal, Result, Deceiving
  <2>10. reads' \in Seq({})
    BY <1>2
  <2>11. QED
    BY <1>1, <1>2, <2>9, <2>10, ShownEnds
<1>3. CASE /\ kind = "text" /\ insp' = [insp EXCEPT !.pc = "capture", !.pass = 1]
           /\ reads' = <<>> /\ UNCHANGED answer
  <2>1. insp'.pc = "capture" /\ insp'.op = insp.op /\ insp' \in Inspections
    <3>1. insp = [op |-> insp.op, w |-> insp.w, pc |-> insp.pc, pass |-> insp.pass]
          /\ insp.op \in {"none", "inventory", "classification", "diff"}
          /\ insp.w \in Worktrees \union {Idle.w}
      BY <1>1 DEF Inspections
    <3>2. insp' = [op |-> insp.op, w |-> insp.w, pc |-> "capture", pass |-> 1]
      BY <1>3, <3>1
    <3>3. QED
      BY <3>1, <3>2 DEF Inspections
  <2>2. reads' \in Seq({}) /\ Len(reads') = 0
    BY <1>3
  <2>3. ShownTypes'
    BY <1>1, <2>1, <2>2 DEF ShownTypes
  <2>4. PlaceInv' /\ InventoryInv' /\ CountsInv' /\ DiffInv' /\ ShownWasReal'
    BY <1>1, <1>3, <2>1, <2>2 DEF PlaceInv, InventoryInv, CountsInv, DiffInv, ShownWasReal
  <2>5. QED
    BY <2>3, <2>4
<1>4. Len(reads) - 1 = 6
  BY <1>1
<1>5. QED
  BY <1>1, <1>2, <1>3, <1>4 DEF FinalValidation, Returns

\* Two inventories that agree are shown.
LEMMA ShownInventoryReturns ==
  ASSUME ShownInv, InventoryReturns
  PROVE  ShownInv'
<1> USE DEF ShownInv, InventoryPoints
<1>1. /\ insp.pc = "owned" /\ Len(reads) = 6 /\ UNCHANGED <<kind, file, edits, seen>>
      /\ answer' = [op |-> "inventory", is |-> <<reads[2], reads[3]>>] /\ insp' = Idle /\ reads' = <<>>
  BY DEF InventoryReturns, Returns, PlaceInv
<1>2. reads[1] = reads[4] /\ reads[2] = reads[5] /\ reads[3] = reads[6]
  <2>1. DOMAIN reads = 1..6
    BY <1>1 DEF ShownTypes
  <2>2. QED
    BY <2>1 DEF InventoryReturns
<1>3. InventoryFound \/ edits >= 4
  BY <1>1, <1>2 DEF InventoryInv
<1>4. InventoryFound => \E f \in seen : <<reads[2], reads[3]>> = <<Staged(f), Unstaged(f)>>
  BY <1>1, <1>2 DEF InventoryFound
<1>5. edits \in Nat /\ answer'.op = "inventory" /\ answer'.is = <<reads[2], reads[3]>>
  BY <1>1 DEF ShownTypes
<1>6. ShownWasReal'
  BY <1>1, <1>3, <1>4, <1>5 DEF ShownWasReal, Result, Status, Deceiving
<1>7. reads' \in Seq({})
  BY <1>1
<1>8. QED
  BY <1>1, <1>6, <1>7, ShownEnds

\* A capture reads one section of the diff, the staged one first.
LEMMA ShownCapture ==
  ASSUME ShownInv, Capture
  PROVE  ShownInv'
<1> USE DEF ShownInv, InventoryPoints, ClassifyPoints, CountPoints, ReadingPoints
<1> DEFINE r == IF Len(reads) % 2 = 0 THEN StagedNumbers(file) ELSE UnstagedNumbers(file)
<1>1. /\ insp.pc = "capture" /\ Reads(r, "capture") /\ kind = "text" /\ file \in seen
      /\ answer.op = "none" /\ edits \in Nat
  BY DEF Capture, PlaceInv, ShownTypes
<1>2. PICK n \in 0..5 : Len(reads) = n
  <2>1. PICK n \in 0..6 : Len(reads) = n
    BY <1>1 DEF PlaceInv
  <2>2. n \in 0..5
    BY <2>1 DEF Capture
  <2>3. QED
    BY <2>1, <2>2
<1>3. r = IF n \in {0, 2, 4} THEN StagedNumbers(file) ELSE UnstagedNumbers(file)
  BY <1>2
<1> HIDE DEF r
<1>4. /\ UNCHANGED <<kind, file, edits, seen, answer>> /\ ShownTypes'
      /\ insp'.pc = "capture" /\ Len(reads') = n + 1 /\ reads'[n + 1] = r
      /\ \A i \in 1..n : reads'[i] = reads[i]
  BY <1>1, <1>2, ReadsOn
<1>5. PlaceInv' /\ InventoryInv' /\ CountsInv' /\ ShownWasReal'
  BY <1>1, <1>2, <1>4 DEF PlaceInv, InventoryInv, CountsInv, ShownWasReal
<1>6. \A f : StagedNumbers(f)' = StagedNumbers(f) /\ UnstagedNumbers(f)' = UnstagedNumbers(f)
  BY <1>4 DEF StagedNumbers, UnstagedNumbers, Numbers
<1>7. DiffInv'
  <2>1. DiffFound => DiffFound'
    BY <1>2, <1>4, <1>6 DEF DiffFound, Among
  <2>2. n # 0 /\ reads[n] = (IF n \in {1, 3, 5} THEN StagedNumbers(file) ELSE UnstagedNumbers(file))
          => DiffFound'
    BY <1>1, <1>2, <1>3, <1>4, <1>6 DEF DiffFound, Among
  <2>3. n = 0 \/ edits > n - 1 => DiffInv'
    BY <1>1, <1>2, <1>3, <1>4, <1>6 DEF DiffInv, AtLeast
  <2>4. n = 0 \/ DiffFound
        \/ AtLeast(n - 1, reads[n] = IF n \in {1, 3, 5} THEN StagedNumbers(file)
                                     ELSE UnstagedNumbers(file))
    BY <1>1, <1>2 DEF DiffInv
  <2>5. DiffFound' => DiffInv'
    BY DEF DiffInv
  <2>6. QED
    BY <2>1, <2>2, <2>3, <2>4, <2>5 DEF AtLeast
<1>8. QED
  BY <1>4, <1>5, <1>7

\* Three captures that agree are shown.
LEMMA ShownDiff ==
  ASSUME ShownInv, DiffReturns
  PROVE  ShownInv'
<1> USE DEF ShownInv
<1>1. /\ insp.pc = "capture" /\ Len(reads) = 6 /\ UNCHANGED <<kind, file, edits, seen>>
      /\ answer' = [op |-> "diff", is |-> SubSeq(reads, 5, 6)] /\ insp' = Idle /\ reads' = <<>>
      /\ reads[1] = reads[3] /\ reads[2] = reads[4] /\ reads[3] = reads[5] /\ reads[4] = reads[6]
  BY DEF DiffReturns, Returns
<1>2. SubSeq(reads, 5, 6) = <<reads[5], reads[6]>>
  <2>1. PICK S : reads \in Seq(S)
    BY DEF ShownTypes
  <2>2. QED
    BY <1>1, <2>1, PairOf
<1>3. DiffFound \/ edits >= 5
  BY <1>1 DEF DiffInv, AtLeast
<1>4. DiffFound => \E f \in seen : <<reads[5], reads[6]>> = <<StagedNumbers(f), UnstagedNumbers(f)>>
  BY <1>1 DEF DiffFound, Among
<1>5. edits \in Nat /\ answer'.op = "diff" /\ answer'.is = <<reads[5], reads[6]>>
  BY <1>1, <1>2 DEF ShownTypes
<1>6. \A f : StagedNumbers(f)' = StagedNumbers(f) /\ UnstagedNumbers(f)' = UnstagedNumbers(f)
  BY <1>1 DEF StagedNumbers, UnstagedNumbers, Numbers
<1>7. ShownWasReal'
  BY <1>1, <1>3, <1>4, <1>5, <1>6 DEF ShownWasReal, Result, Deceiving
<1>8. reads' \in Seq({})
  BY <1>1
<1>9. QED
  BY <1>1, <1>7, <1>8, ShownEnds

LEMMA ShownStep == ShownInv /\ [Next]_vars => ShownInv'
<1> SUFFICES ASSUME ShownInv, [Next]_vars PROVE ShownInv'
  OBVIOUS
<1>1. CASE (WorktreeNext /\ UNCHANGED inspectVars) \/ UNCHANGED vars
  BY <1>1, ShownRests DEF vars, inspectVars
<1>2. CASE Edit
  BY <1>2, ShownEdit
<1>3. CASE \E w \in Worktrees, op \in {"inventory", "classification", "diff"} : InspectReads(w, op)
  BY <1>3, ShownBegins
<1>4. CASE InspectTakes
  BY <1>4, ShownTakes
\* An error leaves no answer, and neither does a crash.
<1>5. CASE InspectFails \/ Crash
  <2>1. insp' = Idle /\ answer' = NoAnswer /\ reads' = <<>> /\ UNCHANGED <<kind, file, edits>>
    BY <1>5 DEF InspectFails, Returns, Crash
  <2>2. reads' \in Seq({}) /\ ShownWasReal'
    BY <2>1 DEF NoAnswer, ShownWasReal
  <2>3. QED
    BY <2>1, <2>2, ShownEnds
<1>6. CASE InventoryBefore \/ InventoryStaged \/ InventoryUnstaged \/ InventoryAfter \/ InventoryAgain
  BY <1>6, ShownInventory
<1>7. CASE InventoryReturns
  BY <1>7, ShownInventoryReturns
<1>8. CASE PassBegins
  BY <1>8, ShownPass
<1>9. CASE ClassifySkips \/ ClassifyFresh \/ ClassifyCounts
  BY <1>9, ShownCounts
<1>10. CASE PassEnds \/ Refresh \/ FinalValidation
  BY <1>10, ShownCompares, ShownRefresh, ShownFinal
<1>11. CASE Capture \/ DiffReturns
  BY <1>11, ShownCapture, ShownDiff
<1>12. QED
  BY <1>1, <1>2, <1>3, <1>4, <1>5, <1>6, <1>7, <1>8, <1>9, <1>10, <1>11 DEF Next, Inspect

LEMMA ShownInit == Init => ShownInv
<1> SUFFICES ASSUME Init PROVE ShownInv
  OBVIOUS
<1>1. /\ insp = Idle /\ insp.pc = "idle" /\ insp \in Inspections /\ answer.op = "none"
      /\ reads \in Seq({}) /\ edits \in Nat /\ file \in Files
      /\ kind \in {"text", "binary", "deferred"}
  BY DEF Init, InspectInit, Idle, Inspections, NoAnswer
<1>2. QED
  BY <1>1 DEF ShownInv, ShownTypes, PlaceInv, InventoryInv, CountsInv, DiffInv, ShownWasReal,
              InventoryPoints, ClassifyPoints, CountPoints

\* What is shown of a file is what the file was at one moment of the inspection,
\* however the agent edits it meanwhile, short of as many edits as there are
\* readings to deceive: changed and changed back between each two of them
\* (inspect_worktree_changes_locked, collect_b1_classification_evidence and
\* inspect_textual_diff).
THEOREM ShownIsReal == Spec => []ShownWasReal
<1>1. ShownInv => ShownWasReal
  BY DEF ShownInv
<1>2. QED
  BY <1>1, ShownInit, ShownStep, PTL DEF Spec

===============================================================================
