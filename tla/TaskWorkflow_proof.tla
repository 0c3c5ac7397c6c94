-------------------------- MODULE TaskWorkflow_proof --------------------------
(***************************************************************************)
(* Theorems about TaskWorkflow, for every value of its constants: every    *)
(* mix of providers and modes, any number of blockers, repair rounds,      *)
(* retries, edits and restarts.                                            *)
(*                                                                         *)
(* The safety properties are not inductive by themselves; each gets the    *)
(* facts about the running call that make it so.  The gate, the pick and   *)
(* the owner come first, then the refinement of HumanGate, then what the   *)
(* stages rely on: the store, the tree they work on and the repairs.       *)
(***************************************************************************)
EXTENDS TaskWorkflow, TLAPS

\* The lifecycles past the gate.
PastGate == {"ReadyForHuman", "Integrating", "Integrated", "Finalized"}

\* The points a call is at while findings are being recorded and repaired.
ReviewPoints == {"rereview", "reviewer", "dispose", "persist", "confirm",
                 "repair", "fix"}

\* The points that are reached only by way of the evidence check.
GatePoints == {"verify", "final", "offer", "integrate", "commit", "pick",
               "record", "finish"}

Clean == gen > 0 /\ NoOpenBlocker

\* Why GateIsClean holds: the running call cannot be adding a finding to a
\* task past the gate, a call past the evidence check runs on clean evidence,
\* and a restart remembers a gate only of a task whose evidence is clean.
GateInv ==
  /\ lc # "DiscardPending"
  /\ pc \in ReviewPoints => lc \notin PastGate
  /\ pc \in GatePoints => Clean
  /\ pc = "recover" /\ was \in PastGate => Clean

\* Why PickedAtMostOnce holds: nothing is integrated but onto the commit the
\* worktree was made from, and a pick moves the target off it.
PickInv ==
  /\ merged # << >> => target > 0
  /\ pc \in {"integrate", "commit", "pick"} => mode = "auto_integrate"
  /\ /\ mode = "auto_integrate"
     /\ pc \in {"verify", "final", "offer", "integrate", "commit", "pick"}
     => expect = 0

\* Why RecoveringHasNoOwner holds: a supervisor that is being built owns
\* nothing, and no call that takes ownership runs on a task in recovery.
OwnerInv ==
  /\ pc \in {"down", "boot"} => ~owned
  /\ lc = "Recovering" => pc \in {"idle", "down", "boot", "recover", "retry"}

IInv == /\ TypeOK
        /\ GateIsClean /\ GateInv
        /\ PickedAtMostOnce /\ PickInv
        /\ RecoveringHasNoOwner /\ OwnerInv

-------------------------------------------------------------------------------
\* Type correctness: first the steps that rebuild a set of findings, the
\* rounds, the packet or the approvals.

\* A restored task and its reconciled sessions.
LEMMA RestoreType ==
  ASSUME TypeOK, Restore
  PROVE  TaskType' /\ SessionType'
<1>1. CASE Terminal \/ lc = "Draft"
  BY <1>1 DEF Restore, TypeOK, TaskType, SessionType, taskVars, sessionVars
<1>2. CASE ~(Terminal \/ lc = "Draft")
  <2>1. TaskType'
    BY <1>2 DEF Restore, Enter, TypeOK, TaskType, TaskLifecycle
  <2>2. /\ impl' \in SessionLifecycle \union {"none"}
        /\ aux' \subseteq SessionLifecycle
    BY <1>2 DEF Restore, Reconciled, TypeOK, SessionType, SessionLifecycle
  <2>3. UNCHANGED <<apiRef, turnDone>>
    BY <1>2 DEF Restore
  <2> QED
    BY <2>1, <2>2, <2>3 DEF TypeOK, SessionType
<1> QED
  BY <1>1, <1>2

\* A finding stays one when its disposition or its round is replaced.
LEMMA FindingUpdate ==
  ASSUME NEW f \in Finding
  PROVE  /\ \A d \in Disposition : [f EXCEPT !.disp = d] \in Finding
         /\ \A n \in RoundIds : [f EXCEPT !.round = n] \in Finding
BY DEF Finding

\* The evidence a packet is bound to is a digest.
LEMMA EvidenceIsDigest ==
  ASSUME EvidenceType, DiskType
  PROVE  Evidence \in Digest
BY DEF EvidenceType, DiskType, Evidence, Digest

\* Settling the repaired findings and their rounds.
LEMMA DisposeType ==
  ASSUME TypeOK, DisposeRepaired
  PROVE  EvidenceType'
<1> DEFINE verdict(f) == IF f.issue \in cands THEN "Dismissed" ELSE "Repaired"
           settle(f)  == IF SentToRepair(f) THEN [f EXCEPT !.disp = verdict(f)]
                                            ELSE f
<1>1. ASSUME NEW f \in findings
      PROVE  settle(f) \in Finding
  <2>1. f \in Finding
    BY DEF TypeOK, EvidenceType
  <2>2. verdict(f) \in Disposition
    BY DEF Disposition
  <2> QED
    BY <2>1, <2>2, FindingUpdate
<1>2. findings' = {settle(f) : f \in findings}
  BY DEF DisposeRepaired
<1>3. findings' \subseteq Finding
  BY <1>1, <1>2
<1>4. rounds' \in Rounds
  BY DEF TypeOK, EvidenceType, DisposeRepaired, Rounds, RoundLifecycle
<1> QED
  BY <1>3, <1>4 DEF TypeOK, EvidenceType, DisposeRepaired

\* Recording what the reviewer reported.
LEMMA PersistType ==
  ASSUME TypeOK, PersistFindings
  PROVE  EvidenceType'
<1>1. ASSUME NEW i \in cands
      PROVE  [issue |-> i, gen |-> gen, disp |-> "Reported", round |-> 0]
               \in Finding
  BY <1>1 DEF TypeOK, EvidenceType, LocalType, Finding, Disposition
<1>2. findings' \subseteq Finding
  BY <1>1 DEF TypeOK, EvidenceType, PersistFindings
<1> QED
  BY <1>2 DEF TypeOK, EvidenceType, PersistFindings

\* Confirming the blockers.
LEMMA ConfirmType ==
  ASSUME TypeOK, ConfirmFindings
  PROVE  EvidenceType'
<1> DEFINE confirm(f) == IF f.disp = "Reported" /\ f.issue \notin Stray
                         THEN [f EXCEPT !.disp = "ConfirmedBlocking"] ELSE f
<1>1. ASSUME NEW f \in findings
      PROVE  confirm(f) \in Finding
  <2>1. f \in Finding
    BY DEF TypeOK, EvidenceType
  <2>2. "ConfirmedBlocking" \in Disposition
    BY DEF Disposition
  <2> QED
    BY <2>1, <2>2, FindingUpdate
<1>2. findings' = {confirm(f) : f \in findings}
  BY DEF ConfirmFindings
<1>3. findings' \subseteq Finding
  BY <1>1, <1>2
<1> QED
  BY <1>3 DEF TypeOK, EvidenceType, ConfirmFindings

\* Opening a repair round for a finding.
LEMMA StartRepairType ==
  ASSUME TypeOK, StartRepair
  PROVE  EvidenceType'
<1>1. PICK n \in RoundIds, f \in Repairable :
        /\ rounds' = [rounds EXCEPT ![n] = "Active"]
        /\ findings' = (findings \ {f}) \union {[f EXCEPT !.round = n]}
  BY DEF StartRepair
<1>2. f \in Finding
  BY DEF TypeOK, EvidenceType, Repairable, Confirmed
<1>3. findings' \subseteq Finding
  BY <1>1, <1>2, FindingUpdate DEF TypeOK, EvidenceType
<1>4. rounds' \in Rounds
  BY <1>1 DEF TypeOK, EvidenceType, Rounds, RoundLifecycle
<1> QED
  BY <1>3, <1>4 DEF TypeOK, EvidenceType, StartRepair

\* The packet that is bound is the evidence, a digest.
LEMMA BindType ==
  ASSUME TypeOK, BindEvidence
  PROVE  GateType'
BY EvidenceIsDigest DEF TypeOK, GateType, BindEvidence

\* The approval that is offered is a pending one of that packet.
LEMMA OfferType ==
  ASSUME TypeOK, OfferApproval
  PROVE  GateType'
<1>1. ASSUME NEW e \in packet
      PROVE  [ev |-> e, st |-> "Pending"] \in Approval
  BY DEF TypeOK, GateType, Approval, ApprovalLifecycle
<1> QED
  BY <1>1 DEF TypeOK, GateType, OfferApproval

\* A decision replaces an approval by one with the same evidence.
LEMMA DecideType ==
  ASSUME TypeOK, Decide
  PROVE  GateType'
<1>1. PICK a \in Offered, st \in {"Approved", "Denied"} :
        approvals' = (approvals \ {a}) \union {[a EXCEPT !.st = st]}
  BY DEF Decide
<1>2. a \in Approval
  BY DEF TypeOK, GateType, Offered, Pending
<1>3. [a EXCEPT !.st = st] \in Approval
  BY <1>2 DEF Approval, ApprovalLifecycle
<1> QED
  BY <1>1, <1>3 DEF TypeOK, GateType, Decide

\* Every step keeps the types.
LEMMA TypeStep ==
  ASSUME TypeOK, [Next]_vars
  PROVE  TypeOK'
<1>1. CASE OrphanExits
  <2>1. ProcType'
    BY <1>1 DEF TypeOK, ProcType, OrphanExits
  <2>2. /\ TaskType' /\ SessionType' /\ EvidenceType' /\ GateType'
        /\ DiskType' /\ HostType' /\ LocalType'
    BY <1>1
    DEF TypeOK, TaskType, SessionType, EvidenceType, GateType, DiskType,
        HostType, LocalType, OrphanExits, taskVars, sessionVars, evidenceVars,
        gateVars, diskVars, hostVars, localVars
  <2> QED
    BY <1>1, <2>1, <2>2 DEF TypeOK
<1>2. CASE PollExitedOmp
  <2>1. HostType'
    BY <1>2 DEF TypeOK, HostType, PollExitedOmp
  <2>2. TaskType' /\ SessionType'
    <3>1. CASE turnDone
      BY <1>2, <3>1 DEF TypeOK, TaskType, SessionType, PollExitedOmp, taskVars,
                       sessionVars
    <3>2. CASE ~turnDone
      BY <1>2, <3>2, RestoreType DEF PollExitedOmp
    <3> QED
      BY <3>1, <3>2
  <2>3. EvidenceType' /\ GateType' /\ DiskType' /\ ProcType' /\ LocalType'
    BY <1>2 DEF TypeOK, EvidenceType, GateType, DiskType, ProcType, LocalType,
               PollExitedOmp, evidenceVars, gateVars, diskVars, localVars
  <2> QED
    BY <2>1, <2>2, <2>3 DEF TypeOK
<1>3. CASE ReapApiRun
  <2>1. HostType'
    BY <1>3 DEF TypeOK, HostType, ReapApiRun
  <2>2. /\ TaskType' /\ SessionType' /\ EvidenceType' /\ GateType'
        /\ DiskType' /\ ProcType' /\ LocalType'
    BY <1>3
    DEF TypeOK, TaskType, SessionType, EvidenceType, GateType, DiskType,
        ProcType, LocalType, ReapApiRun, taskVars, sessionVars, evidenceVars,
        gateVars, diskVars, procVars, localVars
  <2> QED
    BY <1>3, <2>1, <2>2 DEF TypeOK
<1>4. CASE CompleteImplementing
  <2>1. HostType'
    BY <1>4 DEF TypeOK, HostType, CompleteImplementing
  <2>2. /\ TaskType' /\ SessionType' /\ EvidenceType' /\ GateType'
        /\ DiskType' /\ ProcType' /\ LocalType'
    BY <1>4
    DEF TypeOK, TaskType, SessionType, EvidenceType, GateType, DiskType,
        ProcType, LocalType, CompleteImplementing, Enter, TaskLifecycle,
        SessionLifecycle, ImplementingDone, taskVars, sessionVars,
        evidenceVars, gateVars, diskVars, procVars, localVars
  <2> QED
    BY <1>4, <2>1, <2>2 DEF TypeOK
<1>5. CASE ReleaseFails
  <2>1. HostType'
    BY <1>5 DEF TypeOK, HostType, ReleaseFails, Abandon
  <2>2. ProcType'
    BY <1>5 DEF TypeOK, ProcType, ReleaseFails, Abandon
  <2>3. /\ TaskType' /\ SessionType' /\ EvidenceType' /\ GateType'
        /\ DiskType' /\ LocalType'
    BY <1>5
    DEF TypeOK, TaskType, SessionType, EvidenceType, GateType, DiskType,
        LocalType, ReleaseFails, Abandon, taskVars, sessionVars, evidenceVars,
        gateVars, diskVars, localVars
  <2> QED
    BY <1>5, <2>1, <2>2, <2>3 DEF TypeOK
<1>6. CASE DisposeRepaired
  <2>1. EvidenceType'
    BY <1>6, DisposeType
  <2>2. /\ TaskType' /\ SessionType' /\ GateType' /\ DiskType'
        /\ ProcType' /\ HostType' /\ LocalType'
    BY <1>6
    DEF TypeOK, TaskType, SessionType, GateType, DiskType, ProcType, HostType,
        LocalType, DisposeRepaired, Goto, Points, taskVars, sessionVars,
        gateVars, diskVars, procVars, hostVars, localVars
  <2> QED
    BY <1>6, <2>1, <2>2 DEF TypeOK
<1>7. CASE PersistFindings
  <2>1. EvidenceType'
    BY <1>7, PersistType
  <2>2. /\ TaskType' /\ SessionType' /\ GateType' /\ DiskType'
        /\ ProcType' /\ HostType' /\ LocalType'
    BY <1>7
    DEF TypeOK, TaskType, SessionType, GateType, DiskType, ProcType, HostType,
        LocalType, PersistFindings, Goto, Points, taskVars, sessionVars,
        gateVars, diskVars, procVars, hostVars, localVars
  <2> QED
    BY <1>7, <2>1, <2>2 DEF TypeOK
<1>8. CASE ConfirmFindings
  <2>1. EvidenceType'
    BY <1>8, ConfirmType
  <2>2. /\ TaskType' /\ SessionType' /\ GateType' /\ DiskType'
        /\ ProcType' /\ HostType' /\ LocalType'
    BY <1>8
    DEF TypeOK, TaskType, SessionType, GateType, DiskType, ProcType, HostType,
        LocalType, ConfirmFindings, Goto, Enter, TaskLifecycle, Points,
        taskVars, sessionVars, gateVars, diskVars, procVars, hostVars,
        localVars
  <2> QED
    BY <1>8, <2>1, <2>2 DEF TypeOK
<1>9. CASE StartRepair
  <2>1. EvidenceType'
    BY <1>9, StartRepairType
  <2>2. /\ TaskType' /\ SessionType' /\ GateType' /\ DiskType'
        /\ ProcType' /\ HostType' /\ LocalType'
    BY <1>9
    DEF TypeOK, TaskType, SessionType, GateType, DiskType, ProcType, HostType,
        LocalType, StartRepair, Goto, Points, taskVars, sessionVars, gateVars,
        diskVars, procVars, hostVars, localVars
  <2> QED
    BY <1>9, <2>1, <2>2 DEF TypeOK
<1>10. CASE SendRepair
  <2>1. HostType'
    <3>1. \A a, b : (a \/ b) \in BOOLEAN
      OBVIOUS
    <3>2. owned' \in BOOLEAN
      BY <1>10, <3>1 DEF SendRepair
    <3> QED
      BY <1>10, <3>2 DEF TypeOK, HostType, SendRepair
  <2>2. SessionType'
    BY <1>10
    DEF TypeOK, SessionType, SendRepair, RepairSession, SessionLifecycle
  <2>3. /\ TaskType' /\ EvidenceType' /\ GateType' /\ DiskType'
        /\ ProcType' /\ LocalType'
    BY <1>10
    DEF TypeOK, TaskType, EvidenceType, GateType, DiskType, ProcType,
        LocalType, SendRepair, Goto, Points, taskVars, evidenceVars, gateVars,
        diskVars, procVars, localVars
  <2> QED
    BY <1>10, <2>1, <2>2, <2>3 DEF TypeOK
<1>11. CASE RepairFails
  <2>1. HostType'
    BY <1>11 DEF TypeOK, HostType, RepairFails
  <2>2. ProcType'
    BY <1>11 DEF TypeOK, ProcType, RepairFails
  <2>3. SessionType'
    BY <1>11
    DEF TypeOK, SessionType, RepairFails, RepairSession, SessionLifecycle
  <2>4. EvidenceType'
    BY <1>11 DEF TypeOK, EvidenceType, RepairFails, FailStage, Stages, Errors
  <2>5. TaskType' /\ LocalType'
    BY <1>11
    DEF TypeOK, TaskType, LocalType, RepairFails, FailStage, Enter, Return,
        taskVars, Points, TaskLifecycle
  <2>6. GateType' /\ DiskType'
    BY <1>11 DEF TypeOK, GateType, DiskType, RepairFails, gateVars, diskVars
  <2> QED
    BY <1>11, <2>1, <2>2, <2>3, <2>4, <2>5, <2>6 DEF TypeOK
<1>12. CASE FinishRepair
  <2>1. EvidenceType'
    BY <1>12
    DEF TypeOK, EvidenceType, FinishRepair, Rounds, RoundLifecycle, Opened
  <2>2. /\ TaskType' /\ SessionType' /\ GateType' /\ DiskType'
        /\ ProcType' /\ HostType' /\ LocalType'
    BY <1>12
    DEF TypeOK, TaskType, SessionType, GateType, DiskType, ProcType, HostType,
        LocalType, FinishRepair, Enter, Return, TaskLifecycle, Points,
        taskVars, sessionVars, gateVars, diskVars, procVars, hostVars,
        localVars
  <2> QED
    BY <1>12, <2>1, <2>2 DEF TypeOK
<1>13. CASE BindEvidence
  <2>1. GateType'
    BY <1>13, BindType
  <2>2. /\ TaskType' /\ SessionType' /\ EvidenceType' /\ DiskType'
        /\ ProcType' /\ HostType' /\ LocalType'
    BY <1>13
    DEF TypeOK, TaskType, SessionType, EvidenceType, DiskType, ProcType,
        HostType, LocalType, BindEvidence, Goto, Enter, TaskLifecycle, Points,
        taskVars, sessionVars, evidenceVars, diskVars, procVars, hostVars,
        localVars
  <2> QED
    BY <1>13, <2>1, <2>2 DEF TypeOK
<1>14. CASE OfferApproval
  <2>1. GateType'
    BY <1>14, OfferType
  <2>2. /\ TaskType' /\ SessionType' /\ EvidenceType' /\ DiskType'
        /\ ProcType' /\ HostType' /\ LocalType'
    BY <1>14
    DEF TypeOK, TaskType, SessionType, EvidenceType, DiskType, ProcType,
        HostType, LocalType, OfferApproval, Return, TaskLifecycle, Points,
        taskVars, sessionVars, evidenceVars, diskVars, procVars, hostVars,
        localVars
  <2> QED
    BY <1>14, <2>1, <2>2 DEF TypeOK
<1>15. CASE Decide
  <2>1. GateType'
    BY <1>15, DecideType
  <2>2. /\ TaskType' /\ SessionType' /\ EvidenceType' /\ DiskType'
        /\ ProcType' /\ HostType' /\ LocalType'
    BY <1>15
    DEF TypeOK, TaskType, SessionType, EvidenceType, DiskType, ProcType,
        HostType, LocalType, Decide, Goto, Points, taskVars, sessionVars,
        evidenceVars, diskVars, procVars, hostVars, localVars
  <2> QED
    BY <1>15, <2>1, <2>2 DEF TypeOK
<1>16. CASE Shutdown
  <2>1. HostType' /\ ProcType'
    <3>1. HostType'
      BY <1>16 DEF TypeOK, HostType, Shutdown, Abandon
    <3>2. ProcType'
      BY <1>16 DEF TypeOK, ProcType, Shutdown, Abandon
    <3> QED
      BY <3>1, <3>2
  <2>2. TaskType' /\ SessionType'
    <3>1. CASE owned
      BY <1>16, <3>1, RestoreType DEF Shutdown
    <3>2. CASE ~owned
      BY <1>16, <3>2 DEF TypeOK, TaskType, SessionType, Shutdown, taskVars,
                       sessionVars
    <3> QED
      BY <3>1, <3>2
  <2>3. EvidenceType' /\ GateType' /\ DiskType' /\ LocalType'
    BY <1>16 DEF TypeOK, EvidenceType, GateType, DiskType, LocalType, Shutdown,
               Points, evidenceVars, gateVars, diskVars
  <2> QED
    BY <2>1, <2>2, <2>3 DEF TypeOK
<1>17. CASE Crash
  <2>1. HostType'
    BY <1>17 DEF TypeOK, HostType, Crash, Abandon
  <2>2. ProcType'
    BY <1>17 DEF TypeOK, ProcType, Crash, Abandon
  <2>3. /\ TaskType' /\ SessionType' /\ EvidenceType' /\ GateType'
        /\ DiskType' /\ LocalType'
    BY <1>17
    DEF TypeOK, TaskType, SessionType, EvidenceType, GateType, DiskType,
        LocalType, Crash, Points, TaskLifecycle, taskVars, sessionVars,
        evidenceVars, gateVars, diskVars, localVars
  <2> QED
    BY <1>17, <2>1, <2>2, <2>3 DEF TypeOK
<1>18. CASE ReselectRepository
  <2>1. HostType'
    <3>1. owned' \in BOOLEAN
      BY <1>18 DEF ReselectRepository, Abandon
    <3>2. lives' \in Nat
      BY <1>18 DEF TypeOK, HostType, ReselectRepository
    <3> QED
      BY <3>1, <3>2 DEF HostType
  <2>2. ProcType'
    BY <1>18 DEF TypeOK, ProcType, ReselectRepository, Abandon, procVars
  <2>3. /\ TaskType' /\ SessionType' /\ EvidenceType' /\ GateType'
        /\ DiskType' /\ LocalType'
    BY <1>18
    DEF TypeOK, TaskType, SessionType, EvidenceType, GateType, DiskType,
        LocalType, ReselectRepository, Goto, Points, taskVars, sessionVars,
        evidenceVars, gateVars, diskVars, localVars
  <2> QED
    BY <1>18, <2>1, <2>2, <2>3 DEF TypeOK
<1> USE DEF TypeOK, TaskType, SessionType, EvidenceType, GateType, DiskType,
           ProcType, HostType, LocalType, Points, Stages, Errors, Commit,
           SessionLifecycle, TaskLifecycle, Stale, Terminal, TaskTerminal,
           ImplementingDone, Reconciled, Enter, Goto, Return, FailStage,
           Restore, Abandon, RunProfile, vars, taskVars, sessionVars,
           evidenceVars, gateVars, diskVars, procVars, hostVars, localVars
<1>19. CASE StartTask  BY <1>19 DEF StartTask
<1>20. CASE CreateWorktree  BY <1>20 DEF CreateWorktree
<1>21. CASE WorktreeRefused  BY <1>21 DEF WorktreeRefused
<1>22. CASE OpenSession  BY <1>22 DEF OpenSession
<1>23. CASE LaunchFails  BY <1>23 DEF LaunchFails
<1>24. CASE EnterImplementing  BY <1>24 DEF EnterImplementing
<1>25. CASE TakeOwnership  BY <1>25 DEF TakeOwnership
<1>26. CASE TurnStartFails  BY <1>26 DEF TurnStartFails
<1>27. CASE ProviderEdits  BY <1>27 DEF ProviderEdits
<1>28. CASE ProviderCommits  BY <1>28 DEF ProviderCommits
<1>29. CASE TurnCompletes  BY <1>29 DEF TurnCompletes
<1>30. CASE ChildExits  BY <1>30 DEF ChildExits
<1>31. CASE ApiRunFails  BY <1>31 DEF ApiRunFails
<1>32. CASE TargetMoves  BY <1>32 DEF TargetMoves
<1>33. CASE SnapshotFails  BY <1>33 DEF SnapshotFails
<1>34. CASE StartValidation  BY <1>34 DEF StartValidation
<1>35. CASE NoProfile  BY <1>35 DEF NoProfile
<1>36. CASE ChecksPass  BY <1>36 DEF ChecksPass
<1>37. CASE ChecksReject  BY <1>37 DEF ChecksReject
<1>38. CASE ChecksFail  BY <1>38 DEF ChecksFail
<1>39. CASE BindGeneration  BY <1>39 DEF BindGeneration
<1>40. CASE StartReview  BY <1>40 DEF StartReview
<1>41. CASE StaleReview  BY <1>41 DEF StaleReview
<1>42. CASE ReviewReturns  BY <1>42 DEF ReviewReturns
<1>43. CASE ReviewFails  BY <1>43 DEF ReviewFails
<1>44. CASE MalformedFindings  BY <1>44 DEF MalformedFindings
<1>45. CASE RepairLimit  BY <1>45 DEF RepairLimit
<1>46. CASE RepairRefused  BY <1>46 DEF RepairRefused
<1>47. CASE RefuseAuto  BY <1>47 DEF RefuseAuto
<1>48. CASE CheckEvidence  BY <1>48 DEF CheckEvidence
<1>49. CASE EvidenceRefused  BY <1>49 DEF EvidenceRefused
<1>50. CASE FinalVerify  BY <1>50 DEF FinalVerify
<1>51. CASE FinalVerifyFails  BY <1>51 DEF FinalVerifyFails
<1>52. CASE BeginIntegration  BY <1>52 DEF BeginIntegration
<1>53. CASE IntegrateCheck  BY <1>53 DEF IntegrateCheck
<1>54. CASE CommitSource  BY <1>54 DEF CommitSource
<1>55. CASE CherryPick  BY <1>55 DEF CherryPick
<1>56. CASE RecordIntegration  BY <1>56 DEF RecordIntegration
<1>57. CASE FinishIntegration  BY <1>57 DEF FinishIntegration
<1>58. CASE BlockIntegration  BY <1>58 DEF BlockIntegration
<1>59. CASE FinishDecision  BY <1>59 DEF FinishDecision
<1>60. CASE BeginStop  BY <1>60 DEF BeginStop
<1>61. CASE FinishStop  BY <1>61 DEF FinishStop
<1>62. CASE StopFails  BY <1>62 DEF StopFails
<1>63. CASE RetryReview  BY <1>63 DEF RetryReview
<1>64. CASE RetryOmp  BY <1>64 DEF RetryOmp
<1>65. CASE FinishRetry  BY <1>65 DEF FinishRetry
<1>66. CASE Boot  BY <1>66 DEF Boot
<1>67. CASE SkipTask  BY <1>67 DEF SkipTask
<1>68. CASE RestoreTask  BY <1>68 DEF RestoreTask
<1>69. CASE LeaveRecovering  BY <1>69 DEF LeaveRecovering
<1>70. CASE RestoreGate  BY <1>70 DEF RestoreGate
<1>71. CASE BlockInterrupted  BY <1>71 DEF BlockInterrupted
<1>72. CASE ResumeCodex  BY <1>72 DEF ResumeCodex
<1>73. CASE UNCHANGED vars  BY <1>73
<1> QED
  BY <1>1, <1>2, <1>3, <1>4, <1>5, <1>6, <1>7, <1>8, <1>9, <1>10, <1>11, <1>12,
     <1>13, <1>14, <1>15, <1>16, <1>17, <1>18, <1>19, <1>20, <1>21, <1>22,
     <1>23, <1>24, <1>25, <1>26, <1>27, <1>28, <1>29, <1>30, <1>31, <1>32,
     <1>33, <1>34, <1>35, <1>36, <1>37, <1>38, <1>39, <1>40, <1>41, <1>42,
     <1>43, <1>44, <1>45, <1>46, <1>47, <1>48, <1>49, <1>50, <1>51, <1>52,
     <1>53, <1>54, <1>55, <1>56, <1>57, <1>58, <1>59, <1>60, <1>61, <1>62,
     <1>63, <1>64, <1>65, <1>66, <1>67, <1>68, <1>69, <1>70, <1>71, <1>72,
     <1>73
  DEF Next, Start, Provider, Implement, Validate, Review, Repair, Gate,
      Integrate, User, Host, Recover

-------------------------------------------------------------------------------
\* The invariant of the three safety properties, one part at a time.

\* Every step keeps the evidence of what is past the gate clean.
LEMMA GateStep ==
  ASSUME TypeOK, GateIsClean, GateInv, [Next]_vars
  PROVE  GateIsClean' /\ GateInv'
<1>1. CASE FinishDecision
  <2>1. lc' \in {lc, "Finalized", "Blocked"}
    BY <1>1 DEF FinishDecision, Enter, taskVars
  <2>2. lc' = "Finalized" => lc \in {"ReadyForHuman", "Finalized"}
    BY <1>1 DEF FinishDecision, Enter, taskVars, TypeOK, TaskType,
              TaskLifecycle, TaskSuccessors, GateInv
  <2> QED
    BY <1>1, <2>1, <2>2 DEF FinishDecision, Return, GateIsClean, GateInv,
         PastGate, ReviewPoints, GatePoints, Clean, NoOpenBlocker, evidenceVars
<1> USE DEF TypeOK, EvidenceType, GateIsClean, GateInv, PastGate, ReviewPoints,
           GatePoints, Clean, NoOpenBlocker, Terminal, TaskTerminal,
           StopOffered, ImplementingDone, GateOnRecord, EvidenceReady, Stale,
           Enter, Goto, Return, FailStage, Restore, Abandon, RunProfile, vars,
           taskVars, sessionVars, evidenceVars, gateVars, diskVars, procVars,
           hostVars, localVars
<1>2. CASE StartTask  BY <1>2 DEF StartTask
<1>3. CASE CreateWorktree  BY <1>3 DEF CreateWorktree
<1>4. CASE WorktreeRefused  BY <1>4 DEF WorktreeRefused
<1>5. CASE OpenSession  BY <1>5 DEF OpenSession
<1>6. CASE LaunchFails  BY <1>6 DEF LaunchFails
<1>7. CASE EnterImplementing  BY <1>7 DEF EnterImplementing
<1>8. CASE TakeOwnership  BY <1>8 DEF TakeOwnership
<1>9. CASE TurnStartFails  BY <1>9 DEF TurnStartFails
<1>10. CASE ProviderEdits  BY <1>10 DEF ProviderEdits
<1>11. CASE ProviderCommits  BY <1>11 DEF ProviderCommits
<1>12. CASE TurnCompletes  BY <1>12 DEF TurnCompletes
<1>13. CASE ChildExits  BY <1>13 DEF ChildExits
<1>14. CASE ApiRunFails  BY <1>14 DEF ApiRunFails
<1>15. CASE OrphanExits  BY <1>15 DEF OrphanExits
<1>16. CASE TargetMoves  BY <1>16 DEF TargetMoves
<1>17. CASE PollExitedOmp  BY <1>17 DEF PollExitedOmp
<1>18. CASE ReapApiRun  BY <1>18 DEF ReapApiRun
<1>19. CASE CompleteImplementing  BY <1>19 DEF CompleteImplementing
<1>20. CASE ReleaseFails  BY <1>20 DEF ReleaseFails
<1>21. CASE SnapshotFails  BY <1>21 DEF SnapshotFails
<1>22. CASE StartValidation  BY <1>22 DEF StartValidation
<1>23. CASE NoProfile  BY <1>23 DEF NoProfile
<1>24. CASE ChecksPass  BY <1>24 DEF ChecksPass
<1>25. CASE ChecksReject  BY <1>25 DEF ChecksReject
<1>26. CASE ChecksFail  BY <1>26 DEF ChecksFail
<1>27. CASE BindGeneration  BY <1>27 DEF BindGeneration
<1>28. CASE StartReview  BY <1>28 DEF StartReview
<1>29. CASE StaleReview  BY <1>29 DEF StaleReview
<1>30. CASE ReviewReturns  BY <1>30 DEF ReviewReturns
<1>31. CASE ReviewFails  BY <1>31 DEF ReviewFails
<1>32. CASE DisposeRepaired  BY <1>32 DEF DisposeRepaired
<1>33. CASE PersistFindings  BY <1>33 DEF PersistFindings
<1>34. CASE MalformedFindings  BY <1>34 DEF MalformedFindings
<1>35. CASE ConfirmFindings  BY <1>35 DEF ConfirmFindings
<1>36. CASE RepairLimit  BY <1>36 DEF RepairLimit
<1>37. CASE StartRepair  BY <1>37 DEF StartRepair
<1>38. CASE SendRepair  BY <1>38 DEF SendRepair
<1>39. CASE RepairFails  BY <1>39 DEF RepairFails
<1>40. CASE RepairRefused  BY <1>40 DEF RepairRefused
<1>41. CASE FinishRepair  BY <1>41 DEF FinishRepair
<1>42. CASE RefuseAuto  BY <1>42 DEF RefuseAuto
<1>43. CASE CheckEvidence  BY <1>43 DEF CheckEvidence
<1>44. CASE EvidenceRefused  BY <1>44 DEF EvidenceRefused
<1>45. CASE FinalVerify  BY <1>45 DEF FinalVerify
<1>46. CASE FinalVerifyFails  BY <1>46 DEF FinalVerifyFails
<1>47. CASE BindEvidence  BY <1>47 DEF BindEvidence
<1>48. CASE OfferApproval  BY <1>48 DEF OfferApproval
<1>49. CASE BeginIntegration  BY <1>49 DEF BeginIntegration
<1>50. CASE IntegrateCheck  BY <1>50 DEF IntegrateCheck
<1>51. CASE CommitSource  BY <1>51 DEF CommitSource
<1>52. CASE CherryPick  BY <1>52 DEF CherryPick
<1>53. CASE RecordIntegration  BY <1>53 DEF RecordIntegration
<1>54. CASE FinishIntegration  BY <1>54 DEF FinishIntegration
<1>55. CASE BlockIntegration  BY <1>55 DEF BlockIntegration
<1>56. CASE Decide  BY <1>56 DEF Decide
<1>57. CASE BeginStop  BY <1>57 DEF BeginStop
<1>58. CASE FinishStop  BY <1>58 DEF FinishStop
<1>59. CASE StopFails  BY <1>59 DEF StopFails
<1>60. CASE RetryReview  BY <1>60 DEF RetryReview
<1>61. CASE RetryOmp  BY <1>61 DEF RetryOmp
<1>62. CASE FinishRetry  BY <1>62 DEF FinishRetry
<1>63. CASE Shutdown  BY <1>63 DEF Shutdown
<1>64. CASE Crash  BY <1>64 DEF Crash
<1>65. CASE Boot  BY <1>65 DEF Boot
<1>66. CASE ReselectRepository  BY <1>66 DEF ReselectRepository
<1>67. CASE SkipTask  BY <1>67 DEF SkipTask
<1>68. CASE RestoreTask  BY <1>68 DEF RestoreTask
<1>69. CASE LeaveRecovering  BY <1>69 DEF LeaveRecovering
<1>70. CASE RestoreGate  BY <1>70 DEF RestoreGate
<1>71. CASE BlockInterrupted  BY <1>71 DEF BlockInterrupted
<1>72. CASE ResumeCodex  BY <1>72 DEF ResumeCodex
<1>73. CASE UNCHANGED vars  BY <1>73
<1> QED
  BY <1>1, <1>2, <1>3, <1>4, <1>5, <1>6, <1>7, <1>8, <1>9, <1>10, <1>11, <1>12,
     <1>13, <1>14, <1>15, <1>16, <1>17, <1>18, <1>19, <1>20, <1>21, <1>22,
     <1>23, <1>24, <1>25, <1>26, <1>27, <1>28, <1>29, <1>30, <1>31, <1>32,
     <1>33, <1>34, <1>35, <1>36, <1>37, <1>38, <1>39, <1>40, <1>41, <1>42,
     <1>43, <1>44, <1>45, <1>46, <1>47, <1>48, <1>49, <1>50, <1>51, <1>52,
     <1>53, <1>54, <1>55, <1>56, <1>57, <1>58, <1>59, <1>60, <1>61, <1>62,
     <1>63, <1>64, <1>65, <1>66, <1>67, <1>68, <1>69, <1>70, <1>71, <1>72,
     <1>73
  DEF Next, Start, Provider, Implement, Validate, Review, Repair, Gate,
      Integrate, User, Host, Recover

\* Every step keeps the cherry-pick a single one.
LEMMA PickStep ==
  ASSUME TypeOK, PickedAtMostOnce, PickInv, [Next]_vars
  PROVE  PickedAtMostOnce' /\ PickInv'
<1> USE DEF TypeOK, DiskType, PickedAtMostOnce, PickInv, TargetAdvanced,
           Enter, Goto, Return, FailStage, Restore, Abandon, RunProfile, vars,
           taskVars, sessionVars, evidenceVars, gateVars, diskVars, procVars,
           hostVars, localVars
<1>1. CASE StartTask  BY <1>1 DEF StartTask
<1>2. CASE CreateWorktree  BY <1>2 DEF CreateWorktree
<1>3. CASE WorktreeRefused  BY <1>3 DEF WorktreeRefused
<1>4. CASE OpenSession  BY <1>4 DEF OpenSession
<1>5. CASE LaunchFails  BY <1>5 DEF LaunchFails
<1>6. CASE EnterImplementing  BY <1>6 DEF EnterImplementing
<1>7. CASE TakeOwnership  BY <1>7 DEF TakeOwnership
<1>8. CASE TurnStartFails  BY <1>8 DEF TurnStartFails
<1>9. CASE ProviderEdits  BY <1>9 DEF ProviderEdits
<1>10. CASE ProviderCommits  BY <1>10 DEF ProviderCommits
<1>11. CASE TurnCompletes  BY <1>11 DEF TurnCompletes
<1>12. CASE ChildExits  BY <1>12 DEF ChildExits
<1>13. CASE ApiRunFails  BY <1>13 DEF ApiRunFails
<1>14. CASE OrphanExits  BY <1>14 DEF OrphanExits
<1>15. CASE TargetMoves  BY <1>15 DEF TargetMoves
<1>16. CASE PollExitedOmp  BY <1>16 DEF PollExitedOmp
<1>17. CASE ReapApiRun  BY <1>17 DEF ReapApiRun
<1>18. CASE CompleteImplementing  BY <1>18 DEF CompleteImplementing
<1>19. CASE ReleaseFails  BY <1>19 DEF ReleaseFails
<1>20. CASE SnapshotFails  BY <1>20 DEF SnapshotFails
<1>21. CASE StartValidation  BY <1>21 DEF StartValidation
<1>22. CASE NoProfile  BY <1>22 DEF NoProfile
<1>23. CASE ChecksPass  BY <1>23 DEF ChecksPass
<1>24. CASE ChecksReject  BY <1>24 DEF ChecksReject
<1>25. CASE ChecksFail  BY <1>25 DEF ChecksFail
<1>26. CASE BindGeneration  BY <1>26 DEF BindGeneration
<1>27. CASE StartReview  BY <1>27 DEF StartReview
<1>28. CASE StaleReview  BY <1>28 DEF StaleReview
<1>29. CASE ReviewReturns  BY <1>29 DEF ReviewReturns
<1>30. CASE ReviewFails  BY <1>30 DEF ReviewFails
<1>31. CASE DisposeRepaired  BY <1>31 DEF DisposeRepaired
<1>32. CASE PersistFindings  BY <1>32 DEF PersistFindings
<1>33. CASE MalformedFindings  BY <1>33 DEF MalformedFindings
<1>34. CASE ConfirmFindings  BY <1>34 DEF ConfirmFindings
<1>35. CASE RepairLimit  BY <1>35 DEF RepairLimit
<1>36. CASE StartRepair  BY <1>36 DEF StartRepair
<1>37. CASE SendRepair  BY <1>37 DEF SendRepair
<1>38. CASE RepairFails  BY <1>38 DEF RepairFails
<1>39. CASE RepairRefused  BY <1>39 DEF RepairRefused
<1>40. CASE FinishRepair  BY <1>40 DEF FinishRepair
<1>41. CASE RefuseAuto  BY <1>41 DEF RefuseAuto
<1>42. CASE CheckEvidence  BY <1>42 DEF CheckEvidence
<1>43. CASE EvidenceRefused  BY <1>43 DEF EvidenceRefused
<1>44. CASE FinalVerify  BY <1>44 DEF FinalVerify
<1>45. CASE FinalVerifyFails  BY <1>45 DEF FinalVerifyFails
<1>46. CASE BindEvidence  BY <1>46 DEF BindEvidence
<1>47. CASE OfferApproval  BY <1>47 DEF OfferApproval
<1>48. CASE BeginIntegration  BY <1>48 DEF BeginIntegration
<1>49. CASE IntegrateCheck  BY <1>49 DEF IntegrateCheck
<1>50. CASE CommitSource  BY <1>50 DEF CommitSource
<1>51. CASE CherryPick  BY <1>51 DEF CherryPick
<1>52. CASE RecordIntegration  BY <1>52 DEF RecordIntegration
<1>53. CASE FinishIntegration  BY <1>53 DEF FinishIntegration
<1>54. CASE BlockIntegration  BY <1>54 DEF BlockIntegration
<1>55. CASE Decide  BY <1>55 DEF Decide
<1>56. CASE FinishDecision  BY <1>56 DEF FinishDecision
<1>57. CASE BeginStop  BY <1>57 DEF BeginStop
<1>58. CASE FinishStop  BY <1>58 DEF FinishStop
<1>59. CASE StopFails  BY <1>59 DEF StopFails
<1>60. CASE RetryReview  BY <1>60 DEF RetryReview
<1>61. CASE RetryOmp  BY <1>61 DEF RetryOmp
<1>62. CASE FinishRetry  BY <1>62 DEF FinishRetry
<1>63. CASE Shutdown  BY <1>63 DEF Shutdown
<1>64. CASE Crash  BY <1>64 DEF Crash
<1>65. CASE Boot  BY <1>65 DEF Boot
<1>66. CASE ReselectRepository  BY <1>66 DEF ReselectRepository
<1>67. CASE SkipTask  BY <1>67 DEF SkipTask
<1>68. CASE RestoreTask  BY <1>68 DEF RestoreTask
<1>69. CASE LeaveRecovering  BY <1>69 DEF LeaveRecovering
<1>70. CASE RestoreGate  BY <1>70 DEF RestoreGate
<1>71. CASE BlockInterrupted  BY <1>71 DEF BlockInterrupted
<1>72. CASE ResumeCodex  BY <1>72 DEF ResumeCodex
<1>73. CASE UNCHANGED vars  BY <1>73
<1> QED
  BY <1>1, <1>2, <1>3, <1>4, <1>5, <1>6, <1>7, <1>8, <1>9, <1>10, <1>11, <1>12,
     <1>13, <1>14, <1>15, <1>16, <1>17, <1>18, <1>19, <1>20, <1>21, <1>22,
     <1>23, <1>24, <1>25, <1>26, <1>27, <1>28, <1>29, <1>30, <1>31, <1>32,
     <1>33, <1>34, <1>35, <1>36, <1>37, <1>38, <1>39, <1>40, <1>41, <1>42,
     <1>43, <1>44, <1>45, <1>46, <1>47, <1>48, <1>49, <1>50, <1>51, <1>52,
     <1>53, <1>54, <1>55, <1>56, <1>57, <1>58, <1>59, <1>60, <1>61, <1>62,
     <1>63, <1>64, <1>65, <1>66, <1>67, <1>68, <1>69, <1>70, <1>71, <1>72,
     <1>73
  DEF Next, Start, Provider, Implement, Validate, Review, Repair, Gate,
      Integrate, User, Host, Recover

\* Every step keeps a task in recovery without an owner.
LEMMA OwnerStep ==
  ASSUME TypeOK, RecoveringHasNoOwner, OwnerInv, [Next]_vars
  PROVE  RecoveringHasNoOwner' /\ OwnerInv'
<1> USE DEF TypeOK, RecoveringHasNoOwner, OwnerInv, Terminal, TaskTerminal,
           StopOffered, ImplementingDone, GateOnRecord, Enter, Goto, Return,
           FailStage, Restore, Abandon, RunProfile, vars, taskVars,
           sessionVars, evidenceVars, gateVars, diskVars, procVars, hostVars,
           localVars
<1>1. CASE StartTask  BY <1>1 DEF StartTask
<1>2. CASE CreateWorktree  BY <1>2 DEF CreateWorktree
<1>3. CASE WorktreeRefused  BY <1>3 DEF WorktreeRefused
<1>4. CASE OpenSession  BY <1>4 DEF OpenSession
<1>5. CASE LaunchFails  BY <1>5 DEF LaunchFails
<1>6. CASE EnterImplementing  BY <1>6 DEF EnterImplementing
<1>7. CASE TakeOwnership  BY <1>7 DEF TakeOwnership
<1>8. CASE TurnStartFails  BY <1>8 DEF TurnStartFails
<1>9. CASE ProviderEdits  BY <1>9 DEF ProviderEdits
<1>10. CASE ProviderCommits  BY <1>10 DEF ProviderCommits
<1>11. CASE TurnCompletes  BY <1>11 DEF TurnCompletes
<1>12. CASE ChildExits  BY <1>12 DEF ChildExits
<1>13. CASE ApiRunFails  BY <1>13 DEF ApiRunFails
<1>14. CASE OrphanExits  BY <1>14 DEF OrphanExits
<1>15. CASE TargetMoves  BY <1>15 DEF TargetMoves
<1>16. CASE PollExitedOmp  BY <1>16 DEF PollExitedOmp
<1>17. CASE ReapApiRun  BY <1>17 DEF ReapApiRun
<1>18. CASE CompleteImplementing  BY <1>18 DEF CompleteImplementing
<1>19. CASE ReleaseFails  BY <1>19 DEF ReleaseFails
<1>20. CASE SnapshotFails  BY <1>20 DEF SnapshotFails
<1>21. CASE StartValidation  BY <1>21 DEF StartValidation
<1>22. CASE NoProfile  BY <1>22 DEF NoProfile
<1>23. CASE ChecksPass  BY <1>23 DEF ChecksPass
<1>24. CASE ChecksReject  BY <1>24 DEF ChecksReject
<1>25. CASE ChecksFail  BY <1>25 DEF ChecksFail
<1>26. CASE BindGeneration  BY <1>26 DEF BindGeneration
<1>27. CASE StartReview  BY <1>27 DEF StartReview
<1>28. CASE StaleReview  BY <1>28 DEF StaleReview
<1>29. CASE ReviewReturns  BY <1>29 DEF ReviewReturns
<1>30. CASE ReviewFails  BY <1>30 DEF ReviewFails
<1>31. CASE DisposeRepaired  BY <1>31 DEF DisposeRepaired
<1>32. CASE PersistFindings  BY <1>32 DEF PersistFindings
<1>33. CASE MalformedFindings  BY <1>33 DEF MalformedFindings
<1>34. CASE ConfirmFindings  BY <1>34 DEF ConfirmFindings
<1>35. CASE RepairLimit  BY <1>35 DEF RepairLimit
<1>36. CASE StartRepair  BY <1>36 DEF StartRepair
<1>37. CASE SendRepair  BY <1>37 DEF SendRepair
<1>38. CASE RepairFails  BY <1>38 DEF RepairFails
<1>39. CASE RepairRefused  BY <1>39 DEF RepairRefused
<1>40. CASE FinishRepair  BY <1>40 DEF FinishRepair
<1>41. CASE RefuseAuto  BY <1>41 DEF RefuseAuto
<1>42. CASE CheckEvidence  BY <1>42 DEF CheckEvidence
<1>43. CASE EvidenceRefused  BY <1>43 DEF EvidenceRefused
<1>44. CASE FinalVerify  BY <1>44 DEF FinalVerify
<1>45. CASE FinalVerifyFails  BY <1>45 DEF FinalVerifyFails
<1>46. CASE BindEvidence  BY <1>46 DEF BindEvidence
<1>47. CASE OfferApproval  BY <1>47 DEF OfferApproval
<1>48. CASE BeginIntegration  BY <1>48 DEF BeginIntegration
<1>49. CASE IntegrateCheck  BY <1>49 DEF IntegrateCheck
<1>50. CASE CommitSource  BY <1>50 DEF CommitSource
<1>51. CASE CherryPick  BY <1>51 DEF CherryPick
<1>52. CASE RecordIntegration  BY <1>52 DEF RecordIntegration
<1>53. CASE FinishIntegration  BY <1>53 DEF FinishIntegration
<1>54. CASE BlockIntegration  BY <1>54 DEF BlockIntegration
<1>55. CASE Decide  BY <1>55 DEF Decide
<1>56. CASE FinishDecision  BY <1>56 DEF FinishDecision
<1>57. CASE BeginStop  BY <1>57 DEF BeginStop
<1>58. CASE FinishStop  BY <1>58 DEF FinishStop
<1>59. CASE StopFails  BY <1>59 DEF StopFails
<1>60. CASE RetryReview  BY <1>60 DEF RetryReview
<1>61. CASE RetryOmp  BY <1>61 DEF RetryOmp
<1>62. CASE FinishRetry  BY <1>62 DEF FinishRetry
<1>63. CASE Shutdown  BY <1>63 DEF Shutdown
<1>64. CASE Crash  BY <1>64 DEF Crash
<1>65. CASE Boot  BY <1>65 DEF Boot
<1>66. CASE ReselectRepository  BY <1>66 DEF ReselectRepository
<1>67. CASE SkipTask  BY <1>67 DEF SkipTask
<1>68. CASE RestoreTask  BY <1>68 DEF RestoreTask
<1>69. CASE LeaveRecovering  BY <1>69 DEF LeaveRecovering
<1>70. CASE RestoreGate  BY <1>70 DEF RestoreGate
<1>71. CASE BlockInterrupted  BY <1>71 DEF BlockInterrupted
<1>72. CASE ResumeCodex  BY <1>72 DEF ResumeCodex
<1>73. CASE UNCHANGED vars  BY <1>73
<1> QED
  BY <1>1, <1>2, <1>3, <1>4, <1>5, <1>6, <1>7, <1>8, <1>9, <1>10, <1>11, <1>12,
     <1>13, <1>14, <1>15, <1>16, <1>17, <1>18, <1>19, <1>20, <1>21, <1>22,
     <1>23, <1>24, <1>25, <1>26, <1>27, <1>28, <1>29, <1>30, <1>31, <1>32,
     <1>33, <1>34, <1>35, <1>36, <1>37, <1>38, <1>39, <1>40, <1>41, <1>42,
     <1>43, <1>44, <1>45, <1>46, <1>47, <1>48, <1>49, <1>50, <1>51, <1>52,
     <1>53, <1>54, <1>55, <1>56, <1>57, <1>58, <1>59, <1>60, <1>61, <1>62,
     <1>63, <1>64, <1>65, <1>66, <1>67, <1>68, <1>69, <1>70, <1>71, <1>72,
     <1>73
  DEF Next, Start, Provider, Implement, Validate, Review, Repair, Gate,
      Integrate, User, Host, Recover

-------------------------------------------------------------------------------
\* The initial states satisfy the invariant.
LEMMA InitInv ==
  ASSUME Init
  PROVE  IInv
<1>1. TypeOK
  <2>1. TaskType /\ LocalType
    BY DEF Init, TaskType, LocalType, TaskLifecycle, Points
  <2>2. SessionType /\ ProcType /\ HostType
    BY DEF Init, SessionType, ProcType, HostType
  <2>3. EvidenceType /\ GateType
    BY DEF Init, EvidenceType, GateType, Rounds, Base, Commit
  <2>4. DiskType
    BY DEF Init, DiskType, Base, Commit
  <2> QED
    BY <2>1, <2>2, <2>3, <2>4 DEF TypeOK
<1>2. GateIsClean /\ GateInv /\ PickedAtMostOnce /\ PickInv
  BY DEF Init, GateIsClean, GateInv, PickedAtMostOnce, PickInv, PastGate,
         ReviewPoints, GatePoints
<1>3. RecoveringHasNoOwner /\ OwnerInv
  BY DEF Init, RecoveringHasNoOwner, OwnerInv
<1> QED
  BY <1>1, <1>2, <1>3 DEF IInv

\* Every step keeps the invariant.
LEMMA StepInv == IInv /\ [Next]_vars => IInv'
BY TypeStep, GateStep, PickStep, OwnerStep DEF IInv

\* The invariant holds in every reachable state.
THEOREM Invariance == Spec => []IInv
BY InitInv, StepInv, PTL DEF Spec

\* Every variable of the workflow keeps its type.
THEOREM TypeCorrect == Spec => []TypeOK
<1>1. IInv => TypeOK
  BY DEF IInv
<1> QED
  BY Invariance, <1>1, PTL

\* A task that is ready for a human, integrated or finalized has a review
\* generation and no blocker that is not repaired or dismissed: whatever
\* failed, was retried or was interrupted on the way.
THEOREM GateSafe == Spec => []GateIsClean
<1>1. IInv => GateIsClean
  BY DEF IInv
<1> QED
  BY Invariance, <1>1, PTL

\* Over any number of crashes, restarts and retries, and with any commits of the
\* provider, the target branch gets a commit of the task at most once.
THEOREM PickedOnce == Spec => []PickedAtMostOnce
<1>1. IInv => PickedAtMostOnce
  BY DEF IInv
<1> QED
  BY Invariance, <1>1, PTL

\* No supervisor ever owns the provider of a task that waits for recovery.
THEOREM RecoveryUnowned == Spec => []RecoveringHasNoOwner
<1>1. IInv => RecoveringHasNoOwner
  BY DEF IInv
<1> QED
  BY Invariance, <1>1, PTL

-------------------------------------------------------------------------------
(* The workflow keeps the promise of HumanGate, for every value of its     *)
(* constants: HumanDecides of TaskWorkflow is a theorem, not only a        *)
(* property of a small instance.                                           *)
(*                                                                         *)
(* The promise is about the approvals alone, and the code says little      *)
(* about them: an approval stays pending over restarts and retries, and a  *)
(* decision does not ask what the task is doing.  What keeps a second      *)
(* question from being opened beside the first are facts about sessions,   *)
(* turns and the modes, and those are what the invariant collects.         *)

\* A session that must be recovered is on record, so no evidence is ready.
NeedsRecovery == "RecoveryRequired" \in {impl} \union aux

\* The points of a call on a task whose implementer has completed a turn, and
\* those of them at which a reviewer's session is on record.
LatePoints == {"checks", "bind", "reviewer", "dispose", "persist", "confirm",
               "repair", "fix", "fixed", "evidence", "verify", "final",
               "offer"}
ReviewedPoints == LatePoints \ {"checks", "bind", "reviewer"}

\* A task is validated, reviewed and offered only after a turn of its
\* implementer, and the one turn of an API run does not run again.
TurnInv ==
  /\ lc = "Draft" =>
       turn # "running" /\ ~turnDone /\ pc \in {"idle", "down", "boot"}
  /\ pc \in {"worktree", "launch"} => turn # "running" /\ ~turnDone
  /\ kind = "api" =>
       /\ turnDone => turn # "running"
       /\ pc \in {"started", "own"} => turn # "running" /\ ~turnDone
  /\ lc = "Validating" \/ pc \in LatePoints \/ gen # 0 \/ approvals # {} =>
       turnDone

\* The sessions a task has by then: a completed turn leaves an implementer's
\* session and a review one more, so that Codex is not resumed behind an
\* approval.  An OMP session that is not cancelled is still active, so that a
\* retry of it leaves one to be recovered.
SessionInv ==
  /\ turnDone \/ turn = "running" \/ pc \in {"started", "own"} =>
       impl # "none"
  /\ pc \in ReviewedPoints \/ approvals # {} => aux # {}
  /\ kind = "omp" =>
       /\ impl \notin {"Created", "Starting", "Completed", "Failed"}
       /\ impl = "Cancelled" =>
            /\ lc = "Cancelled"
            /\ pc \in {"idle", "down", "boot", "approved", "denied"}
       /\ pc = "stopping" => ~Terminal

\* Who is asked is not integrated for, and the other way round.
ModeInv ==
  /\ mode = "auto_integrate" => approvals = {}
  /\ mode # "auto_integrate" => merged = << >>
  /\ \/ lc = "Integrating" \/ pc \in {"integrate", "commit", "pick"}
     \/ pc = "recover" /\ was = "Integrating"
     => mode = "auto_integrate"

\* While a question is open, no call is about to open one: the task waits at
\* its gate or for recovery, or has a session that keeps it from the gate.
OpenInv ==
  /\ lc = "Finalized" => pc \in {"idle", "down", "boot"} /\ Pending = {}
  /\ pc = "offer" => lc = "ReadyForHuman"
  /\ pc \in {"approved", "denied"} => Pending = {}
  /\ Pending # {} =>
       \/ NeedsRecovery /\ pc \notin {"verify", "final", "offer"}
       \/ lc = "ReadyForHuman" /\ pc \in {"idle", "down", "boot"}
       \/ /\ lc = "Recovering" /\ kind # "omp"
          /\ pc \in {"idle", "down", "boot", "recover"}

\* Approvals are told apart by the validation batches of their evidence, and
\* the one that is open or was just approved is the latest.
LatestInv ==
  /\ pc = "offer" => \E d \in packet : packet = {d} /\ d.vals = vals
  /\ \A a \in approvals :
       a.ev.vals <= vals /\ (pc \in {"final", "offer"} => a.ev.vals < vals)
  /\ \A a, b \in approvals :
       a.st = "Pending" =>
         b = a \/ (b.st # "Pending" /\ b.ev.vals < a.ev.vals)
  /\ pc = "approved" =>
       \E a \in approvals :
         /\ a.st = "Approved"
         /\ \A b \in approvals : b = a \/ b.ev.vals < a.ev.vals

AskInv == IInv /\ TurnInv /\ SessionInv /\ ModeInv /\ OpenInv /\ LatestInv

-------------------------------------------------------------------------------
\* What the lifecycle table and a restore do.

LEMMA FinalLifecycles ==
  /\ TaskSuccessors["Cancelled"] = {}
  /\ "Finalized" \notin TaskSuccessors["Finalized"]
BY DEF TaskSuccessors, TaskLifecycle

\* A restore forgets no session, and leaves one that must be recovered if
\* there was one or the implementer's was live.
LEMMA RestoreSessions ==
  ASSUME Restore
  PROVE  /\ aux # {} => aux' # {}
         /\ NeedsRecovery => NeedsRecovery'
         /\ ~Terminal /\ lc # "Draft" /\ impl \in {"Active", "Cancelling"} =>
              NeedsRecovery'
<1>1. CASE Terminal \/ lc = "Draft"
  BY <1>1 DEF Restore, NeedsRecovery, taskVars, sessionVars
<1>2. CASE ~(Terminal \/ lc = "Draft")
  <2>1. impl' = Reconciled(impl) /\ aux' = {Reconciled(s) : s \in aux}
    BY <1>2 DEF Restore
  <2>2. Reconciled("RecoveryRequired") = "RecoveryRequired"
    BY DEF Reconciled
  <2>3. NeedsRecovery => NeedsRecovery'
    BY <2>1, <2>2 DEF NeedsRecovery
  <2>4. impl \in {"Active", "Cancelling"} => impl' = "RecoveryRequired"
    BY <2>1 DEF Reconciled
  <2> QED
    BY <2>1, <2>3, <2>4 DEF NeedsRecovery
<1> QED
  BY <1>1, <1>2

-------------------------------------------------------------------------------
\* Every step keeps the facts about turns.
LEMMA TurnStep ==
  ASSUME TurnInv, [Next]_vars
  PROVE  TurnInv'
<1> USE DEF TurnInv, LatePoints, Stale, Offered, Pending, ImplementingDone,
        GateOnRecord, StopOffered, Enter, Goto, Return, FailStage, Restore,
        Abandon, RunProfile, Terminal, TaskTerminal, vars, taskVars,
        sessionVars, evidenceVars, gateVars, diskVars, procVars, hostVars,
        localVars
<1>1. CASE Start
  BY <1>1 DEF Start, StartTask, CreateWorktree, WorktreeRefused, OpenSession,
      LaunchFails, EnterImplementing, TakeOwnership, TurnStartFails
<1>2. CASE Provider
  BY <1>2 DEF Provider, ProviderEdits, ProviderCommits, TurnCompletes,
      ChildExits, ApiRunFails, OrphanExits, TargetMoves
<1>3. CASE Implement
  BY <1>3 DEF Implement, PollExitedOmp, ReapApiRun, CompleteImplementing,
      ReleaseFails, SnapshotFails
<1>4. CASE Validate
  BY <1>4 DEF Validate, StartValidation, NoProfile, ChecksPass, ChecksReject,
      ChecksFail, BindGeneration
<1>5. CASE Review
  BY <1>5 DEF Review, StartReview, StaleReview, ReviewReturns, ReviewFails,
      DisposeRepaired, PersistFindings, MalformedFindings, ConfirmFindings
<1>6. CASE Repair
  BY <1>6 DEF Repair, RepairLimit, StartRepair, SendRepair, RepairFails,
      RepairRefused, FinishRepair
<1>7. CASE Gate
  BY <1>7 DEF Gate, RefuseAuto, CheckEvidence, EvidenceRefused, FinalVerify,
      FinalVerifyFails, BindEvidence, OfferApproval
<1>8. CASE Integrate
  BY <1>8 DEF Integrate, BeginIntegration, IntegrateCheck, CommitSource,
      CherryPick, RecordIntegration, FinishIntegration, BlockIntegration
<1>9. CASE User
  <2>1. CASE Decide
    BY <2>1 DEF Decide
  <2>2. CASE FinishDecision
    BY <2>2 DEF FinishDecision
  <2>3. CASE BeginStop
    BY <2>3 DEF BeginStop
  <2>4. CASE FinishStop
    BY <2>4 DEF FinishStop
  <2>5. CASE StopFails
    BY <2>5 DEF StopFails
  <2>6. CASE RetryReview
    BY <2>6 DEF RetryReview
  <2>7. CASE RetryOmp
    BY <2>7 DEF RetryOmp
  <2>8. CASE FinishRetry
    BY <2>8 DEF FinishRetry
  <2> QED
    BY <2>1, <2>2, <2>3, <2>4, <2>5, <2>6, <2>7, <2>8, <1>9 DEF User
<1>10. CASE Host
  <2>1. CASE Shutdown
    BY <2>1 DEF Shutdown
  <2>2. CASE Crash
    BY <2>2 DEF Crash
  <2>3. CASE Boot
    BY <2>3 DEF Boot
  <2>4. CASE ReselectRepository
    BY <2>4 DEF ReselectRepository
  <2> QED
    BY <2>1, <2>2, <2>3, <2>4, <1>10 DEF Host
<1>11. CASE Recover
  BY <1>11 DEF Recover, SkipTask, RestoreTask, LeaveRecovering, RestoreGate,
      BlockInterrupted, ResumeCodex
<1>12. CASE UNCHANGED vars
  BY <1>12
<1> QED
  BY <1>1, <1>2, <1>3, <1>4, <1>5, <1>6, <1>7, <1>8, <1>9, <1>10, <1>11,
     <1>12 DEF Next

\* Every step keeps the facts about sessions.
LEMMA SessionStep ==
  ASSUME TypeOK, TurnInv, SessionInv, [Next]_vars
  PROVE  SessionInv'
<1> USE DEF TypeOK, SessionType, SessionLifecycle, TurnInv, SessionInv,
        LatePoints, ReviewedPoints, Offered, Pending, ImplementingDone,
        GateOnRecord, StopOffered, Reconciled, RepairSession, Enter, Goto,
        Return, FailStage, Restore, Abandon, RunProfile, Terminal,
        TaskTerminal, vars, taskVars, sessionVars, evidenceVars, gateVars,
        diskVars, procVars, hostVars, localVars
<1>1. CASE Start
  BY <1>1 DEF Start, StartTask, CreateWorktree, WorktreeRefused, OpenSession,
      LaunchFails, EnterImplementing, TakeOwnership, TurnStartFails
<1>2. CASE Provider
  BY <1>2 DEF Provider, ProviderEdits, ProviderCommits, TurnCompletes,
      ChildExits, ApiRunFails, OrphanExits, TargetMoves
<1>3. CASE Implement
  BY <1>3, RestoreSessions DEF Implement, PollExitedOmp, ReapApiRun,
      CompleteImplementing, ReleaseFails, SnapshotFails
<1>4. CASE Validate
  BY <1>4 DEF Validate, StartValidation, NoProfile, ChecksPass, ChecksReject,
      ChecksFail, BindGeneration
<1>5. CASE Review
  BY <1>5 DEF Review, StartReview, StaleReview, ReviewReturns, ReviewFails,
      DisposeRepaired, PersistFindings, MalformedFindings, ConfirmFindings
<1>6. CASE Repair
  BY <1>6 DEF Repair, RepairLimit, StartRepair, SendRepair, RepairFails,
      RepairRefused, FinishRepair
<1>7. CASE Gate
  BY <1>7 DEF Gate, RefuseAuto, CheckEvidence, EvidenceRefused, FinalVerify,
      FinalVerifyFails, BindEvidence, OfferApproval
<1>8. CASE Integrate
  BY <1>8 DEF Integrate, BeginIntegration, IntegrateCheck, CommitSource,
      CherryPick, RecordIntegration, FinishIntegration, BlockIntegration
<1>9. CASE User
  <2>1. CASE Decide
    BY <2>1 DEF Decide
  <2>2. CASE FinishDecision
    BY <2>2, FinalLifecycles DEF FinishDecision
  <2>3. CASE BeginStop
    BY <2>3 DEF BeginStop
  <2>4. CASE FinishStop
    BY <2>4 DEF FinishStop
  <2>5. CASE StopFails
    BY <2>5 DEF StopFails
  <2>6. CASE RetryReview
    BY <2>6 DEF RetryReview
  <2>7. CASE RetryOmp
    BY <2>7 DEF RetryOmp
  <2>8. CASE FinishRetry
    BY <2>8 DEF FinishRetry
  <2> QED
    BY <2>1, <2>2, <2>3, <2>4, <2>5, <2>6, <2>7, <2>8, <1>9 DEF User
<1>10. CASE Host
  <2>1. CASE Shutdown
    BY <2>1, RestoreSessions DEF Shutdown
  <2>2. CASE Crash
    BY <2>2 DEF Crash
  <2>3. CASE Boot
    BY <2>3 DEF Boot
  <2>4. CASE ReselectRepository
    BY <2>4 DEF ReselectRepository
  <2> QED
    BY <2>1, <2>2, <2>3, <2>4, <1>10 DEF Host
<1>11. CASE Recover
  <2>1. CASE SkipTask
    BY <2>1 DEF SkipTask
  <2>2. CASE RestoreTask
    BY <2>2, RestoreSessions DEF RestoreTask
  <2>3. CASE LeaveRecovering
    BY <2>3 DEF LeaveRecovering
  <2>4. CASE RestoreGate
    BY <2>4 DEF RestoreGate
  <2>5. CASE BlockInterrupted
    BY <2>5 DEF BlockInterrupted
  <2>6. CASE ResumeCodex
    BY <2>6 DEF ResumeCodex
  <2> QED
    BY <2>1, <2>2, <2>3, <2>4, <2>5, <2>6, <1>11 DEF Recover
<1>12. CASE UNCHANGED vars
  BY <1>12
<1> QED
  BY <1>1, <1>2, <1>3, <1>4, <1>5, <1>6, <1>7, <1>8, <1>9, <1>10, <1>11,
     <1>12 DEF Next

\* Every step keeps the modes apart.
LEMMA ModeStep ==
  ASSUME ModeInv, [Next]_vars
  PROVE  ModeInv'
<1> USE DEF ModeInv, Offered, Pending, ImplementingDone, GateOnRecord, Enter,
        Goto, Return, FailStage, Restore, Abandon, RunProfile, Terminal,
        TaskTerminal, vars, taskVars, sessionVars, evidenceVars, gateVars,
        diskVars, procVars, hostVars, localVars
<1>1. CASE Start
  BY <1>1 DEF Start, StartTask, CreateWorktree, WorktreeRefused, OpenSession,
      LaunchFails, EnterImplementing, TakeOwnership, TurnStartFails
<1>2. CASE Provider
  BY <1>2 DEF Provider, ProviderEdits, ProviderCommits, TurnCompletes,
      ChildExits, ApiRunFails, OrphanExits, TargetMoves
<1>3. CASE Implement
  BY <1>3 DEF Implement, PollExitedOmp, ReapApiRun, CompleteImplementing,
      ReleaseFails, SnapshotFails
<1>4. CASE Validate
  BY <1>4 DEF Validate, StartValidation, NoProfile, ChecksPass, ChecksReject,
      ChecksFail, BindGeneration
<1>5. CASE Review
  BY <1>5 DEF Review, StartReview, StaleReview, ReviewReturns, ReviewFails,
      DisposeRepaired, PersistFindings, MalformedFindings, ConfirmFindings
<1>6. CASE Repair
  BY <1>6 DEF Repair, RepairLimit, StartRepair, SendRepair, RepairFails,
      RepairRefused, FinishRepair
<1>7. CASE Gate
  BY <1>7 DEF Gate, RefuseAuto, CheckEvidence, EvidenceRefused, FinalVerify,
      FinalVerifyFails, BindEvidence, OfferApproval
<1>8. CASE Integrate
  BY <1>8 DEF Integrate, BeginIntegration, IntegrateCheck, CommitSource,
      CherryPick, RecordIntegration, FinishIntegration, BlockIntegration
<1>9. CASE User
  BY <1>9 DEF User, Decide, FinishDecision, BeginStop, FinishStop, StopFails,
      RetryReview, RetryOmp, FinishRetry
<1>10. CASE Host
  BY <1>10 DEF Host, Shutdown, Crash, Boot, ReselectRepository
<1>11. CASE Recover
  BY <1>11 DEF Recover, SkipTask, RestoreTask, LeaveRecovering, RestoreGate,
      BlockInterrupted, ResumeCodex
<1>12. CASE UNCHANGED vars
  BY <1>12
<1> QED
  BY <1>1, <1>2, <1>3, <1>4, <1>5, <1>6, <1>7, <1>8, <1>9, <1>10, <1>11,
     <1>12 DEF Next

-------------------------------------------------------------------------------
\* Only an offer and a decision write approvals.
LEMMA ApprovalsKept ==
  ASSUME [Next]_vars, ~Decide, ~OfferApproval
  PROVE  approvals' = approvals /\ Pending' = Pending
<1> SUFFICES approvals' = approvals
  BY DEF Pending
<1> USE DEF vars, gateVars
<1>1. CASE Start
  BY <1>1 DEF Start, StartTask, CreateWorktree, WorktreeRefused, OpenSession,
      LaunchFails, EnterImplementing, TakeOwnership, TurnStartFails
<1>2. CASE Provider
  BY <1>2 DEF Provider, ProviderEdits, ProviderCommits, TurnCompletes,
      ChildExits, ApiRunFails, OrphanExits, TargetMoves
<1>3. CASE Implement
  BY <1>3 DEF Implement, PollExitedOmp, ReapApiRun, CompleteImplementing,
      ReleaseFails, SnapshotFails
<1>4. CASE Validate
  BY <1>4 DEF Validate, StartValidation, NoProfile, ChecksPass, ChecksReject,
      ChecksFail, BindGeneration
<1>5. CASE Review
  BY <1>5 DEF Review, StartReview, StaleReview, ReviewReturns, ReviewFails,
      DisposeRepaired, PersistFindings, MalformedFindings, ConfirmFindings
<1>6. CASE Repair
  BY <1>6 DEF Repair, RepairLimit, StartRepair, SendRepair, RepairFails,
      RepairRefused, FinishRepair
<1>7. CASE Gate
  BY <1>7 DEF Gate, RefuseAuto, CheckEvidence, EvidenceRefused, FinalVerify,
      FinalVerifyFails, BindEvidence, OfferApproval
<1>8. CASE Integrate
  BY <1>8 DEF Integrate, BeginIntegration, IntegrateCheck, CommitSource,
      CherryPick, RecordIntegration, FinishIntegration, BlockIntegration
<1>9. CASE User
  BY <1>9 DEF User, Decide, FinishDecision, BeginStop, FinishStop, StopFails,
      RetryReview, RetryOmp, FinishRetry
<1>10. CASE Host
  BY <1>10 DEF Host, Shutdown, Crash, Boot, ReselectRepository
<1>11. CASE Recover
  BY <1>11 DEF Recover, SkipTask, RestoreTask, LeaveRecovering, RestoreGate,
      BlockInterrupted, ResumeCodex
<1>12. CASE UNCHANGED vars
  BY <1>12
<1> QED
  BY <1>1, <1>2, <1>3, <1>4, <1>5, <1>6, <1>7, <1>8, <1>9, <1>10, <1>11,
     <1>12 DEF Next

\* A session that must be recovered stays one while there is an approval.
LEMMA RecoveryStays ==
  ASSUME TurnInv, SessionInv, NeedsRecovery, approvals # {}, [Next]_vars
  PROVE  NeedsRecovery'
<1> USE DEF TurnInv, SessionInv, NeedsRecovery, RepairSession, vars,
        sessionVars
<1>1. CASE Start
  BY <1>1 DEF Start, StartTask, CreateWorktree, WorktreeRefused, OpenSession,
      LaunchFails, EnterImplementing, TakeOwnership, TurnStartFails
<1>2. CASE Provider
  BY <1>2 DEF Provider, ProviderEdits, ProviderCommits, TurnCompletes,
      ChildExits, ApiRunFails, OrphanExits, TargetMoves
<1>3. CASE Implement
  BY <1>3, RestoreSessions DEF Implement, PollExitedOmp, ReapApiRun,
      CompleteImplementing, ReleaseFails, SnapshotFails
<1>4. CASE Validate
  BY <1>4 DEF Validate, StartValidation, NoProfile, ChecksPass, ChecksReject,
      ChecksFail, BindGeneration
<1>5. CASE Review
  BY <1>5 DEF Review, StartReview, StaleReview, ReviewReturns, ReviewFails,
      DisposeRepaired, PersistFindings, MalformedFindings, ConfirmFindings
<1>6. CASE Repair
  BY <1>6 DEF Repair, RepairLimit, StartRepair, SendRepair, RepairFails,
      RepairRefused, FinishRepair
<1>7. CASE Gate
  BY <1>7 DEF Gate, RefuseAuto, CheckEvidence, EvidenceRefused, FinalVerify,
      FinalVerifyFails, BindEvidence, OfferApproval
<1>8. CASE Integrate
  BY <1>8 DEF Integrate, BeginIntegration, IntegrateCheck, CommitSource,
      CherryPick, RecordIntegration, FinishIntegration, BlockIntegration
<1>9. CASE User
  BY <1>9 DEF User, Decide, FinishDecision, BeginStop, FinishStop, StopFails,
      RetryReview, RetryOmp, FinishRetry
<1>10. CASE Host
  BY <1>10, RestoreSessions DEF Host, Shutdown, Crash, Boot,
      ReselectRepository
<1>11. CASE Recover
  BY <1>11, RestoreSessions DEF Recover, SkipTask, RestoreTask,
      LeaveRecovering, RestoreGate, BlockInterrupted, ResumeCodex
<1>12. CASE UNCHANGED vars
  BY <1>12
<1> QED
  BY <1>1, <1>2, <1>3, <1>4, <1>5, <1>6, <1>7, <1>8, <1>9, <1>10, <1>11,
     <1>12 DEF Next

\* A decision closes the one question that is open.
LEMMA DecideCloses ==
  ASSUME LatestInv, Decide
  PROVE  Pending' = {} /\ Pending # {}
<1>1. PICK a \in Offered, st \in {"Approved", "Denied"} :
        approvals' = (approvals \ {a}) \union {[a EXCEPT !.st = st]}
  BY DEF Decide
<1>2. a \in approvals /\ a.st = "Pending"
  BY DEF Offered, Pending
<1>3. \A b \in approvals : b = a \/ b.st # "Pending"
  BY <1>2 DEF LatestInv
<1>4. [a EXCEPT !.st = st].st # "Pending"
  OBVIOUS
<1> QED
  BY <1>1, <1>2, <1>3, <1>4 DEF Pending

\* Every step keeps a task with an open question from its gate.
LEMMA OpenStep ==
  ASSUME TypeOK, TurnInv, SessionInv, ModeInv, OpenInv, LatestInv, [Next]_vars
  PROVE  OpenInv'
<1>1. CASE Decide
  BY <1>1, DecideCloses DEF OpenInv, Decide, Goto, taskVars
<1>2. CASE OfferApproval
  BY <1>2 DEF OpenInv, OfferApproval, Return, taskVars
<1>3. CASE ~Decide /\ ~OfferApproval
  <2> DEFINE kept == /\ approvals' = approvals /\ Pending' = Pending
                     /\ Pending # {} => approvals # {}
                     /\ NeedsRecovery /\ approvals # {} => NeedsRecovery'
  <2>a. kept
    BY <1>3, ApprovalsKept, RecoveryStays DEF Pending
  <2> USE <1>3, <2>a, RestoreSessions, FinalLifecycles DEF TypeOK,
          SessionType, SessionLifecycle, TurnInv, SessionInv, ModeInv,
          OpenInv, NeedsRecovery, LatePoints, ReviewedPoints, EvidenceReady,
          ImplementingDone, GateOnRecord, StopOffered, Enter, Goto, Return,
          FailStage, Restore, Abandon, RunProfile, Terminal, TaskTerminal,
          vars, taskVars, sessionVars, evidenceVars, gateVars, localVars
  <2>1. CASE Start
    BY <2>1 DEF Start, StartTask, CreateWorktree, WorktreeRefused,
        OpenSession, LaunchFails, EnterImplementing, TakeOwnership,
        TurnStartFails
  <2>2. CASE Provider
    BY <2>2 DEF Provider, ProviderEdits, ProviderCommits, TurnCompletes,
        ChildExits, ApiRunFails, OrphanExits, TargetMoves
  <2>3. CASE Implement
    BY <2>3 DEF Implement, PollExitedOmp, ReapApiRun, CompleteImplementing,
        ReleaseFails, SnapshotFails
  <2>4. CASE Validate
    BY <2>4 DEF Validate, StartValidation, NoProfile, ChecksPass,
        ChecksReject, ChecksFail, BindGeneration
  <2>5. CASE Review
    BY <2>5 DEF Review, StartReview, StaleReview, ReviewReturns, ReviewFails,
        DisposeRepaired, PersistFindings, MalformedFindings, ConfirmFindings
  <2>6. CASE Repair
    BY <2>6 DEF Repair, RepairLimit, StartRepair, SendRepair, RepairFails,
        RepairRefused, FinishRepair
  <2>7. CASE Gate
    BY <2>7 DEF Gate, RefuseAuto, CheckEvidence, EvidenceRefused, FinalVerify,
        FinalVerifyFails, BindEvidence, OfferApproval
  <2>8. CASE Integrate
    BY <2>8 DEF Integrate, BeginIntegration, IntegrateCheck, CommitSource,
        CherryPick, RecordIntegration, FinishIntegration, BlockIntegration
  <2>9. CASE User
    BY <2>9 DEF User, Decide, FinishDecision, BeginStop, FinishStop,
        StopFails, RetryReview, RetryOmp, FinishRetry
  <2>10. CASE Host
    BY <2>10 DEF Host, Shutdown, Crash, Boot, ReselectRepository
  <2>11. CASE Recover
    BY <2>11 DEF Recover, SkipTask, RestoreTask, LeaveRecovering, RestoreGate,
        BlockInterrupted, ResumeCodex
  <2>12. CASE UNCHANGED vars
    BY <2>12
  <2> QED
    BY <2>1, <2>2, <2>3, <2>4, <2>5, <2>6, <2>7, <2>8, <2>9, <2>10, <2>11,
       <2>12 DEF Next
<1> QED
  BY <1>1, <1>2, <1>3

-------------------------------------------------------------------------------
\* What the other steps do to the validation batches and the packet.
LEMMA BatchesGrow ==
  ASSUME [Next]_vars, ~Decide, ~OfferApproval
  PROVE  /\ vals' \in {vals, vals + 1}
         /\ pc' = "offer" =>
              /\ vals' = vals
              /\ (pc = "offer" /\ packet' = packet) \/ packet' = {Evidence}
         /\ pc' \in {"final", "offer"} =>
              pc \in {"final", "offer"} \/ vals' = vals + 1
         /\ pc' = "approved" => pc = "approved"
<1> USE DEF Enter, Goto, Return, FailStage, Abandon, RunProfile, vars,
        evidenceVars, gateVars, localVars
<1>1. CASE Start
  BY <1>1 DEF Start, StartTask, CreateWorktree, WorktreeRefused, OpenSession,
      LaunchFails, EnterImplementing, TakeOwnership, TurnStartFails
<1>2. CASE Provider
  BY <1>2 DEF Provider, ProviderEdits, ProviderCommits, TurnCompletes,
      ChildExits, ApiRunFails, OrphanExits, TargetMoves
<1>3. CASE Implement
  BY <1>3 DEF Implement, PollExitedOmp, ReapApiRun, CompleteImplementing,
      ReleaseFails, SnapshotFails
<1>4. CASE Validate
  BY <1>4 DEF Validate, StartValidation, NoProfile, ChecksPass, ChecksReject,
      ChecksFail, BindGeneration
<1>5. CASE Review
  BY <1>5 DEF Review, StartReview, StaleReview, ReviewReturns, ReviewFails,
      DisposeRepaired, PersistFindings, MalformedFindings, ConfirmFindings
<1>6. CASE Repair
  BY <1>6 DEF Repair, RepairLimit, StartRepair, SendRepair, RepairFails,
      RepairRefused, FinishRepair
<1>7. CASE Gate
  BY <1>7 DEF Gate, RefuseAuto, CheckEvidence, EvidenceRefused, FinalVerify,
      FinalVerifyFails, BindEvidence, OfferApproval
<1>8. CASE Integrate
  BY <1>8 DEF Integrate, BeginIntegration, IntegrateCheck, CommitSource,
      CherryPick, RecordIntegration, FinishIntegration, BlockIntegration
<1>9. CASE User
  BY <1>9 DEF User, Decide, FinishDecision, BeginStop, FinishStop, StopFails,
      RetryReview, RetryOmp, FinishRetry
<1>10. CASE Host
  BY <1>10 DEF Host, Shutdown, Crash, Boot, ReselectRepository
<1>11. CASE Recover
  BY <1>11 DEF Recover, SkipTask, RestoreTask, LeaveRecovering, RestoreGate,
      BlockInterrupted, ResumeCodex
<1>12. CASE UNCHANGED vars
  BY <1>12
<1> QED
  BY <1>1, <1>2, <1>3, <1>4, <1>5, <1>6, <1>7, <1>8, <1>9, <1>10, <1>11,
     <1>12 DEF Next

\* A decision is taken on the latest approval.
LEMMA DecideLatest ==
  ASSUME LatestInv, Decide
  PROVE  LatestInv'
<1>1. PICK a \in Offered, st \in {"Approved", "Denied"} :
        /\ approvals' = (approvals \ {a}) \union {[a EXCEPT !.st = st]}
        /\ pc' = IF st = "Approved" THEN "approved" ELSE "denied"
  BY DEF Decide, Goto
<1> DEFINE d == [a EXCEPT !.st = st]
<1>2. a \in approvals /\ a.st = "Pending"
  BY DEF Offered, Pending
<1>3. \A b \in approvals \ {a} : b.st # "Pending" /\ b.ev.vals < a.ev.vals
  BY <1>2 DEF LatestInv
<1>4. d.st = st /\ d.ev = a.ev
  BY <1>2
<1> QED
  BY <1>1, <1>2, <1>3, <1>4 DEF LatestInv, Decide, evidenceVars

\* What is offered becomes the latest approval.
LEMMA OfferLatest ==
  ASSUME TypeOK, OpenInv, LatestInv, OfferApproval
  PROVE  LatestInv'
<1>1. PICK d \in packet : packet = {d} /\ d.vals = vals
  BY DEF LatestInv, OfferApproval
<1> DEFINE p == [ev |-> d, st |-> "Pending"]
<1>2. approvals' = approvals \union {p}
  BY <1>1 DEF OfferApproval
<1>3. Pending = {}
  BY DEF OpenInv, OfferApproval
<1>4. \A a \in approvals : a.st # "Pending" /\ a.ev.vals < p.ev.vals
  BY <1>1, <1>3 DEF LatestInv, OfferApproval, Pending
<1>5. p.ev.vals \in Nat
  BY <1>1 DEF TypeOK, EvidenceType
<1> QED
  BY <1>1, <1>2, <1>4, <1>5 DEF LatestInv, OfferApproval, Return, evidenceVars

\* Every step keeps the order of the approvals.
LEMMA LatestStep ==
  ASSUME TypeOK, OpenInv, LatestInv, [Next]_vars
  PROVE  LatestInv'
<1>1. CASE Decide
  BY <1>1, DecideLatest
<1>2. CASE OfferApproval
  BY <1>2, OfferLatest
<1>3. CASE ~Decide /\ ~OfferApproval
  <2>1. approvals' = approvals
    BY <1>3, ApprovalsKept
  <2>2. \A a \in approvals : a.ev.vals \in Nat
    BY DEF TypeOK, GateType, Approval, Digest
  <2>3. vals \in Nat
    BY DEF TypeOK, EvidenceType
  <2>4. pc' = "offer" => \E d \in packet' : packet' = {d} /\ d.vals = vals'
    <3>1. CASE pc = "offer" /\ packet' = packet /\ vals' = vals
      BY <3>1 DEF LatestInv
    <3>2. CASE packet' = {Evidence} /\ vals' = vals
      BY <3>2 DEF Evidence
    <3> QED
      BY <1>3, <3>1, <3>2, BatchesGrow
  <2>5. \A a \in approvals :
          /\ a.ev.vals <= vals'
          /\ pc' \in {"final", "offer"} => a.ev.vals < vals'
    BY <1>3, <2>2, <2>3, BatchesGrow DEF LatestInv
  <2>6. pc' = "approved" => pc = "approved"
    BY <1>3, BatchesGrow
  <2> QED
    BY <2>1, <2>4, <2>5, <2>6 DEF LatestInv
<1> QED
  BY <1>1, <1>2, <1>3

-------------------------------------------------------------------------------
\* The initial states satisfy the invariant.
LEMMA AskInit ==
  ASSUME Init
  PROVE  AskInv
<1>1. TurnInv /\ SessionInv /\ ModeInv
  BY DEF Init, TurnInv, SessionInv, ModeInv, LatePoints, ReviewedPoints
<1>2. OpenInv /\ LatestInv
  BY DEF Init, OpenInv, LatestInv, Pending
<1> QED
  BY <1>1, <1>2, InitInv DEF AskInv

\* Every step keeps the invariant.
LEMMA AskStep == AskInv /\ [Next]_vars => AskInv'
<1> SUFFICES ASSUME AskInv, [Next]_vars
             PROVE  AskInv'
  OBVIOUS
<1>1. TypeOK
  BY DEF AskInv, IInv
<1> QED
  BY <1>1, StepInv, TurnStep, SessionStep, ModeStep, OpenStep, LatestStep
  DEF AskInv

\* The invariant holds in every reachable state.
LEMMA AskInvariance == Spec => []AskInv
BY AskInit, AskStep, PTL DEF Spec

-------------------------------------------------------------------------------
\* The initial states are those of the promise.
LEMMA PromiseInit ==
  ASSUME Init
  PROVE  Promise!Init
<1>1. Pending = {} /\ Latest \ Pending = {}
  BY DEF Init, Pending, Latest
<1> QED
  BY <1>1 DEF Init, Promise!Init

\* An offer asks: about one thing, of nobody who was asked something else.
LEMMA OfferAsks ==
  ASSUME AskInv, OfferApproval
  PROVE  Promise!Ask
<1>1. PICK d \in packet : packet = {d} /\ d.vals = vals
  BY DEF AskInv, LatestInv, OfferApproval
<1> DEFINE p == [ev |-> d, st |-> "Pending"]
<1>2. approvals' = approvals \union {p}
  BY <1>1 DEF OfferApproval
<1>3. Pending = {} /\ lc = "ReadyForHuman"
  BY DEF AskInv, OpenInv, OfferApproval
<1>4. \A a \in approvals : a.st # "Pending" /\ a.ev.vals < p.ev.vals
  BY <1>1, <1>3 DEF AskInv, LatestInv, OfferApproval, Pending
<1>5. Pending' = {p}
  BY <1>2, <1>4 DEF Pending
<1>6. Latest' = {p}
  <2>1. p.ev.vals \in Nat
    BY <1>1 DEF AskInv, IInv, TypeOK, EvidenceType
  <2>2. \A a \in approvals : a.ev.vals \in Nat
    BY DEF AskInv, IInv, TypeOK, GateType, Approval, Digest
  <2>3. \A a \in approvals' : a.ev.vals <= p.ev.vals
    BY <1>2, <1>4, <2>1, <2>2
  <2>4. \A a \in approvals : ~(p.ev.vals <= a.ev.vals)
    BY <1>4, <2>1, <2>2
  <2> QED
    BY <1>2, <2>3, <2>4 DEF Latest
<1>7. {a.ev : a \in Pending'} = {p.ev} /\ {a.ev : a \in Pending} = {}
  BY <1>3, <1>5
<1>8. \E e \in {a.ev : a \in Pending'} : {a.ev : a \in Pending'} = {e}
  BY <1>7
<1>9. {a.st : a \in Latest' \ Pending'} = {}
  BY <1>5, <1>6
<1>10. Len(merged) = 0 /\ merged' = merged /\ lc' = lc
  BY DEF AskInv, ModeInv, OfferApproval, taskVars, diskVars
<1>11. {a.st : a \in Latest \ Pending} = {a.st : a \in Latest}
  BY <1>3
<1> QED
  BY <1>3, <1>7, <1>8, <1>9, <1>10 DEF Promise!Ask

\* A decision answers the question that is open, as the evidence stands.
LEMMA DecideAnswers ==
  ASSUME AskInv, Decide
  PROVE  Promise!Answer
<1>1. PICK a \in Offered, st \in {"Approved", "Denied"} :
        /\ a.ev = Evidence
        /\ approvals' = (approvals \ {a}) \union {[a EXCEPT !.st = st]}
  BY DEF Decide
<1> DEFINE d == [a EXCEPT !.st = st]
<1>2. a \in approvals /\ a.st = "Pending"
  BY DEF Offered, Pending
<1>3. \A b \in approvals \ {a} : b.st # "Pending" /\ b.ev.vals < a.ev.vals
  BY <1>2 DEF AskInv, LatestInv
<1>4. d.st = st /\ d.ev = a.ev
  BY <1>2 DEF AskInv, IInv, TypeOK, GateType, Approval
<1>5. Pending = {a} /\ Pending' = {}
  BY <1>1, <1>2, <1>3, <1>4 DEF Pending
<1>6. Latest' = {d}
  <2>1. \A b \in approvals : b.ev.vals \in Nat
    BY DEF AskInv, IInv, TypeOK, GateType, Approval, Digest
  <2>2. \A b \in approvals' : b.ev.vals <= d.ev.vals
    <3>1. \A b \in approvals \ {a} : b.ev.vals <= a.ev.vals
      BY <1>2, <1>3, <2>1
    <3>2. a.ev.vals <= a.ev.vals
      BY <1>2, <2>1
    <3> QED
      BY <1>1, <1>4, <3>1, <3>2
  <2>3. \A b \in approvals \ {a} : ~(d.ev.vals <= b.ev.vals)
    BY <1>2, <1>3, <1>4, <2>1
  <2> QED
    BY <1>1, <2>2, <2>3 DEF Latest
<1>7. {b.ev : b \in Pending} = {Evidence} /\ {b.ev : b \in Pending'} = {}
  BY <1>1, <1>5
<1>8. {b.st : b \in Latest' \ Pending'} = {st}
  BY <1>4, <1>5, <1>6
<1>9. lc # "Finalized"
  BY <1>5 DEF AskInv, OpenInv
<1>10. Evidence' = Evidence /\ merged' = merged /\ lc' = lc
  BY DEF Decide, Evidence, taskVars, evidenceVars, diskVars
<1> QED
  BY <1>7, <1>8, <1>9, <1>10 DEF Promise!Answer

\* The task is finalized by the latest approval, and nothing was integrated.
LEMMA FinishFinalizes ==
  ASSUME AskInv, FinishDecision, lc # "Finalized", lc' = "Finalized"
  PROVE  Promise!Finalize
<1>1. pc = "approved"
  BY DEF FinishDecision, Enter, taskVars
<1>2. PICK a \in approvals :
        /\ a.st = "Approved"
        /\ \A b \in approvals : b = a \/ b.ev.vals < a.ev.vals
  BY <1>1 DEF AskInv, LatestInv
<1>3. Pending = {}
  BY <1>1 DEF AskInv, OpenInv
<1>4. Latest = {a}
  <2>1. \A b \in approvals : b.ev.vals \in Nat
    BY DEF AskInv, IInv, TypeOK, GateType, Approval, Digest
  <2> QED
    BY <1>2, <2>1 DEF Latest
<1>5. /\ {b.ev : b \in Pending} = {}
      /\ {b.st : b \in Latest \ Pending} = {"Approved"}
  BY <1>2, <1>3, <1>4
<1>6. merged = << >>
  BY <1>2 DEF AskInv, ModeInv
<1>7. /\ Evidence' = Evidence /\ Pending' = Pending /\ Latest' = Latest
      /\ merged' = merged
  BY DEF FinishDecision, Evidence, Pending, Latest, evidenceVars, gateVars,
         diskVars
<1> QED
  BY <1>5, <1>6, <1>7 DEF Promise!Finalize

\* The commit is cherry-picked once, for a task nobody was asked about.
LEMMA PickLands ==
  ASSUME AskInv, CherryPick
  PROVE  Promise!Land
<1>1. merged = << >> /\ merged' = <<head>>
  <2>1. target = 0
    BY DEF AskInv, IInv, PickInv, CherryPick
  <2>2. merged = << >>
    BY <2>1 DEF AskInv, IInv, PickInv
  <2> QED
    BY <2>2 DEF CherryPick
<1>2. approvals = {} /\ lc # "Finalized"
  BY DEF AskInv, ModeInv, OpenInv, CherryPick
<1>3. Pending = {} /\ Latest = {} /\ Pending' = {} /\ Latest' = {}
  BY <1>2 DEF Pending, Latest, CherryPick, gateVars
<1>4. lc' = lc
  BY DEF CherryPick, taskVars
<1> QED
  BY <1>1, <1>2, <1>3, <1>4 DEF Promise!Land

\* Every other step is no answer and has no effect of one.
LEMMA OtherWork ==
  ASSUME AskInv, [Next]_vars, ~Decide, ~OfferApproval, ~CherryPick,
         ~(FinishDecision /\ lc # "Finalized" /\ lc' = "Finalized")
  PROVE  Promise!Work
<1>1. approvals' = approvals /\ Pending' = Pending
  BY ApprovalsKept
<1>2. Latest' = Latest
  BY <1>1 DEF Latest
<1>3. merged' = merged
  <2> USE DEF vars, diskVars
  <2>1. CASE Start
    BY <2>1 DEF Start, StartTask, CreateWorktree, WorktreeRefused,
        OpenSession, LaunchFails, EnterImplementing, TakeOwnership,
        TurnStartFails
  <2>2. CASE Provider
    BY <2>2 DEF Provider, ProviderEdits, ProviderCommits, TurnCompletes,
        ChildExits, ApiRunFails, OrphanExits, TargetMoves
  <2>3. CASE Implement
    BY <2>3 DEF Implement, PollExitedOmp, ReapApiRun, CompleteImplementing,
        ReleaseFails, SnapshotFails
  <2>4. CASE Validate
    BY <2>4 DEF Validate, StartValidation, NoProfile, ChecksPass,
        ChecksReject, ChecksFail, BindGeneration
  <2>5. CASE Review
    BY <2>5 DEF Review, StartReview, StaleReview, ReviewReturns, ReviewFails,
        DisposeRepaired, PersistFindings, MalformedFindings, ConfirmFindings
  <2>6. CASE Repair
    BY <2>6 DEF Repair, RepairLimit, StartRepair, SendRepair, RepairFails,
        RepairRefused, FinishRepair
  <2>7. CASE Gate
    BY <2>7 DEF Gate, RefuseAuto, CheckEvidence, EvidenceRefused, FinalVerify,
        FinalVerifyFails, BindEvidence, OfferApproval
  <2>8. CASE Integrate
    BY <2>8 DEF Integrate, BeginIntegration, IntegrateCheck, CommitSource,
        CherryPick, RecordIntegration, FinishIntegration, BlockIntegration
  <2>9. CASE User
    BY <2>9 DEF User, Decide, FinishDecision, BeginStop, FinishStop,
        StopFails, RetryReview, RetryOmp, FinishRetry
  <2>10. CASE Host
    BY <2>10 DEF Host, Shutdown, Crash, Boot, ReselectRepository
  <2>11. CASE Recover
    BY <2>11 DEF Recover, SkipTask, RestoreTask, LeaveRecovering, RestoreGate,
        BlockInterrupted, ResumeCodex
  <2>12. CASE UNCHANGED vars
    BY <2>12
  <2> QED
    BY <2>1, <2>2, <2>3, <2>4, <2>5, <2>6, <2>7, <2>8, <2>9, <2>10, <2>11,
       <2>12 DEF Next
<1>4. lc' = "Finalized" <=> lc = "Finalized"
  <2> USE FinalLifecycles DEF AskInv, OpenInv, ImplementingDone, StopOffered,
          Enter, Goto, Return, FailStage, Restore, Abandon, RunProfile,
          Terminal, TaskTerminal, vars, taskVars, sessionVars, localVars
  <2>1. CASE Start
    BY <2>1 DEF Start, StartTask, CreateWorktree, WorktreeRefused,
        OpenSession, LaunchFails, EnterImplementing, TakeOwnership,
        TurnStartFails
  <2>2. CASE Provider
    BY <2>2 DEF Provider, ProviderEdits, ProviderCommits, TurnCompletes,
        ChildExits, ApiRunFails, OrphanExits, TargetMoves
  <2>3. CASE Implement
    BY <2>3 DEF Implement, PollExitedOmp, ReapApiRun, CompleteImplementing,
        ReleaseFails, SnapshotFails
  <2>4. CASE Validate
    BY <2>4 DEF Validate, StartValidation, NoProfile, ChecksPass,
        ChecksReject, ChecksFail, BindGeneration
  <2>5. CASE Review
    BY <2>5 DEF Review, StartReview, StaleReview, ReviewReturns, ReviewFails,
        DisposeRepaired, PersistFindings, MalformedFindings, ConfirmFindings
  <2>6. CASE Repair
    BY <2>6 DEF Repair, RepairLimit, StartRepair, SendRepair, RepairFails,
        RepairRefused, FinishRepair
  <2>7. CASE Gate
    BY <2>7 DEF Gate, RefuseAuto, CheckEvidence, EvidenceRefused, FinalVerify,
        FinalVerifyFails, BindEvidence, OfferApproval
  <2>8. CASE Integrate
    BY <2>8 DEF Integrate, BeginIntegration, IntegrateCheck, CommitSource,
        CherryPick, RecordIntegration, FinishIntegration, BlockIntegration
  <2>9. CASE User
    BY <2>9 DEF User, Decide, FinishDecision, BeginStop, FinishStop,
        StopFails, RetryReview, RetryOmp, FinishRetry
  <2>10. CASE Host
    BY <2>10 DEF Host, Shutdown, Crash, Boot, ReselectRepository
  <2>11. CASE Recover
    BY <2>11 DEF Recover, SkipTask, RestoreTask, LeaveRecovering, RestoreGate,
        BlockInterrupted, ResumeCodex
  <2>12. CASE UNCHANGED vars
    BY <2>12
  <2> QED
    BY <2>1, <2>2, <2>3, <2>4, <2>5, <2>6, <2>7, <2>8, <2>9, <2>10, <2>11,
       <2>12 DEF Next
<1> QED
  BY <1>1, <1>2, <1>3, <1>4 DEF Promise!Work

\* Every step of the workflow is one of the promise, or changes nothing of it.
LEMMA PromiseStep ==
  AskInv /\ [Next]_vars => [Promise!Next]_(Promise!gateVars)
<1> SUFFICES ASSUME AskInv, [Next]_vars
             PROVE  Promise!Next
  OBVIOUS
<1>1. CASE Decide
  BY <1>1, DecideAnswers DEF Promise!Next
<1>2. CASE OfferApproval
  BY <1>2, OfferAsks DEF Promise!Next
<1>3. CASE FinishDecision /\ lc # "Finalized" /\ lc' = "Finalized"
  BY <1>3, FinishFinalizes DEF Promise!Next
<1>4. CASE CherryPick
  BY <1>4, PickLands DEF Promise!Next
<1> QED
  BY <1>1, <1>2, <1>3, <1>4, OtherWork DEF Promise!Next

\* The workflow implements HumanGate: over any crashes, restarts, retries and
\* later gates there is one question at a time, an answer counts for the
\* evidence it was asked about, and nothing is finalized or lands but by the
\* latest approval, or unasked and once.
THEOREM KeepsPromise == Spec => HumanDecides
<1>1. AskInv /\ [Next]_vars => [Promise!Next]_(Promise!gateVars)
  BY PromiseStep
<1>2. Init => Promise!Init
  BY PromiseInit
<1> QED
  BY <1>1, <1>2, AskInvariance, PTL DEF Spec, HumanDecides, Promise!Spec

-------------------------------------------------------------------------------
(* What a stage of the workflow may rely on.  First, for every value of    *)
(* the constants: the store refuses an illegal lifecycle pair, and no step *)
(* asks for one.  The invariant says what a call may rely on at each of    *)
(* its points: the task's lifecycle, although an API run or a restart may  *)
(* write it in between, the rounds that are open, and what the review has  *)
(* settled.                                                                *)
(*                                                                         *)
(* Then, for every task whose tree only its own turn and its repairs edit: *)
(* what is released is what was reviewed.                                  *)

\* The lifecycle a call finds at its next step.
PhaseInv ==
  /\ pc \in {"worktree", "launch", "started"} => lc = "Preparing"
  /\ pc = "own" => lc = "Implementing"
  /\ pc \in {"checks", "bind"} => lc = "Validating"
  /\ pc \in {"rereview", "reviewer", "dispose", "persist", "confirm",
             "evidence", "verify", "final"} => lc = "Reviewing"
  /\ pc = "rereview" => gen # 0
  /\ pc \in {"repair", "fix", "fixed"} => lc = "Repairing"
  /\ pc \in {"integrate", "commit", "pick", "record", "finish"} =>
       lc = "Integrating"
  /\ pc = "retry" => lc = "Recovering" /\ kind = "omp"
  /\ pc = "stopping" =>
       lc \in {"Preparing", "Implementing", "AwaitingApproval", "Repairing",
               "Blocked"}
  /\ pc = "recover" =>
       \/ lc = "Recovering"
       \/ lc = "Blocked" /\ kind = "api" /\ ~turnDone /\ turn # "running"

\* Rounds are opened in order, and while a repair runs the last is active.
RoundInv ==
  /\ \A n \in Opened : 1..n \subseteq Opened
  /\ pc \in {"fix", "fixed"} =>
       \A n \in Opened : n + 1 \notin Opened => rounds[n] = "Active"

\* A blocker is recorded once for a generation; only a confirmed one has a
\* round, and from the settling of the repaired ones to the next repair a
\* confirmed one has none.
FindingInv ==
  /\ \A f, g \in findings : f.issue = g.issue /\ f.gen = g.gen => f = g
  /\ \A f \in findings : f.disp = "Reported" => f.round = 0
  /\ pc \in {"persist", "confirm", "repair"} =>
       \A f \in Confirmed : f.round = 0
  /\ pc = "repair" => Confirmed # {}

StoreInv == AskInv /\ PhaseInv /\ RoundInv /\ FindingInv

-------------------------------------------------------------------------------
\* The pairs of the lifecycle tables the workflow uses.
LEMMA TaskPairs ==
  /\ TaskSuccessors["Draft"] = {"Preparing", "Cancelled"}
  /\ {"Implementing", "Blocked", "Failed", "Cancelled", "Recovering"}
       \subseteq TaskSuccessors["Preparing"]
  /\ {"Validating", "Completed", "Blocked", "Failed", "Cancelled",
      "Recovering"} \subseteq TaskSuccessors["Implementing"]
  /\ {"Blocked", "Cancelled", "Recovering"}
       \subseteq TaskSuccessors["AwaitingApproval"]
  /\ {"Reviewing", "Blocked", "Recovering"}
       \subseteq TaskSuccessors["Validating"]
  /\ {"Repairing", "ReadyForHuman", "Blocked", "Recovering"}
       \subseteq TaskSuccessors["Reviewing"]
  /\ {"Validating", "Blocked", "Cancelled", "Recovering"}
       \subseteq TaskSuccessors["Repairing"]
  /\ {"Finalized", "Integrating", "Blocked", "Recovering"}
       \subseteq TaskSuccessors["ReadyForHuman"]
  /\ {"Integrated", "Blocked", "Recovering"}
       \subseteq TaskSuccessors["Integrating"]
  /\ {"Implementing", "ReadyForHuman", "Blocked"}
       \subseteq TaskSuccessors["Recovering"]
  /\ TaskSuccessors["Blocked"] = {"Reviewing"}
BY DEF TaskSuccessors, TaskLifecycle

LEMMA FindingPairs ==
  /\ DispositionSuccessors["Reported"] =
       {"ConfirmedBlocking", "Informational", "Dismissed"}
  /\ DispositionSuccessors["ConfirmedBlocking"] = {"Repaired", "Dismissed"}
BY DEF DispositionSuccessors, Disposition

LEMMA RoundPairs ==
  /\ "AwaitingValidation" \in RoundSuccessors["Active"]
  /\ {"Resolved", "Exhausted"} \subseteq RoundSuccessors["AwaitingValidation"]
BY DEF RoundSuccessors, RoundLifecycle

-------------------------------------------------------------------------------
\* Every step leaves a call at a lifecycle it may rely on, and takes the task
\* along its table.
LEMMA PhaseStep ==
  ASSUME AskInv, PhaseInv, [Next]_vars
  PROVE  PhaseInv' /\ (lc' # lc => lc' \in TaskSuccessors[lc])
<1> USE TaskPairs DEF AskInv, IInv, TypeOK, TaskType, TaskLifecycle, GateInv,
        GatePoints, Clean, TurnInv, OpenInv, PhaseInv, LatePoints, Stale,
        ImplementingDone, GateOnRecord, StopOffered, Enter, Goto, Return,
        FailStage, Restore, Abandon, RunProfile, Terminal, TaskTerminal, vars,
        taskVars, sessionVars, evidenceVars, gateVars, diskVars, procVars,
        hostVars, localVars
<1>1. CASE Start
  BY <1>1 DEF Start, StartTask, CreateWorktree, WorktreeRefused, OpenSession,
      LaunchFails, EnterImplementing, TakeOwnership, TurnStartFails
<1>2. CASE Provider
  BY <1>2 DEF Provider, ProviderEdits, ProviderCommits, TurnCompletes,
      ChildExits, ApiRunFails, OrphanExits, TargetMoves
<1>3. CASE Implement
  BY <1>3 DEF Implement, PollExitedOmp, ReapApiRun, CompleteImplementing,
      ReleaseFails, SnapshotFails
<1>4. CASE Validate
  BY <1>4 DEF Validate, StartValidation, NoProfile, ChecksPass, ChecksReject,
      ChecksFail, BindGeneration
<1>5. CASE Review
  BY <1>5 DEF Review, StartReview, StaleReview, ReviewReturns, ReviewFails,
      DisposeRepaired, PersistFindings, MalformedFindings, ConfirmFindings
<1>6. CASE Repair
  BY <1>6 DEF Repair, RepairLimit, StartRepair, SendRepair, RepairFails,
      RepairRefused, FinishRepair
<1>7. CASE Gate
  BY <1>7 DEF Gate, RefuseAuto, CheckEvidence, EvidenceRefused, FinalVerify,
      FinalVerifyFails, BindEvidence, OfferApproval
<1>8. CASE Integrate
  BY <1>8 DEF Integrate, BeginIntegration, IntegrateCheck, CommitSource,
      CherryPick, RecordIntegration, FinishIntegration, BlockIntegration
<1>9. CASE User
  BY <1>9 DEF User, Decide, FinishDecision, BeginStop, FinishStop, StopFails,
      RetryReview, RetryOmp, FinishRetry
<1>10. CASE Host
  BY <1>10 DEF Host, Shutdown, Crash, Boot, ReselectRepository
<1>11. CASE Recover
  BY <1>11 DEF Recover, SkipTask, RestoreTask, LeaveRecovering, RestoreGate,
      BlockInterrupted, ResumeCodex
<1>12. CASE UNCHANGED vars
  BY <1>12
<1> QED
  BY <1>1, <1>2, <1>3, <1>4, <1>5, <1>6, <1>7, <1>8, <1>9, <1>10, <1>11,
     <1>12 DEF Next

-------------------------------------------------------------------------------
\* Only three steps write rounds, and four write findings.
LEMMA RoundsKept ==
  ASSUME [Next]_vars, ~DisposeRepaired, ~StartRepair, ~FinishRepair
  PROVE  /\ rounds' = rounds
         /\ pc' \in {"fix", "fixed"} => pc \in {"fix", "fixed"}
<1> USE DEF Enter, Goto, Return, FailStage, RunProfile, Abandon, vars,
        evidenceVars, localVars
<1>1. CASE Start
  BY <1>1 DEF Start, StartTask, CreateWorktree, WorktreeRefused, OpenSession,
      LaunchFails, EnterImplementing, TakeOwnership, TurnStartFails
<1>2. CASE Provider
  BY <1>2 DEF Provider, ProviderEdits, ProviderCommits, TurnCompletes,
      ChildExits, ApiRunFails, OrphanExits, TargetMoves
<1>3. CASE Implement
  BY <1>3 DEF Implement, PollExitedOmp, ReapApiRun, CompleteImplementing,
      ReleaseFails, SnapshotFails
<1>4. CASE Validate
  BY <1>4 DEF Validate, StartValidation, NoProfile, ChecksPass, ChecksReject,
      ChecksFail, BindGeneration
<1>5. CASE Review
  BY <1>5 DEF Review, StartReview, StaleReview, ReviewReturns, ReviewFails,
      DisposeRepaired, PersistFindings, MalformedFindings, ConfirmFindings
<1>6. CASE Repair
  BY <1>6 DEF Repair, RepairLimit, StartRepair, SendRepair, RepairFails,
      RepairRefused, FinishRepair
<1>7. CASE Gate
  BY <1>7 DEF Gate, RefuseAuto, CheckEvidence, EvidenceRefused, FinalVerify,
      FinalVerifyFails, BindEvidence, OfferApproval
<1>8. CASE Integrate
  BY <1>8 DEF Integrate, BeginIntegration, IntegrateCheck, CommitSource,
      CherryPick, RecordIntegration, FinishIntegration, BlockIntegration
<1>9. CASE User
  BY <1>9 DEF User, Decide, FinishDecision, BeginStop, FinishStop, StopFails,
      RetryReview, RetryOmp, FinishRetry
<1>10. CASE Host
  BY <1>10 DEF Host, Shutdown, Crash, Boot, ReselectRepository
<1>11. CASE Recover
  BY <1>11 DEF Recover, SkipTask, RestoreTask, LeaveRecovering, RestoreGate,
      BlockInterrupted, ResumeCodex
<1>12. CASE UNCHANGED vars
  BY <1>12
<1> QED
  BY <1>1, <1>2, <1>3, <1>4, <1>5, <1>6, <1>7, <1>8, <1>9, <1>10, <1>11,
     <1>12 DEF Next

LEMMA FindingsKept ==
  ASSUME [Next]_vars, ~DisposeRepaired, ~PersistFindings, ~ConfirmFindings,
         ~StartRepair
  PROVE  /\ findings' = findings
         /\ pc' \in {"persist", "confirm", "repair"} => pc' = pc
<1> USE DEF Enter, Goto, Return, FailStage, RunProfile, Abandon, vars,
        evidenceVars, localVars
<1>1. CASE Start
  BY <1>1 DEF Start, StartTask, CreateWorktree, WorktreeRefused, OpenSession,
      LaunchFails, EnterImplementing, TakeOwnership, TurnStartFails
<1>2. CASE Provider
  BY <1>2 DEF Provider, ProviderEdits, ProviderCommits, TurnCompletes,
      ChildExits, ApiRunFails, OrphanExits, TargetMoves
<1>3. CASE Implement
  BY <1>3 DEF Implement, PollExitedOmp, ReapApiRun, CompleteImplementing,
      ReleaseFails, SnapshotFails
<1>4. CASE Validate
  BY <1>4 DEF Validate, StartValidation, NoProfile, ChecksPass, ChecksReject,
      ChecksFail, BindGeneration
<1>5. CASE Review
  BY <1>5 DEF Review, StartReview, StaleReview, ReviewReturns, ReviewFails,
      DisposeRepaired, PersistFindings, MalformedFindings, ConfirmFindings
<1>6. CASE Repair
  BY <1>6 DEF Repair, RepairLimit, StartRepair, SendRepair, RepairFails,
      RepairRefused, FinishRepair
<1>7. CASE Gate
  BY <1>7 DEF Gate, RefuseAuto, CheckEvidence, EvidenceRefused, FinalVerify,
      FinalVerifyFails, BindEvidence, OfferApproval
<1>8. CASE Integrate
  BY <1>8 DEF Integrate, BeginIntegration, IntegrateCheck, CommitSource,
      CherryPick, RecordIntegration, FinishIntegration, BlockIntegration
<1>9. CASE User
  BY <1>9 DEF User, Decide, FinishDecision, BeginStop, FinishStop, StopFails,
      RetryReview, RetryOmp, FinishRetry
<1>10. CASE Host
  BY <1>10 DEF Host, Shutdown, Crash, Boot, ReselectRepository
<1>11. CASE Recover
  BY <1>11 DEF Recover, SkipTask, RestoreTask, LeaveRecovering, RestoreGate,
      BlockInterrupted, ResumeCodex
<1>12. CASE UNCHANGED vars
  BY <1>12
<1> QED
  BY <1>1, <1>2, <1>3, <1>4, <1>5, <1>6, <1>7, <1>8, <1>9, <1>10, <1>11,
     <1>12 DEF Next

\* Every step keeps the rounds in order and takes them along their table.
LEMMA RoundStep ==
  ASSUME TypeOK, RoundInv, [Next]_vars
  PROVE  /\ RoundInv'
         /\ \A n \in RoundIds :
              rounds[n] # "none" /\ rounds'[n] # rounds[n] =>
                rounds'[n] \in RoundSuccessors[rounds[n]]
<1>1. CASE DisposeRepaired
  <2>1. \A n \in RoundIds :
          /\ rounds'[n] \in {rounds[n], "Exhausted", "Resolved"}
          /\ rounds[n] # "AwaitingValidation" => rounds'[n] = rounds[n]
    BY <1>1 DEF DisposeRepaired
  <2>2. Opened' = Opened
    BY <2>1 DEF Opened
  <2>3. pc' = "persist"
    BY <1>1 DEF DisposeRepaired, Goto
  <2> QED
    BY <2>1, <2>2, <2>3, RoundPairs DEF RoundInv
<1>2. CASE StartRepair
  <2>1. PICK n \in RoundIds \ Opened :
          /\ 1..(n - 1) \subseteq Opened
          /\ rounds' = [rounds EXCEPT ![n] = "Active"]
    BY <1>2 DEF StartRepair
  <2>2. n \in Nat \ {0} /\ Opened \subseteq Nat
    BY DEF RoundIds, Opened
  <2>3. \A m \in RoundIds : rounds'[m] = IF m = n THEN "Active" ELSE rounds[m]
    BY <2>1 DEF TypeOK, EvidenceType, Rounds
  <2>4. Opened' = Opened \union {n}
    BY <2>1, <2>3 DEF Opened
  <2>5. \A m \in Opened : m < n
    BY <2>1, <2>2 DEF RoundInv
  <2>6. \A m \in Opened' : 1..m \subseteq Opened'
    BY <2>1, <2>2, <2>4 DEF RoundInv
  <2>7. \A m \in Opened' : m + 1 \notin Opened' => m = n
    <3> SUFFICES ASSUME NEW m \in Opened, m # n
                 PROVE  m + 1 \in Opened'
      BY <2>4
    <3> QED
      BY <2>1, <2>2, <2>4, <2>5
  <2>8. \A m \in RoundIds : rounds[m] # "none" => rounds'[m] = rounds[m]
    BY <2>1, <2>3 DEF Opened
  <2> QED
    BY <2>1, <2>3, <2>6, <2>7, <2>8 DEF RoundInv
<1>3. CASE FinishRepair
  <2>1. PICK n \in Opened :
          /\ n + 1 \notin Opened
          /\ rounds' = [rounds EXCEPT ![n] = "AwaitingValidation"]
    BY <1>3 DEF FinishRepair
  <2>2. n \in RoundIds /\ rounds[n] = "Active"
    BY <1>3, <2>1 DEF RoundInv, FinishRepair, Opened
  <2>3. \A m \in RoundIds :
          rounds'[m] = IF m = n THEN "AwaitingValidation" ELSE rounds[m]
    BY <2>1 DEF TypeOK, EvidenceType, Rounds
  <2>4. Opened' = Opened
    BY <2>1, <2>3 DEF Opened
  <2>5. pc' = "idle"
    BY <1>3 DEF FinishRepair, Return
  <2> QED
    BY <2>2, <2>3, <2>4, <2>5, RoundPairs DEF RoundInv
<1>4. CASE ~DisposeRepaired /\ ~StartRepair /\ ~FinishRepair
  <2>1. Opened' = Opened
    BY <1>4, RoundsKept DEF Opened
  <2> QED
    BY <1>4, <2>1, RoundsKept DEF RoundInv
<1> QED
  BY <1>1, <1>2, <1>3, <1>4

-------------------------------------------------------------------------------
\* What a step may do to the findings: no blocker gets a second record of the
\* same generation, and each goes along its table.
FindingsMove ==
  /\ FindingInv'
  /\ \A f \in findings, g \in findings' :
       f.issue = g.issue /\ f.gen = g.gen /\ f.disp # g.disp =>
         g.disp \in DispositionSuccessors[f.disp]

LEMMA DisposeMoves ==
  ASSUME TypeOK, FindingInv, DisposeRepaired
  PROVE  FindingsMove
<1> DEFINE verdict(f) == IF f.issue \in cands THEN "Dismissed" ELSE "Repaired"
           settle(f)  == IF SentToRepair(f) THEN [f EXCEPT !.disp = verdict(f)]
                                            ELSE f
<1>1. findings' = {settle(f) : f \in findings}
  BY DEF DisposeRepaired
<1>2. ASSUME NEW f \in findings
      PROVE  /\ settle(f).issue = f.issue /\ settle(f).gen = f.gen
             /\ settle(f).round = f.round
             /\ settle(f).disp = IF SentToRepair(f) THEN verdict(f) ELSE f.disp
  BY DEF TypeOK, EvidenceType, Finding
<1> HIDE DEF settle
<1>3. \A g \in findings' : \E f \in findings : g = settle(f)
  BY <1>1
<1>4. pc' = "persist"
  BY DEF DisposeRepaired, Goto
<1>5. \A f, g \in findings' : f.issue = g.issue /\ f.gen = g.gen => f = g
  BY <1>2, <1>3 DEF FindingInv
<1>6. \A g \in findings' :
        /\ g.disp = "Reported" => g.round = 0
        /\ g.disp = "ConfirmedBlocking" => g.round = 0
  BY <1>2, <1>3 DEF FindingInv, SentToRepair, Confirmed
<1>7. \A f \in findings, g \in findings' :
        f.issue = g.issue /\ f.gen = g.gen /\ f.disp # g.disp =>
          g.disp \in DispositionSuccessors[f.disp]
  BY <1>2, <1>3, FindingPairs DEF FindingInv, SentToRepair, Confirmed
<1> QED
  BY <1>4, <1>5, <1>6, <1>7 DEF FindingsMove, FindingInv, Confirmed

LEMMA PersistMoves ==
  ASSUME TypeOK, FindingInv, PersistFindings
  PROVE  FindingsMove
<1> DEFINE reported(i) ==
             [issue |-> i, gen |-> gen, disp |-> "Reported", round |-> 0]
           fresh == {j \in cands : \A f \in findings :
                                     ~(f.issue = j /\ f.gen = gen)}
<1>1. findings' = findings \union {reported(i) : i \in fresh}
  BY DEF PersistFindings
<1>2. \A g \in findings' : g \in findings \/ \E i \in fresh : g = reported(i)
  BY <1>1
<1>3. pc = "persist" /\ pc' = "confirm"
  BY DEF PersistFindings, Goto
<1>4. \A f, g \in findings' : f.issue = g.issue /\ f.gen = g.gen => f = g
  BY <1>2 DEF FindingInv
<1>5. \A g \in findings' :
        /\ g.disp = "Reported" => g.round = 0
        /\ g.disp = "ConfirmedBlocking" => g.round = 0
  BY <1>2, <1>3 DEF FindingInv, Confirmed
<1>6. \A f \in findings, g \in findings' :
        f.issue = g.issue /\ f.gen = g.gen => f.disp = g.disp
  BY <1>1, <1>4
<1> QED
  BY <1>3, <1>4, <1>5, <1>6 DEF FindingsMove, FindingInv, Confirmed

LEMMA ConfirmMoves ==
  ASSUME TypeOK, FindingInv, ConfirmFindings
  PROVE  FindingsMove
<1> DEFINE confirm(f) == IF f.disp = "Reported" /\ f.issue \notin Stray
                         THEN [f EXCEPT !.disp = "ConfirmedBlocking"] ELSE f
<1>1. findings' = {confirm(f) : f \in findings}
  BY DEF ConfirmFindings
<1>2. ASSUME NEW f \in findings
      PROVE  /\ confirm(f).issue = f.issue /\ confirm(f).gen = f.gen
             /\ confirm(f).round = f.round
             /\ \/ confirm(f).disp = f.disp
                \/ /\ f.disp = "Reported"
                   /\ confirm(f).disp = "ConfirmedBlocking"
  BY DEF TypeOK, EvidenceType, Finding
<1> HIDE DEF confirm
<1>3. \A g \in findings' : \E f \in findings : g = confirm(f)
  BY <1>1
<1>4. pc = "confirm"
  BY DEF ConfirmFindings
<1>5. \A f, g \in findings' : f.issue = g.issue /\ f.gen = g.gen => f = g
  BY <1>2, <1>3 DEF FindingInv
<1>6. \A g \in findings' :
        /\ g.disp = "Reported" => g.round = 0
        /\ g.disp = "ConfirmedBlocking" => g.round = 0
  BY <1>2, <1>3, <1>4 DEF FindingInv, Confirmed
<1>7. \A f \in findings, g \in findings' :
        f.issue = g.issue /\ f.gen = g.gen /\ f.disp # g.disp =>
          g.disp \in DispositionSuccessors[f.disp]
  BY <1>2, <1>3, FindingPairs DEF FindingInv
<1>8. pc' = "repair" => \E f \in findings' : f.disp = "ConfirmedBlocking"
  BY DEF ConfirmFindings, Goto
<1> QED
  BY <1>5, <1>6, <1>7, <1>8 DEF FindingsMove, FindingInv, Confirmed

LEMMA RepairMoves ==
  ASSUME TypeOK, FindingInv, StartRepair
  PROVE  FindingsMove
<1>1. PICK n \in RoundIds, f \in Repairable :
        findings' = (findings \ {f}) \union {[f EXCEPT !.round = n]}
  BY DEF StartRepair
<1> DEFINE d == [f EXCEPT !.round = n]
<1>2. f \in findings /\ f.disp = "ConfirmedBlocking"
  BY DEF Repairable, Confirmed
<1>3. d.issue = f.issue /\ d.gen = f.gen /\ d.disp = f.disp
  BY <1>2 DEF TypeOK, EvidenceType, Finding
<1>4. pc' = "fix"
  BY DEF StartRepair, Goto
<1>5. \A g \in findings' : g = d \/ g \in findings \ {f}
  BY <1>1
<1> HIDE DEF d
<1>6. \A g, h \in findings' : g.issue = h.issue /\ g.gen = h.gen => g = h
  BY <1>2, <1>3, <1>5 DEF FindingInv
<1>7. \A g \in findings' : g.disp = "Reported" => g.round = 0
  BY <1>2, <1>3, <1>5 DEF FindingInv
<1>8. \A g \in findings, h \in findings' :
        g.issue = h.issue /\ g.gen = h.gen => g.disp = h.disp
  BY <1>2, <1>3, <1>5 DEF FindingInv
<1> QED
  BY <1>4, <1>6, <1>7, <1>8 DEF FindingsMove, FindingInv

\* Every step moves the findings along their table.
LEMMA FindingStep ==
  ASSUME TypeOK, FindingInv, [Next]_vars
  PROVE  FindingsMove
<1>1. CASE DisposeRepaired
  BY <1>1, DisposeMoves
<1>2. CASE PersistFindings
  BY <1>2, PersistMoves
<1>3. CASE ConfirmFindings
  BY <1>3, ConfirmMoves
<1>4. CASE StartRepair
  BY <1>4, RepairMoves
<1>5. CASE /\ ~DisposeRepaired /\ ~PersistFindings /\ ~ConfirmFindings
           /\ ~StartRepair
  <2>1. findings' = findings /\ Confirmed' = Confirmed
    BY <1>5, FindingsKept DEF Confirmed
  <2>2. FindingInv'
    BY <1>5, <2>1, FindingsKept DEF FindingInv
  <2>3. \A f \in findings, g \in findings' :
          f.issue = g.issue /\ f.gen = g.gen => f.disp = g.disp
    BY <2>1 DEF FindingInv
  <2> QED
    BY <2>2, <2>3 DEF FindingsMove
<1> QED
  BY <1>1, <1>2, <1>3, <1>4, <1>5

-------------------------------------------------------------------------------
\* The invariant holds in every reachable state.
LEMMA StoreInit ==
  ASSUME Init
  PROVE  StoreInv
<1>1. PhaseInv /\ FindingInv
  BY DEF Init, PhaseInv, FindingInv, Confirmed
<1>2. RoundInv
  BY DEF Init, RoundInv, Opened
<1> QED
  BY <1>1, <1>2, AskInit DEF StoreInv

LEMMA StoreStep ==
  StoreInv /\ [Next]_vars =>
    /\ StoreInv'
    /\ lc' # lc => lc' \in TaskSuccessors[lc]
    /\ \A f \in findings, g \in findings' :
         f.issue = g.issue /\ f.gen = g.gen /\ f.disp # g.disp =>
           g.disp \in DispositionSuccessors[f.disp]
    /\ \A n \in RoundIds :
         rounds[n] # "none" /\ rounds'[n] # rounds[n] =>
           rounds'[n] \in RoundSuccessors[rounds[n]]
<1> SUFFICES ASSUME StoreInv, [Next]_vars
             PROVE  /\ AskInv' /\ PhaseInv' /\ RoundInv' /\ FindingsMove
                    /\ lc' # lc => lc' \in TaskSuccessors[lc]
                    /\ \A n \in RoundIds :
                         rounds[n] # "none" /\ rounds'[n] # rounds[n] =>
                           rounds'[n] \in RoundSuccessors[rounds[n]]
  BY DEF StoreInv, FindingsMove
<1>1. TypeOK
  BY DEF StoreInv, AskInv, IInv
<1> QED
  BY <1>1, AskStep, PhaseStep, RoundStep, FindingStep DEF StoreInv

LEMMA StoreInvariance == Spec => []StoreInv
<1>1. StoreInv /\ [Next]_vars => StoreInv'
  BY StoreStep
<1> QED
  BY StoreInit, <1>1, PTL DEF Spec

\* No step of the supervisor asks the store for an illegal pair of lifecycles
\* of the task, of a finding or of a repair round, whatever was written since
\* the running call last read them.
THEOREM StoreAccepts == Spec => StoreNeverRefuses
<1>1. StoreInv /\ [Next]_vars =>
        [/\ lc' # lc => lc' \in TaskSuccessors[lc]
         /\ \A f \in findings, g \in findings' :
              f.issue = g.issue /\ f.gen = g.gen /\ f.disp # g.disp =>
                g.disp \in DispositionSuccessors[f.disp]
         /\ \A n \in RoundIds :
              rounds[n] # "none" /\ rounds'[n] # rounds[n] =>
                rounds'[n] \in RoundSuccessors[rounds[n]]]_vars
  BY StoreStep
<1> QED
  BY <1>1, StoreInvariance, PTL DEF Spec, StoreNeverRefuses

\* The repair stage always has something to send: a task that enters repair
\* with a round left has a confirmed blocker no round was opened for.
THEOREM RepairSupplied == Spec => []RepairHasWork
<1>1. StoreInv => RepairHasWork
  BY DEF StoreInv, FindingInv, RepairHasWork
<1> QED
  BY <1>1, StoreInvariance, PTL

-------------------------------------------------------------------------------
(***************************************************************************)
(* What is released is what was reviewed, for every task whose tree only   *)
(* its own turn and its repairs edit: no OMP implementer, whose retry does *)
(* not forget an older turn, no provider that outlives its owner and no    *)
(* check that writes to the tree it checks.  Everything else is as general *)
(* as the workflow: any other provider, any mode, number of blockers,      *)
(* rounds, edits, crashes and restarts.                                    *)
(***************************************************************************)
Quiet == "omp" \notin Kinds /\ ~Orphans /\ ~ChecksEdit

\* Whose turn may run when: the turn of Claude and of an API run runs once,
\* and Codex runs only while the task is being implemented.  A question is
\* then open only at the gate or in recovery.
TurnsInv ==
  /\ kind # "omp" /\ ~orphan
  /\ kind = "claude" /\ turnDone => turn # "running"
  /\ kind = "codex" /\ turn = "running" =>
       lc = "Implementing" /\ owned /\ pc # "own"
  /\ lc \in {"Reviewing", "ReadyForHuman", "Integrating"} => turnDone
  /\ Pending # {} => /\ lc \in {"ReadyForHuman", "Recovering"}
                     /\ pc \in {"idle", "down", "boot", "recover"}
  /\ pc \in {"approved", "denied"} => lc = "ReadyForHuman"

\* A task that Sentinel made a commit for: it is not worked on any more.
Ended ==
  /\ mode = "auto_integrate" /\ turnDone /\ aux # {}
  /\ lc \in {"Integrating", "Integrated", "Blocked", "Recovering"}
  /\ pc \in {"pick", "record", "finish", "idle", "down", "boot", "recover"}

\* The commit that is to be picked: the generation's tree, on its HEAD.
Reviewed == [from |-> genHead.tree, tree |-> genTree]

\* From the start of a review to its release the tree and the HEAD are the
\* generation's; a task whose commit is on the target branch gets no other
\* generation, and one that nobody else commits for has none on that commit.
TreeInv ==
  /\ pc \in {"reviewer", "dispose", "persist", "confirm", "evidence",
             "verify", "final", "offer", "integrate", "commit"} =>
       tree = genTree /\ head = genHead
  /\ pc \in {"integrate", "commit", "pick"} => aux # {}
  /\ pc = "commit" => genHead.tree # genTree
  /\ pc = "pick" => head = Reviewed /\ genHead.tree # genTree
  /\ merged # << >> =>
       /\ Ended /\ pc # "pick"
       /\ merged = <<Reviewed>> /\ head # genHead
  /\ kind \notin Committers =>
       genHead = Base /\ (head # Base => Ended)

\* The tree of an open question, and of the approval that finalizes, is the
\* generation's.
ReleaseInv ==
  /\ pc = "offer" => \A d \in packet : d.tree = genTree
  /\ \A a \in Pending : a.ev.tree = genTree
  /\ pc = "approved" \/ lc = "Finalized" =>
       \E a \in approvals : a.st = "Approved" /\ a.ev.tree = genTree

QuietInv == StoreInv /\ TurnsInv /\ TreeInv /\ ReleaseInv

-------------------------------------------------------------------------------
\* The implementer's turn is over in every stage.
LEMMA StagesQuiet ==
  ASSUME TypeOK, TurnInv, TurnsInv
  PROVE  StageHasQuietTree
BY KindsAssumption
DEF TypeOK, TaskType, TurnInv, TurnsInv, StageHasQuietTree

\* Every step keeps the facts about turns.
LEMMA TurnsStep ==
  ASSUME Quiet, StoreInv, TurnsInv, [Next]_vars
  PROVE  TurnsInv'
<1>1. /\ OwnerInv /\ TurnInv /\ SessionInv /\ ModeInv /\ OpenInv /\ PhaseInv
      /\ kind \in {"codex", "claude", "api"}
  BY KindsAssumption
  DEF StoreInv, AskInv, IInv, TypeOK, TaskType, TurnsInv
<1>2. CASE Decide
  BY <1>1, <1>2, DecideCloses
  DEF StoreInv, AskInv, TurnsInv, Decide, Goto, taskVars, sessionVars,
      procVars, hostVars
<1>3. CASE OfferApproval
  BY <1>1, <1>3
  DEF StoreInv, AskInv, OpenInv, TurnsInv, OfferApproval, Return, taskVars,
      sessionVars, procVars, hostVars
<1>4. CASE ~Decide /\ ~OfferApproval
  <2>a. /\ approvals' = approvals /\ Pending' = Pending
        /\ Pending # {} => approvals # {}
    BY <1>4, ApprovalsKept DEF Pending
  <2> USE <1>1, <1>4, <2>a, FinalLifecycles DEF Quiet, OwnerInv, TurnInv,
          SessionInv, ModeInv, OpenInv, PhaseInv, TurnsInv, LatePoints,
          ReviewedPoints, Stale, ImplementingDone, GateOnRecord, StopOffered,
          Enter, Goto, Return, FailStage, Restore, Abandon, RunProfile,
          Terminal, TaskTerminal, vars, taskVars, sessionVars, evidenceVars,
          gateVars, diskVars, procVars, hostVars, localVars
  <2>1. CASE Start
    <3>1. CASE StartTask
      BY <3>1 DEF StartTask
    <3>2. CASE CreateWorktree
      BY <3>2 DEF CreateWorktree
    <3>3. CASE WorktreeRefused
      BY <3>3 DEF WorktreeRefused
    <3>4. CASE OpenSession
      BY <3>4 DEF OpenSession
    <3>5. CASE LaunchFails
      BY <3>5 DEF LaunchFails
    <3>6. CASE EnterImplementing
      BY <3>6 DEF EnterImplementing
    <3>7. CASE TakeOwnership
      BY <3>7 DEF TakeOwnership
    <3>8. CASE TurnStartFails
      BY <3>8 DEF TurnStartFails
    <3> QED
      BY <3>1, <3>2, <3>3, <3>4, <3>5, <3>6, <3>7, <3>8, <2>1 DEF Start
  <2>2. CASE Provider
    BY <2>2 DEF Provider, ProviderEdits, ProviderCommits, TurnCompletes,
        ChildExits, ApiRunFails, OrphanExits, TargetMoves
  <2>3. CASE Implement
    BY <2>3 DEF Implement, PollExitedOmp, ReapApiRun, CompleteImplementing,
        ReleaseFails, SnapshotFails
  <2>4. CASE Validate
    BY <2>4 DEF Validate, StartValidation, NoProfile, ChecksPass,
        ChecksReject, ChecksFail, BindGeneration
  <2>5. CASE Review
    BY <2>5 DEF Review, StartReview, StaleReview, ReviewReturns, ReviewFails,
        DisposeRepaired, PersistFindings, MalformedFindings, ConfirmFindings
  <2>6. CASE Repair
    BY <2>6 DEF Repair, RepairLimit, StartRepair, SendRepair, RepairFails,
        RepairRefused, FinishRepair
  <2>7. CASE Gate
    BY <2>7 DEF Gate, RefuseAuto, CheckEvidence, EvidenceRefused, FinalVerify,
        FinalVerifyFails, BindEvidence, OfferApproval
  <2>8. CASE Integrate
    <3>1. CASE BeginIntegration
      BY <3>1 DEF BeginIntegration
    <3>2. CASE IntegrateCheck
      BY <3>2 DEF IntegrateCheck
    <3>3. CASE CommitSource
      BY <3>3 DEF CommitSource
    <3>4. CASE CherryPick
      BY <3>4 DEF CherryPick
    <3>5. CASE RecordIntegration
      BY <3>5 DEF RecordIntegration
    <3>6. CASE FinishIntegration
      BY <3>6 DEF FinishIntegration
    <3>7. CASE BlockIntegration
      BY <3>7 DEF BlockIntegration
    <3> QED
      BY <3>1, <3>2, <3>3, <3>4, <3>5, <3>6, <3>7, <2>8 DEF Integrate
  <2>9. CASE User
    <3>1. CASE Decide
      BY <3>1 DEF Decide
    <3>2. CASE FinishDecision
      BY <3>2 DEF FinishDecision
    <3>3. CASE BeginStop
      BY <3>3 DEF BeginStop
    <3>4. CASE FinishStop
      BY <3>4 DEF FinishStop
    <3>5. CASE StopFails
      BY <3>5 DEF StopFails
    <3>6. CASE RetryReview
      BY <3>6 DEF RetryReview
    <3>7. CASE RetryOmp
      BY <3>7 DEF RetryOmp
    <3>8. CASE FinishRetry
      BY <3>8 DEF FinishRetry
    <3> QED
      BY <3>1, <3>2, <3>3, <3>4, <3>5, <3>6, <3>7, <3>8, <2>9 DEF User
  <2>10. CASE Host
    BY <2>10 DEF Host, Shutdown, Crash, Boot, ReselectRepository
  <2>11. CASE Recover
    <3>1. CASE SkipTask
      BY <3>1 DEF SkipTask
    <3>2. CASE RestoreTask
      BY <3>2 DEF RestoreTask
    <3>3. CASE LeaveRecovering
      BY <3>3 DEF LeaveRecovering
    <3>4. CASE RestoreGate
      BY <3>4 DEF RestoreGate
    <3>5. CASE BlockInterrupted
      BY <3>5 DEF BlockInterrupted
    <3>6. CASE ResumeCodex
      BY <3>6 DEF ResumeCodex
    <3> QED
      BY <3>1, <3>2, <3>3, <3>4, <3>5, <3>6, <2>11 DEF Recover
  <2>12. CASE UNCHANGED vars
    BY <2>12
  <2> QED
    BY <2>1, <2>2, <2>3, <2>4, <2>5, <2>6, <2>7, <2>8, <2>9, <2>10, <2>11,
       <2>12 DEF Next
<1> QED
  BY <1>2, <1>3, <1>4

\* Every step keeps the tree that is under review, and what was released.
LEMMA TreeStep ==
  ASSUME Quiet, StoreInv, TurnsInv, TreeInv, [Next]_vars
  PROVE  TreeInv'
<1>a. /\ TypeOK /\ PickInv /\ TurnInv /\ SessionInv /\ ModeInv /\ PhaseInv
      /\ OpenInv /\ StageHasQuietTree
  BY StagesQuiet DEF StoreInv, AskInv, IInv
<1> USE <1>a, RestoreSessions DEF Quiet, TypeOK, EvidenceType, DiskType,
        Commit, Base, Ended, Reviewed, PickInv, TurnInv, SessionInv, ModeInv,
        PhaseInv, OpenInv, TurnsInv, TreeInv,
        StageHasQuietTree, LatePoints, ReviewedPoints, Stale, Offered,
        Pending, RepairSession, ImplementingDone, GateOnRecord, StopOffered,
        Enter, Goto, Return, FailStage, Restore, Abandon, RunProfile,
        Terminal, TaskTerminal, vars, taskVars, sessionVars, evidenceVars,
        gateVars, diskVars, procVars, hostVars, localVars
<1>1. CASE Start
  BY <1>1 DEF Start, StartTask, CreateWorktree, WorktreeRefused, OpenSession,
      LaunchFails, EnterImplementing, TakeOwnership, TurnStartFails
<1>2. CASE Provider
  <2>1. CASE ProviderEdits
    BY <2>1 DEF ProviderEdits
  <2>2. CASE ProviderCommits
    <3>1. turn # "running" \/ kind \in {"claude", "codex"}
      BY <2>2, KindsAssumption, CommittersAssumption DEF ProviderCommits, TaskType
    <3>2. ~Ended /\ pc \notin {"reviewer", "dispose", "persist", "confirm",
              "evidence", "verify", "final", "offer", "integrate", "commit",
              "pick"}
      BY <2>2, <3>1 DEF ProviderCommits
    <3> QED
      BY <2>2, <3>2 DEF ProviderCommits
  <2>3. CASE TurnCompletes
    BY <2>3 DEF TurnCompletes
  <2>4. CASE ChildExits
    BY <2>4 DEF ChildExits
  <2>5. CASE ApiRunFails
    BY <2>5 DEF ApiRunFails
  <2>6. CASE OrphanExits
    BY <2>6 DEF OrphanExits
  <2>7. CASE TargetMoves
    BY <2>7 DEF TargetMoves
  <2> QED
    BY <2>1, <2>2, <2>3, <2>4, <2>5, <2>6, <2>7, <1>2 DEF Provider
<1>3. CASE Implement
  BY <1>3 DEF Implement, PollExitedOmp, ReapApiRun, CompleteImplementing,
      ReleaseFails, SnapshotFails
<1>4. CASE Validate
  BY <1>4 DEF Validate, StartValidation, NoProfile, ChecksPass, ChecksReject,
      ChecksFail, BindGeneration
<1>5. CASE Review
  BY <1>5 DEF Review, StartReview, StaleReview, ReviewReturns, ReviewFails,
      DisposeRepaired, PersistFindings, MalformedFindings, ConfirmFindings
<1>6. CASE Repair
  BY <1>6 DEF Repair, RepairLimit, StartRepair, SendRepair, RepairFails,
      RepairRefused, FinishRepair
<1>7. CASE Gate
  BY <1>7 DEF Gate, RefuseAuto, CheckEvidence, EvidenceRefused, FinalVerify,
      FinalVerifyFails, BindEvidence, OfferApproval
<1>8. CASE Integrate
  <2>1. CASE BeginIntegration
    BY <2>1 DEF BeginIntegration
  <2>2. CASE IntegrateCheck
    BY <2>2 DEF IntegrateCheck
  <2>3. CASE CommitSource
    <3>1. merged = << >> /\ lc = "Integrating" /\ turnDone
          /\ mode = "auto_integrate" /\ aux # {}
      BY <2>3 DEF CommitSource
    <3>2. head' = Reviewed /\ genHead.tree # genTree
      BY <2>3 DEF CommitSource
    <3>3. Ended'
      BY <2>3, <3>1 DEF CommitSource
    <3> QED
      BY <2>3, <3>1, <3>2, <3>3 DEF CommitSource
  <2>4. CASE CherryPick
    <3>1. merged = << >> /\ head = Reviewed /\ lc = "Integrating" /\ turnDone
          /\ mode = "auto_integrate" /\ aux # {}
      BY <2>4 DEF CherryPick
    <3>2. merged' = <<Reviewed>> /\ Reviewed' = Reviewed /\ head' = head
      <4>1. Append(<< >>, Reviewed) = <<Reviewed>>
        OBVIOUS
      <4> QED
        BY <2>4, <3>1, <4>1 DEF CherryPick
    <3>3. head # genHead
      BY <2>4, <3>1 DEF CherryPick
    <3>4. Ended'
      BY <2>4, <3>1 DEF CherryPick
    <3> QED
      BY <2>4, <3>1, <3>2, <3>3, <3>4 DEF CherryPick
  <2>5. CASE RecordIntegration
    BY <2>5 DEF RecordIntegration
  <2>6. CASE FinishIntegration
    BY <2>6 DEF FinishIntegration
  <2>7. CASE BlockIntegration
    BY <2>7 DEF BlockIntegration
  <2> QED
    BY <2>1, <2>2, <2>3, <2>4, <2>5, <2>6, <2>7, <1>8 DEF Integrate
<1>9. CASE User
  <2>1. CASE Decide
    BY <2>1 DEF Decide
  <2>2. CASE FinishDecision
    BY <2>2 DEF FinishDecision
  <2>3. CASE BeginStop
    BY <2>3 DEF BeginStop
  <2>4. CASE FinishStop
    BY <2>4 DEF FinishStop
  <2>5. CASE StopFails
    BY <2>5 DEF StopFails
  <2>6. CASE RetryReview
    BY <2>6 DEF RetryReview
  <2>7. CASE RetryOmp
    BY <2>7 DEF RetryOmp
  <2>8. CASE FinishRetry
    BY <2>8 DEF FinishRetry
  <2> QED
    BY <2>1, <2>2, <2>3, <2>4, <2>5, <2>6, <2>7, <2>8, <1>9 DEF User
<1>10. CASE Host
  BY <1>10 DEF Host, Shutdown, Crash, Boot, ReselectRepository
<1>11. CASE Recover
  BY <1>11 DEF Recover, SkipTask, RestoreTask, LeaveRecovering, RestoreGate,
      BlockInterrupted, ResumeCodex
<1>12. CASE UNCHANGED vars
  BY <1>12
<1> QED
  BY <1>1, <1>2, <1>3, <1>4, <1>5, <1>6, <1>7, <1>8, <1>9, <1>10, <1>11,
     <1>12 DEF Next

\* Every step keeps the trees of the approvals.
LEMMA ReleaseStep ==
  ASSUME Quiet, StoreInv, TurnsInv, TreeInv, ReleaseInv, [Next]_vars
  PROVE  ReleaseInv'
<1>1. /\ PhaseInv /\ OpenInv /\ LatestInv
  BY DEF StoreInv, AskInv
<1>2. CASE Decide
  <2>1. PICK a \in Offered, st \in {"Approved", "Denied"} :
          /\ approvals' = (approvals \ {a}) \union {[a EXCEPT !.st = st]}
          /\ pc' = IF st = "Approved" THEN "approved" ELSE "denied"
    BY <1>2 DEF Decide, Goto
  <2> DEFINE d == [a EXCEPT !.st = st]
  <2>2. a \in Pending /\ a \in approvals
    BY DEF Offered, Pending
  <2>3. d.st = st /\ d.ev = a.ev
    BY <2>2 DEF StoreInv, AskInv, IInv, TypeOK, GateType, Approval
  <2>4. d \in approvals'
    BY <2>1
  <2>5. a.ev.tree = genTree /\ genTree' = genTree
    BY <1>2, <2>2 DEF ReleaseInv, Decide, evidenceVars
  <2>6. Pending' = {} /\ lc' # "Finalized"
    BY <1>1, <1>2, DecideCloses DEF OpenInv, Decide, taskVars
  <2> HIDE DEF d
  <2> QED
    BY <2>1, <2>3, <2>4, <2>5, <2>6 DEF ReleaseInv
<1>3. CASE OfferApproval
  <2>1. approvals' = approvals \union
                       {[ev |-> e, st |-> "Pending"] : e \in packet}
    BY <1>3 DEF OfferApproval
  <2>2. \A a \in Pending' : a \in Pending \/ a.ev \in packet
    BY <2>1 DEF Pending
  <2>3. genTree' = genTree /\ pc' = "idle" /\ lc' # "Finalized"
    BY <1>1, <1>3 DEF OpenInv, OfferApproval, Return, evidenceVars, taskVars
  <2> QED
    BY <1>3, <2>2, <2>3 DEF ReleaseInv, OfferApproval
<1>4. CASE ~Decide /\ ~OfferApproval
  <2>1. approvals' = approvals /\ Pending' = Pending
    BY <1>4, ApprovalsKept
  <2>2. /\ ~BindGeneration => genTree' = genTree
        /\ BindGeneration => Pending = {} /\ pc' = "idle"
    <3>1. BindGeneration => Pending = {} /\ pc' = "idle"
      BY DEF BindGeneration, TurnsInv, Return
    <3>2. ~BindGeneration => genTree' = genTree
      <4> USE DEF FailStage, RunProfile, vars, evidenceVars
      <4>1. CASE Start
        BY <4>1 DEF Start, StartTask, CreateWorktree, WorktreeRefused,
            OpenSession, LaunchFails, EnterImplementing, TakeOwnership,
            TurnStartFails
      <4>2. CASE Provider
        BY <4>2 DEF Provider, ProviderEdits, ProviderCommits, TurnCompletes,
            ChildExits, ApiRunFails, OrphanExits, TargetMoves
      <4>3. CASE Implement
        BY <4>3 DEF Implement, PollExitedOmp, ReapApiRun,
            CompleteImplementing, ReleaseFails, SnapshotFails
      <4>4. CASE Validate
        BY <4>4 DEF Validate, StartValidation, NoProfile, ChecksPass,
            ChecksReject, ChecksFail, BindGeneration
      <4>5. CASE Review
        BY <4>5 DEF Review, StartReview, StaleReview, ReviewReturns,
            ReviewFails, DisposeRepaired, PersistFindings, MalformedFindings,
            ConfirmFindings
      <4>6. CASE Repair
        BY <4>6 DEF Repair, RepairLimit, StartRepair, SendRepair, RepairFails,
            RepairRefused, FinishRepair
      <4>7. CASE Gate
        BY <4>7 DEF Gate, RefuseAuto, CheckEvidence, EvidenceRefused,
            FinalVerify, FinalVerifyFails, BindEvidence, OfferApproval
      <4>8. CASE Integrate
        BY <4>8 DEF Integrate, BeginIntegration, IntegrateCheck, CommitSource,
            CherryPick, RecordIntegration, FinishIntegration, BlockIntegration
      <4>9. CASE User
        BY <4>9 DEF User, Decide, FinishDecision, BeginStop, FinishStop,
            StopFails, RetryReview, RetryOmp, FinishRetry
      <4>10. CASE Host
        BY <4>10 DEF Host, Shutdown, Crash, Boot, ReselectRepository
      <4>11. CASE Recover
        BY <4>11 DEF Recover, SkipTask, RestoreTask, LeaveRecovering,
            RestoreGate, BlockInterrupted, ResumeCodex
      <4>12. CASE UNCHANGED vars
        BY <4>12
      <4> QED
        BY <4>1, <4>2, <4>3, <4>4, <4>5, <4>6, <4>7, <4>8, <4>9, <4>10, <4>11,
           <4>12 DEF Next
    <3> QED
      BY <3>1, <3>2
  <2>3. pc' = "offer" => \A e \in packet' : e.tree = genTree'
    <3>1. CASE BindEvidence
      BY <3>1 DEF BindEvidence, TreeInv, Evidence, evidenceVars
    <3>2. CASE ~BindEvidence
      <4>1. pc' = "offer" => pc = "offer" /\ packet' = packet
        <5> USE <3>2, <1>4 DEF Enter, Goto, Return, FailStage, RunProfile,
                Abandon, vars, gateVars, localVars
        <5>1. CASE Start
          BY <5>1 DEF Start, StartTask, CreateWorktree, WorktreeRefused,
              OpenSession, LaunchFails, EnterImplementing, TakeOwnership,
              TurnStartFails
        <5>2. CASE Provider
          BY <5>2 DEF Provider, ProviderEdits, ProviderCommits, TurnCompletes,
              ChildExits, ApiRunFails, OrphanExits, TargetMoves
        <5>3. CASE Implement
          BY <5>3 DEF Implement, PollExitedOmp, ReapApiRun,
              CompleteImplementing, ReleaseFails, SnapshotFails
        <5>4. CASE Validate
          BY <5>4 DEF Validate, StartValidation, NoProfile, ChecksPass,
              ChecksReject, ChecksFail, BindGeneration
        <5>5. CASE Review
          BY <5>5 DEF Review, StartReview, StaleReview, ReviewReturns,
              ReviewFails, DisposeRepaired, PersistFindings, MalformedFindings,
              ConfirmFindings
        <5>6. CASE Repair
          BY <5>6 DEF Repair, RepairLimit, StartRepair, SendRepair,
              RepairFails, RepairRefused, FinishRepair
        <5>7. CASE Gate
          BY <5>7 DEF Gate, RefuseAuto, CheckEvidence, EvidenceRefused,
              FinalVerify, FinalVerifyFails, BindEvidence, OfferApproval
        <5>8. CASE Integrate
          BY <5>8 DEF Integrate, BeginIntegration, IntegrateCheck,
              CommitSource, CherryPick, RecordIntegration, FinishIntegration,
              BlockIntegration
        <5>9. CASE User
          BY <5>9 DEF User, Decide, FinishDecision, BeginStop, FinishStop,
              StopFails, RetryReview, RetryOmp, FinishRetry
        <5>10. CASE Host
          BY <5>10 DEF Host, Shutdown, Crash, Boot, ReselectRepository
        <5>11. CASE Recover
          BY <5>11 DEF Recover, SkipTask, RestoreTask, LeaveRecovering,
              RestoreGate, BlockInterrupted, ResumeCodex
        <5>12. CASE UNCHANGED vars
          BY <5>12
        <5> QED
          BY <5>1, <5>2, <5>3, <5>4, <5>5, <5>6, <5>7, <5>8, <5>9, <5>10,
             <5>11, <5>12 DEF Next
      <4> QED
        BY <2>2, <4>1 DEF ReleaseInv
    <3> QED
      BY <3>1, <3>2
  <2>4. pc' = "approved" \/ lc' = "Finalized" =>
          genTree' = genTree /\ (pc = "approved" \/ lc = "Finalized")
    <3>1. lc' = "Finalized" => pc = "approved" \/ lc = "Finalized"
      <4> USE DEF Enter, FailStage, Restore, vars, taskVars
      <4>1. CASE Start
        BY <4>1 DEF Start, StartTask, CreateWorktree, WorktreeRefused,
            OpenSession, LaunchFails, EnterImplementing, TakeOwnership,
            TurnStartFails
      <4>2. CASE Provider
        BY <4>2 DEF Provider, ProviderEdits, ProviderCommits, TurnCompletes,
            ChildExits, ApiRunFails, OrphanExits, TargetMoves
      <4>3. CASE Implement
        BY <4>3 DEF Implement, PollExitedOmp, ReapApiRun,
            CompleteImplementing, ReleaseFails, SnapshotFails
      <4>4. CASE Validate
        BY <4>4 DEF Validate, StartValidation, NoProfile, ChecksPass,
            ChecksReject, ChecksFail, BindGeneration
      <4>5. CASE Review
        BY <4>5 DEF Review, StartReview, StaleReview, ReviewReturns,
            ReviewFails, DisposeRepaired, PersistFindings, MalformedFindings,
            ConfirmFindings
      <4>6. CASE Repair
        BY <4>6 DEF Repair, RepairLimit, StartRepair, SendRepair, RepairFails,
            RepairRefused, FinishRepair
      <4>7. CASE Gate
        BY <4>7 DEF Gate, RefuseAuto, CheckEvidence, EvidenceRefused,
            FinalVerify, FinalVerifyFails, BindEvidence, OfferApproval
      <4>8. CASE Integrate
        BY <4>8 DEF Integrate, BeginIntegration, IntegrateCheck, CommitSource,
            CherryPick, RecordIntegration, FinishIntegration, BlockIntegration
      <4>9. CASE User
        BY <4>9 DEF User, Decide, FinishDecision, BeginStop, FinishStop,
            StopFails, RetryReview, RetryOmp, FinishRetry
      <4>10. CASE Host
        BY <4>10 DEF Host, Shutdown, Crash, Boot, ReselectRepository
      <4>11. CASE Recover
        BY <4>11 DEF Recover, SkipTask, RestoreTask, LeaveRecovering,
            RestoreGate, BlockInterrupted, ResumeCodex
      <4>12. CASE UNCHANGED vars
        BY <4>12
      <4> QED
        BY <4>1, <4>2, <4>3, <4>4, <4>5, <4>6, <4>7, <4>8, <4>9, <4>10, <4>11,
           <4>12 DEF Next
    <3>2. pc' = "approved" => pc = "approved"
      BY <1>4, BatchesGrow
    <3>3. pc = "approved" \/ lc = "Finalized" => ~BindGeneration
      BY <1>1 DEF OpenInv, BindGeneration
    <3> QED
      BY <2>2, <3>1, <3>2, <3>3
  <2> QED
    BY <2>1, <2>2, <2>3, <2>4 DEF ReleaseInv
<1> QED
  BY <1>2, <1>3, <1>4

-------------------------------------------------------------------------------
\* The invariant holds in every reachable state.
LEMMA QuietInit ==
  ASSUME Quiet, Init
  PROVE  QuietInv
<1>1. TurnsInv
  BY DEF Quiet, Init, TurnsInv, Pending
<1>2. TreeInv /\ ReleaseInv
  BY DEF Init, TreeInv, ReleaseInv, Pending
<1> QED
  BY <1>1, <1>2, StoreInit DEF QuietInv

LEMMA QuietStep ==
  ASSUME Quiet
  PROVE  QuietInv /\ [Next]_vars => QuietInv'
<1> SUFFICES ASSUME QuietInv, [Next]_vars
             PROVE  QuietInv'
  OBVIOUS
<1> QED
  BY StoreStep, TurnsStep, TreeStep, ReleaseStep DEF QuietInv

LEMMA QuietInvariance ==
  ASSUME Quiet
  PROVE  Spec => []QuietInv
<1>1. Init => QuietInv
  BY QuietInit
<1>2. QuietInv /\ [Next]_vars => QuietInv'
  BY QuietStep
<1> QED
  BY <1>1, <1>2, PTL DEF Spec

\* Validation, review, the gate and integration look at a tree the
\* implementer's own turn is no longer changing.
THEOREM StagesAreQuiet ==
  ASSUME Quiet
  PROVE  Spec => []StageHasQuietTree
<1>1. QuietInv => StageHasQuietTree
  BY StagesQuiet DEF QuietInv, StoreInv, AskInv, IInv
<1>2. Spec => []QuietInv
  BY QuietInvariance
<1> QED
  BY <1>1, <1>2, PTL

\* What is approved and finalized is the tree the review looked at, over any
\* crashes, restarts, repairs and retries.  What reaches the target branch is one
\* commit made of that tree on the HEAD the review saw: the whole change, unless
\* the provider commits in the worktree as well.
THEOREM ReleasedIsReviewed ==
  ASSUME Quiet
  PROVE  Spec => []ReleasedTreeWasReviewed
<1>1. QuietInv => ReleasedTreeWasReviewed
  <2> SUFFICES ASSUME QuietInv
               PROVE  ReleasedTreeWasReviewed
    OBVIOUS
  <2>1. merged = << >> \/ merged = <<Reviewed>>
    BY DEF QuietInv, TreeInv
  <2>2. \A i \in DOMAIN merged :
          /\ merged[i] = [from |-> genHead.tree, tree |-> genTree]
          /\ kind \notin Committers => merged[i].from = 0
    BY <2>1 DEF QuietInv, TreeInv, Reviewed, Base
  <2>3. lc = "Finalized" =>
          \E a \in approvals : a.st = "Approved" /\ a.ev.tree = genTree
    BY DEF QuietInv, ReleaseInv
  <2> QED
    BY <2>2, <2>3 DEF ReleasedTreeWasReviewed
<1>2. Spec => []QuietInv
  BY QuietInvariance
<1> QED
  BY <1>1, <1>2, PTL

===============================================================================
