------------------------------- MODULE ApiRun_proof ----------------------------
(***************************************************************************)
(* Theorems about ApiRun, for any number of rounds, of tool calls a round  *)
(* and of failures of the store: how far a cancelled run goes on, and what *)
(* the run and the call that stops it leave behind between them.           *)
(***************************************************************************)
EXTENDS ApiRun, TLAPS

\* The run before run_agent_loop has returned.
Working == {"check", "start", "look", "register", "wait", "tools"}

\* Why the counters stay in their bounds.
RoundInv == /\ loop = "start" => round < Rounds
            /\ loop = "tools" => calls > 0

\* Why CancelBounds holds: a run that has not passed the check of its round has
\* done nothing late, and what it has passed the check for is one request and
\* the tool calls of one answer.
CancelInv ==
  /\ ~flag \/ loop = "start" => lateRequests = 0 /\ lateCalls = 0
  /\ loop \in {"look", "register", "wait"} => lateCalls = 0
  /\ loop = "tools" => lateCalls + calls <= MaxCalls

\* What has been read is not ahead of the row, and is the row if nobody has
\* written it since.
Follows(read, row) ==
  /\ read.version <= row.version
  /\ read.version = row.version => read.life = row.life

\* What is on record, and what it can have been when it was read.
ReadsInv ==
  /\ Follows(mySession, session) /\ Follows(stopSession, session)
  /\ Follows(myTask, task) /\ Follows(stopTask, task)
  /\ session.life \in {"Active", "Cancelling", "Cancelled", "Completed", "Failed"}
  /\ task.life \in {"Implementing", "Blocked", "Cancelled"}
  /\ loop = "session" => mySession.life = "Active"
                           \/ (mySession.life = "Cancelling" /\ outcome = "cancelled")
  /\ loop = "task" => myTask.life = "Implementing"
  /\ stop = "task" => stopTask.life = "Implementing"

\* Why a stop that went well leaves the session cancelled and the task over: once
\* the session is marked only its cancellation can be written, by either side.
StopInv ==
  /\ stop \in {"cancel", "wait", "waiting", "session"} => session.life \in {"Cancelling", "Cancelled"}
  /\ stop = "session" => stopSession.life \in {"Cancelling", session.life}
  /\ stop \in {"reread", "task", "ok"} => session.life = "Cancelled"
  /\ stop = "ok" => task.life # "Implementing"

\* The stop has not marked the session, or could not.
Unmarked == stop \in {"none", "mark"} \/ (stop = "error" /\ ~flag)

\* Why a run that ends by itself leaves a completed turn or a task that is over: as
\* long as the session is not marked nobody else writes the rows, and a stop that
\* fails after that, with a store that works, has aborted the run.
EndInv ==
  /\ stop \in {"none", "mark", "cancel"} => ~flag
  /\ stop \in {"wait", "waiting", "session", "reread", "task", "ok"} => flag
  /\ loop \in Working => outcome = "none"
  /\ loop \in {"settle", "session"} => outcome # "none"
  /\ woken \/ outcome = "cancelled" => flag
  /\ Unmarked =>
       /\ loop \in Working \cup {"settle", "session"} => session.life = "Active"
       /\ loop = "session" => mySession = session
       /\ loop \in Working \cup {"settle", "session", "event", "artifact", "task"}
            => task.life = "Implementing"
       /\ loop = "task" => myTask = task
       /\ loop = "ended" /\ faults = 0 => turnCompleted \/ task.life \in TaskTerminal
  /\ flag /\ ~aborted /\ stop \in {"session", "reread", "task"} =>
       /\ loop = "ended"
       /\ stop = "session" => stopSession = session
       /\ stop = "task" => stopTask = task
  /\ flag /\ stop = "error" /\ faults = 0 => aborted

ApiInv == ApiTypeOK /\ RoundInv /\ CancelBounds /\ CancelInv /\ ReadsInv /\ StopInv /\ EndInv

-------------------------------------------------------------------------------
\* What the assumption on the constants says, one by one.
LEMMA Bounds == Rounds \in Nat /\ Rounds > 0 /\ MaxCalls \in Nat /\ MaxCalls > 0 /\ StoreFaults \in Nat
BY ApiAssumption DEF ApiAssumption

\* What the lifecycle tables let a task be that is implementing, and an active session.
LEMMA Tables ==
  /\ "Blocked" \in TaskSuccessors["Implementing"] /\ "Cancelled" \in TaskSuccessors["Implementing"]
  /\ "Completed" \in SessionSuccessors["Active"] /\ "Failed" \in SessionSuccessors["Active"]
BY DEF TaskSuccessors, TaskLifecycle, SessionSuccessors, SessionLifecycle

\* Control: every counter stays in its bounds.
LEMMA ControlStep ==
  ASSUME ControlType, RoundInv, [ApiNext]_apiVars
  PROVE  ControlType' /\ RoundInv'
<1>1. CASE BeginRound
  BY <1>1, Bounds DEF BeginRound, OthersStand, Finish, NotCancelled,
       ControlType, RoundInv, Answers, runVars, flagVars, rowVars, readVars,
       lateVars
<1>2. CASE StartRequest
  BY <1>2, Bounds DEF StartRequest, OthersStand, Finish, ControlType,
       RoundInv, Answers, runVars, flagVars, rowVars, readVars, lateVars
<1>3. CASE WorkerEnds
  BY <1>3, Bounds DEF WorkerEnds, OthersStand, ControlType, RoundInv, Answers,
       runVars, flagVars, rowVars, readVars, lateVars
<1>4. CASE LookAtFlag
  BY <1>4, Bounds DEF LookAtFlag, OthersStand, Finish, ControlType, RoundInv,
       Answers, runVars, flagVars, rowVars, readVars, lateVars
<1>5. CASE RegisterWaiter
  BY <1>5, Bounds DEF RegisterWaiter, OthersStand, ControlType, RoundInv,
       Answers, runVars, flagVars, rowVars, readVars, lateVars
<1>6. CASE WokenUp
  BY <1>6, Bounds DEF WokenUp, OthersStand, Finish, ControlType, RoundInv,
       Answers, runVars, flagVars, rowVars, readVars, lateVars
<1>7. CASE TakeAnswer
  <2>1. ControlType /\ worker' = "none" /\ UNCHANGED <<round, stop, faults, lateRequests, lateCalls>>
    BY <1>7 DEF TakeAnswer, OthersStand, lateVars
  <2>2. CASE loop' = "tools" /\ outcome' = outcome
    <3>1. calls' \in 1 .. MaxCalls
      BY <1>7, <2>2, Bounds DEF TakeAnswer, TooMany, Finish
    <3> QED
      BY <2>1, <2>2, <3>1 DEF ControlType, RoundInv
  <2>3. CASE loop' = "settle" /\ outcome' \in {"done", "failed"} /\ calls' = calls
    BY <2>1, <2>3 DEF ControlType, RoundInv
  <2> QED
    BY <1>7, <2>2, <2>3 DEF TakeAnswer, Finish
<1>8. CASE Execute
  BY <1>8, Bounds DEF Execute, OthersStand, Finish, ControlType, RoundInv,
       Answers, runVars, flagVars, rowVars, readVars, lateVars
<1>9. CASE ReadSession
  BY <1>9, Bounds DEF ReadSession, Same, ControlType, RoundInv, Answers,
       runVars, flagVars, rowVars, readVars, lateVars
<1>10. CASE SettleSession
  BY <1>10, Bounds DEF SettleSession, Same, Updates, SameVersion, Next1,
       Target, Rest, ControlType, RoundInv, Answers, runVars, flagVars,
       rowVars, readVars, lateVars
<1>11. CASE StoreTurn
  BY <1>11, Bounds DEF StoreTurn, Same, Persist, ControlType, RoundInv,
       Answers, runVars, flagVars, rowVars, readVars, lateVars
<1>12. CASE StoreFailure
  BY <1>12, Bounds DEF StoreFailure, Same, ControlType, RoundInv, Answers,
       runVars, flagVars, rowVars, readVars, lateVars
<1>13. CASE BlockTask
  BY <1>13, Bounds DEF BlockTask, Same, Persist, Updates, SameVersion, Next1,
       ControlType, RoundInv, Answers, runVars, flagVars, rowVars, readVars,
       lateVars
<1>14. CASE PersistFails
  BY <1>14, Bounds DEF PersistFails, Same, StoreFault, ControlType, RoundInv,
       Answers, runVars, flagVars, rowVars, readVars, lateVars
<1>15. CASE DropRun
  BY <1>15, Bounds DEF DropRun, Same, ControlType, RoundInv, Answers, runVars,
       flagVars, rowVars, readVars, lateVars
<1>16. CASE BeginStop
  BY <1>16, Bounds DEF BeginStop, Kept, StopGoes, ControlType, RoundInv,
       Answers, runVars, flagVars, rowVars, readVars, lateVars
<1>17. CASE MarkCancelling
  BY <1>17, Bounds DEF MarkCancelling, Kept, Updates, SameVersion, Next1,
       ControlType, RoundInv, Answers, runVars, flagVars, rowVars, readVars,
       lateVars
<1>18. CASE Cancel
  BY <1>18, Bounds DEF Cancel, Kept, StopGoes, ControlType, RoundInv, Answers,
       runVars, flagVars, rowVars, readVars, lateVars
<1>19. CASE Wake
  BY <1>19, Bounds DEF Wake, Kept, ControlType, RoundInv, Answers, runVars,
       flagVars, rowVars, readVars, lateVars
<1>20. CASE Waited
  BY <1>20, Bounds DEF Waited, Kept, ControlType, RoundInv, Answers, runVars,
       flagVars, rowVars, readVars, lateVars
<1>21. CASE SettleStopped
  BY <1>21, Bounds DEF SettleStopped, Kept, Updates, SameVersion, Next1,
       ControlType, RoundInv, Answers, runVars, flagVars, rowVars, readVars,
       lateVars
<1>22. CASE ReadTask
  BY <1>22, Bounds DEF ReadTask, Kept, ControlType, RoundInv, Answers,
       runVars, flagVars, rowVars, readVars, lateVars
<1>23. CASE CancelTask
  BY <1>23, Bounds DEF CancelTask, Kept, Updates, SameVersion, Next1,
       ControlType, RoundInv, Answers, runVars, flagVars, rowVars, readVars,
       lateVars
<1>24. CASE StopFails
  BY <1>24, Bounds DEF StopFails, Kept, StoreFault, ControlType, RoundInv,
       Answers, runVars, flagVars, rowVars, readVars, lateVars
<1>25. CASE UNCHANGED apiVars
  BY <1>25 DEF ControlType, RoundInv, Answers, apiVars, runVars, flagVars,
       rowVars, readVars, lateVars
<1> QED
  BY <1>1, <1>2, <1>3, <1>4, <1>5, <1>6, <1>7, <1>8, <1>9, <1>10, <1>11,
       <1>12, <1>13, <1>14, <1>15, <1>16, <1>17, <1>18, <1>19, <1>20, <1>21,
       <1>22, <1>23, <1>24, <1>25 DEF ApiNext

\* Flags.
LEMMA FlagStep ==
  ASSUME FlagType, [ApiNext]_apiVars
  PROVE  FlagType'
<1>1. CASE BeginRound
  BY <1>1 DEF BeginRound, OthersStand, Finish, NotCancelled, FlagType,
       runVars, flagVars, rowVars, readVars, lateVars
<1>2. CASE StartRequest
  BY <1>2 DEF StartRequest, OthersStand, Finish, FlagType, runVars, flagVars,
       rowVars, readVars, lateVars
<1>3. CASE WorkerEnds
  BY <1>3 DEF WorkerEnds, OthersStand, FlagType, runVars, flagVars, rowVars,
       readVars, lateVars
<1>4. CASE LookAtFlag
  BY <1>4 DEF LookAtFlag, OthersStand, Finish, FlagType, runVars, flagVars,
       rowVars, readVars, lateVars
<1>5. CASE RegisterWaiter
  BY <1>5 DEF RegisterWaiter, OthersStand, FlagType, runVars, flagVars,
       rowVars, readVars, lateVars
<1>6. CASE WokenUp
  BY <1>6 DEF WokenUp, OthersStand, Finish, FlagType, runVars, flagVars,
       rowVars, readVars, lateVars
<1>7. CASE TakeAnswer
  BY <1>7 DEF TakeAnswer, OthersStand, Finish, TooMany, FlagType, runVars,
       flagVars, rowVars, readVars, lateVars
<1>8. CASE Execute
  BY <1>8 DEF Execute, OthersStand, Finish, FlagType, runVars, flagVars,
       rowVars, readVars, lateVars
<1>9. CASE ReadSession
  BY <1>9 DEF ReadSession, Same, FlagType, runVars, flagVars, rowVars,
       readVars, lateVars
<1>10. CASE SettleSession
  BY <1>10 DEF SettleSession, Same, Updates, SameVersion, Next1, Target, Rest,
       FlagType, runVars, flagVars, rowVars, readVars, lateVars
<1>11. CASE StoreTurn
  BY <1>11 DEF StoreTurn, Same, Persist, FlagType, runVars, flagVars, rowVars,
       readVars, lateVars
<1>12. CASE StoreFailure
  BY <1>12 DEF StoreFailure, Same, FlagType, runVars, flagVars, rowVars,
       readVars, lateVars
<1>13. CASE BlockTask
  BY <1>13 DEF BlockTask, Same, Persist, Updates, SameVersion, Next1,
       FlagType, runVars, flagVars, rowVars, readVars, lateVars
<1>14. CASE PersistFails
  BY <1>14 DEF PersistFails, Same, StoreFault, FlagType, runVars, flagVars,
       rowVars, readVars, lateVars
<1>15. CASE DropRun
  BY <1>15 DEF DropRun, Same, FlagType, runVars, flagVars, rowVars, readVars,
       lateVars
<1>16. CASE BeginStop
  BY <1>16 DEF BeginStop, Kept, StopGoes, FlagType, runVars, flagVars,
       rowVars, readVars, lateVars
<1>17. CASE MarkCancelling
  BY <1>17 DEF MarkCancelling, Kept, Updates, SameVersion, Next1, FlagType,
       runVars, flagVars, rowVars, readVars, lateVars
<1>18. CASE Cancel
  BY <1>18 DEF Cancel, Kept, StopGoes, FlagType, runVars, flagVars, rowVars,
       readVars, lateVars
<1>19. CASE Wake
  BY <1>19 DEF Wake, Kept, FlagType, runVars, flagVars, rowVars, readVars,
       lateVars
<1>20. CASE Waited
  BY <1>20 DEF Waited, Kept, FlagType, runVars, flagVars, rowVars, readVars,
       lateVars
<1>21. CASE SettleStopped
  BY <1>21 DEF SettleStopped, Kept, Updates, SameVersion, Next1, FlagType,
       runVars, flagVars, rowVars, readVars, lateVars
<1>22. CASE ReadTask
  BY <1>22 DEF ReadTask, Kept, FlagType, runVars, flagVars, rowVars, readVars,
       lateVars
<1>23. CASE CancelTask
  BY <1>23 DEF CancelTask, Kept, Updates, SameVersion, Next1, FlagType,
       runVars, flagVars, rowVars, readVars, lateVars
<1>24. CASE StopFails
  BY <1>24 DEF StopFails, Kept, StoreFault, FlagType, runVars, flagVars,
       rowVars, readVars, lateVars
<1>25. CASE UNCHANGED apiVars
  BY <1>25 DEF FlagType, apiVars, runVars, flagVars, rowVars, readVars,
       lateVars
<1> QED
  BY <1>1, <1>2, <1>3, <1>4, <1>5, <1>6, <1>7, <1>8, <1>9, <1>10, <1>11,
       <1>12, <1>13, <1>14, <1>15, <1>16, <1>17, <1>18, <1>19, <1>20, <1>21,
       <1>22, <1>23, <1>24, <1>25 DEF ApiNext

\* Rows.
LEMMA RowStep ==
  ASSUME RowType, [ApiNext]_apiVars
  PROVE  RowType'
<1>1. ASSUME UNCHANGED <<session, task, readVars>>
      PROVE  RowType'
  BY <1>1 DEF RowType, readVars
<1>2. CASE BeginRound
  BY <1>2, <1>1 DEF BeginRound, OthersStand, Finish, runVars, flagVars,
       rowVars, readVars, lateVars
<1>3. CASE StartRequest
  BY <1>3, <1>1 DEF StartRequest, OthersStand, Finish, runVars, flagVars,
       rowVars, readVars, lateVars
<1>4. CASE WorkerEnds
  BY <1>4, <1>1 DEF WorkerEnds, OthersStand, runVars, flagVars, rowVars,
       readVars, lateVars
<1>5. CASE LookAtFlag
  BY <1>5, <1>1 DEF LookAtFlag, OthersStand, Finish, runVars, flagVars,
       rowVars, readVars, lateVars
<1>6. CASE RegisterWaiter
  BY <1>6, <1>1 DEF RegisterWaiter, OthersStand, runVars, flagVars, rowVars,
       readVars, lateVars
<1>7. CASE WokenUp
  BY <1>7, <1>1 DEF WokenUp, OthersStand, Finish, runVars, flagVars, rowVars,
       readVars, lateVars
<1>8. CASE TakeAnswer
  BY <1>8, <1>1 DEF TakeAnswer, OthersStand, Finish, runVars, flagVars,
       rowVars, readVars, lateVars
<1>9. CASE Execute
  BY <1>9, <1>1 DEF Execute, OthersStand, Finish, runVars, flagVars, rowVars,
       readVars, lateVars
<1>10. CASE ReadSession
  BY <1>10 DEF ReadSession, Same, RowType, SessionRow, TaskRow,
       SessionLifecycle, TaskLifecycle, runVars, flagVars, rowVars, readVars,
       lateVars
<1>11. CASE SettleSession
  BY <1>11 DEF SettleSession, Same, Updates, SameVersion, Next1, Target, Rest,
       RowType, SessionRow, TaskRow, SessionLifecycle, TaskLifecycle, runVars,
       flagVars, rowVars, readVars, lateVars
<1>12. CASE StoreTurn
  BY <1>12, <1>1 DEF StoreTurn, Same, Persist, runVars, flagVars, rowVars,
       readVars, lateVars
<1>13. CASE StoreFailure
  BY <1>13 DEF StoreFailure, Same, RowType, SessionRow, TaskRow,
       SessionLifecycle, TaskLifecycle, runVars, flagVars, rowVars, readVars,
       lateVars
<1>14. CASE BlockTask
  BY <1>14 DEF BlockTask, Same, Persist, Updates, SameVersion, Next1, RowType,
       SessionRow, TaskRow, SessionLifecycle, TaskLifecycle, runVars,
       flagVars, rowVars, readVars, lateVars
<1>15. CASE PersistFails
  BY <1>15, <1>1 DEF PersistFails, Same, StoreFault, runVars, flagVars,
       rowVars, readVars, lateVars
<1>16. CASE DropRun
  BY <1>16, <1>1 DEF DropRun, Same, runVars, flagVars, rowVars, readVars,
       lateVars
<1>17. CASE BeginStop
  BY <1>17 DEF BeginStop, Kept, StopGoes, RowType, SessionRow, TaskRow,
       SessionLifecycle, TaskLifecycle, runVars, flagVars, rowVars, readVars,
       lateVars
<1>18. CASE MarkCancelling
  BY <1>18 DEF MarkCancelling, Kept, Updates, SameVersion, Next1, RowType,
       SessionRow, TaskRow, SessionLifecycle, TaskLifecycle, runVars,
       flagVars, rowVars, readVars, lateVars
<1>19. CASE Cancel
  BY <1>19, <1>1 DEF Cancel, Kept, StopGoes, runVars, flagVars, rowVars,
       readVars, lateVars
<1>20. CASE Wake
  BY <1>20, <1>1 DEF Wake, Kept, runVars, flagVars, rowVars, readVars,
       lateVars
<1>21. CASE Waited
  BY <1>21 DEF Waited, Kept, RowType, SessionRow, TaskRow, SessionLifecycle,
       TaskLifecycle, runVars, flagVars, rowVars, readVars, lateVars
<1>22. CASE SettleStopped
  BY <1>22 DEF SettleStopped, Kept, Updates, SameVersion, Next1, RowType,
       SessionRow, TaskRow, SessionLifecycle, TaskLifecycle, runVars,
       flagVars, rowVars, readVars, lateVars
<1>23. CASE ReadTask
  BY <1>23 DEF ReadTask, Kept, RowType, SessionRow, TaskRow, SessionLifecycle,
       TaskLifecycle, runVars, flagVars, rowVars, readVars, lateVars
<1>24. CASE CancelTask
  BY <1>24 DEF CancelTask, Kept, Updates, SameVersion, Next1, RowType,
       SessionRow, TaskRow, SessionLifecycle, TaskLifecycle, runVars,
       flagVars, rowVars, readVars, lateVars
<1>25. CASE StopFails
  BY <1>25, <1>1 DEF StopFails, Kept, StoreFault, runVars, flagVars, rowVars,
       readVars, lateVars
<1>26. CASE UNCHANGED apiVars
  BY <1>26, <1>1 DEF apiVars, runVars, flagVars, rowVars, readVars, lateVars
<1> QED
  BY <1>2, <1>3, <1>4, <1>5, <1>6, <1>7, <1>8, <1>9, <1>10, <1>11, <1>12,
       <1>13, <1>14, <1>15, <1>16, <1>17, <1>18, <1>19, <1>20, <1>21, <1>22,
       <1>23, <1>24, <1>25, <1>26 DEF ApiNext

\* A cancelled run goes on only with what it had begun.
LEMMA CancelStep ==
  ASSUME ControlType, RoundInv, CancelBounds, CancelInv, [ApiNext]_apiVars
  PROVE  CancelBounds' /\ CancelInv'
<1>1. CASE BeginRound
  BY <1>1, Bounds DEF BeginRound, OthersStand, Finish, NotCancelled,
       ControlType, RoundInv, CancelBounds, CancelInv, runVars, flagVars,
       rowVars, readVars, lateVars
<1>2. CASE StartRequest
  <2>1. CASE flag
    BY <1>2, <2>1 DEF StartRequest, Finish, OthersStand, CancelBounds, CancelInv, flagVars
  <2>2. CASE ~flag
    BY <1>2, <2>2 DEF StartRequest, Finish, OthersStand, CancelBounds, CancelInv, flagVars
  <2> QED
    BY <2>1, <2>2
<1>3. CASE WorkerEnds
  BY <1>3, Bounds DEF WorkerEnds, OthersStand, ControlType, RoundInv,
       CancelBounds, CancelInv, runVars, flagVars, rowVars, readVars, lateVars
<1>4. CASE LookAtFlag
  BY <1>4, Bounds DEF LookAtFlag, OthersStand, Finish, ControlType, RoundInv,
       CancelBounds, CancelInv, runVars, flagVars, rowVars, readVars, lateVars
<1>5. CASE RegisterWaiter
  BY <1>5, Bounds DEF RegisterWaiter, OthersStand, ControlType, RoundInv,
       CancelBounds, CancelInv, runVars, flagVars, rowVars, readVars, lateVars
<1>6. CASE WokenUp
  BY <1>6, Bounds DEF WokenUp, OthersStand, Finish, ControlType, RoundInv,
       CancelBounds, CancelInv, runVars, flagVars, rowVars, readVars, lateVars
<1>7. CASE TakeAnswer
  BY <1>7, Bounds DEF TakeAnswer, OthersStand, Finish, TooMany, ControlType,
       RoundInv, CancelBounds, CancelInv, runVars, flagVars, rowVars,
       readVars, lateVars
<1>8. CASE Execute
  BY <1>8, Bounds DEF Execute, OthersStand, Finish, ControlType, RoundInv,
       CancelBounds, CancelInv, runVars, flagVars, rowVars, readVars, lateVars
<1>9. CASE ReadSession
  BY <1>9, Bounds DEF ReadSession, Same, ControlType, RoundInv, CancelBounds,
       CancelInv, runVars, flagVars, rowVars, readVars, lateVars
<1>10. CASE SettleSession
  BY <1>10, Bounds DEF SettleSession, Same, Updates, SameVersion, Next1,
       Target, Rest, ControlType, RoundInv, CancelBounds, CancelInv, runVars,
       flagVars, rowVars, readVars, lateVars
<1>11. CASE StoreTurn
  BY <1>11, Bounds DEF StoreTurn, Same, Persist, ControlType, RoundInv,
       CancelBounds, CancelInv, runVars, flagVars, rowVars, readVars, lateVars
<1>12. CASE StoreFailure
  BY <1>12, Bounds DEF StoreFailure, Same, ControlType, RoundInv,
       CancelBounds, CancelInv, runVars, flagVars, rowVars, readVars, lateVars
<1>13. CASE BlockTask
  BY <1>13, Bounds DEF BlockTask, Same, Persist, Updates, SameVersion, Next1,
       ControlType, RoundInv, CancelBounds, CancelInv, runVars, flagVars,
       rowVars, readVars, lateVars
<1>14. CASE PersistFails
  BY <1>14, Bounds DEF PersistFails, Same, StoreFault, ControlType, RoundInv,
       CancelBounds, CancelInv, runVars, flagVars, rowVars, readVars, lateVars
<1>15. CASE DropRun
  BY <1>15, Bounds DEF DropRun, Same, ControlType, RoundInv, CancelBounds,
       CancelInv, runVars, flagVars, rowVars, readVars, lateVars
<1>16. CASE BeginStop
  BY <1>16, Bounds DEF BeginStop, Kept, StopGoes, ControlType, RoundInv,
       CancelBounds, CancelInv, runVars, flagVars, rowVars, readVars, lateVars
<1>17. CASE MarkCancelling
  BY <1>17, Bounds DEF MarkCancelling, Kept, Updates, SameVersion, Next1,
       ControlType, RoundInv, CancelBounds, CancelInv, runVars, flagVars,
       rowVars, readVars, lateVars
<1>18. CASE Cancel
  BY <1>18, Bounds DEF Cancel, Kept, StopGoes, ControlType, RoundInv,
       CancelBounds, CancelInv, runVars, flagVars, rowVars, readVars, lateVars
<1>19. CASE Wake
  BY <1>19, Bounds DEF Wake, Kept, ControlType, RoundInv, CancelBounds,
       CancelInv, runVars, flagVars, rowVars, readVars, lateVars
<1>20. CASE Waited
  BY <1>20, Bounds DEF Waited, Kept, ControlType, RoundInv, CancelBounds,
       CancelInv, runVars, flagVars, rowVars, readVars, lateVars
<1>21. CASE SettleStopped
  BY <1>21, Bounds DEF SettleStopped, Kept, Updates, SameVersion, Next1,
       ControlType, RoundInv, CancelBounds, CancelInv, runVars, flagVars,
       rowVars, readVars, lateVars
<1>22. CASE ReadTask
  BY <1>22, Bounds DEF ReadTask, Kept, ControlType, RoundInv, CancelBounds,
       CancelInv, runVars, flagVars, rowVars, readVars, lateVars
<1>23. CASE CancelTask
  BY <1>23, Bounds DEF CancelTask, Kept, Updates, SameVersion, Next1,
       ControlType, RoundInv, CancelBounds, CancelInv, runVars, flagVars,
       rowVars, readVars, lateVars
<1>24. CASE StopFails
  BY <1>24, Bounds DEF StopFails, Kept, StoreFault, ControlType, RoundInv,
       CancelBounds, CancelInv, runVars, flagVars, rowVars, readVars, lateVars
<1>25. CASE UNCHANGED apiVars
  BY <1>25 DEF ControlType, RoundInv, CancelBounds, CancelInv, apiVars,
       runVars, flagVars, rowVars, readVars, lateVars
<1> QED
  BY <1>1, <1>2, <1>3, <1>4, <1>5, <1>6, <1>7, <1>8, <1>9, <1>10, <1>11,
       <1>12, <1>13, <1>14, <1>15, <1>16, <1>17, <1>18, <1>19, <1>20, <1>21,
       <1>22, <1>23, <1>24, <1>25 DEF ApiNext

\* Nobody reads ahead, and what was read is what was there.
LEMMA ReadsStep ==
  ASSUME RowType, ReadsInv, [ApiNext]_apiVars
  PROVE  ReadsInv'
<1>1. CASE BeginRound
  BY <1>1 DEF BeginRound, OthersStand, Finish, NotCancelled, RowType,
       SessionRow, TaskRow, ReadsInv, Follows, TaskTerminal, runVars,
       flagVars, rowVars, readVars, lateVars
<1>2. CASE StartRequest
  BY <1>2 DEF StartRequest, OthersStand, Finish, RowType, SessionRow, TaskRow,
       ReadsInv, Follows, TaskTerminal, runVars, flagVars, rowVars, readVars,
       lateVars
<1>3. CASE WorkerEnds
  BY <1>3 DEF WorkerEnds, OthersStand, RowType, SessionRow, TaskRow, ReadsInv,
       Follows, TaskTerminal, runVars, flagVars, rowVars, readVars, lateVars
<1>4. CASE LookAtFlag
  BY <1>4 DEF LookAtFlag, OthersStand, Finish, RowType, SessionRow, TaskRow,
       ReadsInv, Follows, TaskTerminal, runVars, flagVars, rowVars, readVars,
       lateVars
<1>5. CASE RegisterWaiter
  BY <1>5 DEF RegisterWaiter, OthersStand, RowType, SessionRow, TaskRow,
       ReadsInv, Follows, TaskTerminal, runVars, flagVars, rowVars, readVars,
       lateVars
<1>6. CASE WokenUp
  BY <1>6 DEF WokenUp, OthersStand, Finish, RowType, SessionRow, TaskRow,
       ReadsInv, Follows, TaskTerminal, runVars, flagVars, rowVars, readVars,
       lateVars
<1>7. CASE TakeAnswer
  BY <1>7 DEF TakeAnswer, OthersStand, Finish, TooMany, RowType, SessionRow,
       TaskRow, ReadsInv, Follows, TaskTerminal, runVars, flagVars, rowVars,
       readVars, lateVars
<1>8. CASE Execute
  BY <1>8 DEF Execute, OthersStand, Finish, RowType, SessionRow, TaskRow,
       ReadsInv, Follows, TaskTerminal, runVars, flagVars, rowVars, readVars,
       lateVars
<1>9. CASE ReadSession
  BY <1>9 DEF ReadSession, Same, RowType, SessionRow, TaskRow, ReadsInv,
       Follows, TaskTerminal, runVars, flagVars, rowVars, readVars, lateVars
<1>10. CASE SettleSession
  BY <1>10 DEF SettleSession, Same, Updates, SameVersion, Next1, Target, Rest,
       RowType, SessionRow, TaskRow, ReadsInv, Follows, TaskTerminal, runVars,
       flagVars, rowVars, readVars, lateVars
<1>11. CASE StoreTurn
  BY <1>11 DEF StoreTurn, Same, Persist, RowType, SessionRow, TaskRow,
       ReadsInv, Follows, TaskTerminal, runVars, flagVars, rowVars, readVars,
       lateVars
<1>12. CASE StoreFailure
  BY <1>12 DEF StoreFailure, Same, RowType, SessionRow, TaskRow, ReadsInv,
       Follows, TaskTerminal, runVars, flagVars, rowVars, readVars, lateVars
<1>13. CASE BlockTask
  BY <1>13 DEF BlockTask, Same, Persist, Updates, SameVersion, Next1, RowType,
       SessionRow, TaskRow, ReadsInv, Follows, TaskTerminal, runVars,
       flagVars, rowVars, readVars, lateVars
<1>14. CASE PersistFails
  BY <1>14 DEF PersistFails, Same, StoreFault, RowType, SessionRow, TaskRow,
       ReadsInv, Follows, TaskTerminal, runVars, flagVars, rowVars, readVars,
       lateVars
<1>15. CASE DropRun
  BY <1>15 DEF DropRun, Same, RowType, SessionRow, TaskRow, ReadsInv, Follows,
       TaskTerminal, runVars, flagVars, rowVars, readVars, lateVars
<1>16. CASE BeginStop
  BY <1>16 DEF BeginStop, Kept, StopGoes, RowType, SessionRow, TaskRow,
       ReadsInv, Follows, TaskTerminal, runVars, flagVars, rowVars, readVars,
       lateVars
<1>17. CASE MarkCancelling
  BY <1>17 DEF MarkCancelling, Kept, Updates, SameVersion, Next1, RowType,
       SessionRow, TaskRow, ReadsInv, Follows, TaskTerminal, runVars,
       flagVars, rowVars, readVars, lateVars
<1>18. CASE Cancel
  BY <1>18 DEF Cancel, Kept, StopGoes, RowType, SessionRow, TaskRow, ReadsInv,
       Follows, TaskTerminal, runVars, flagVars, rowVars, readVars, lateVars
<1>19. CASE Wake
  BY <1>19 DEF Wake, Kept, RowType, SessionRow, TaskRow, ReadsInv, Follows,
       TaskTerminal, runVars, flagVars, rowVars, readVars, lateVars
<1>20. CASE Waited
  BY <1>20 DEF Waited, Kept, RowType, SessionRow, TaskRow, ReadsInv, Follows,
       TaskTerminal, runVars, flagVars, rowVars, readVars, lateVars
<1>21. CASE SettleStopped
  BY <1>21 DEF SettleStopped, Kept, Updates, SameVersion, Next1, RowType,
       SessionRow, TaskRow, ReadsInv, Follows, TaskTerminal, runVars,
       flagVars, rowVars, readVars, lateVars
<1>22. CASE ReadTask
  BY <1>22 DEF ReadTask, Kept, RowType, SessionRow, TaskRow, ReadsInv,
       Follows, TaskTerminal, runVars, flagVars, rowVars, readVars, lateVars
<1>23. CASE CancelTask
  BY <1>23 DEF CancelTask, Kept, Updates, SameVersion, Next1, RowType,
       SessionRow, TaskRow, ReadsInv, Follows, TaskTerminal, runVars,
       flagVars, rowVars, readVars, lateVars
<1>24. CASE StopFails
  BY <1>24 DEF StopFails, Kept, StoreFault, RowType, SessionRow, TaskRow,
       ReadsInv, Follows, TaskTerminal, runVars, flagVars, rowVars, readVars,
       lateVars
<1>25. CASE UNCHANGED apiVars
  BY <1>25 DEF RowType, SessionRow, TaskRow, ReadsInv, Follows, TaskTerminal,
       apiVars, runVars, flagVars, rowVars, readVars, lateVars
<1> QED
  BY <1>1, <1>2, <1>3, <1>4, <1>5, <1>6, <1>7, <1>8, <1>9, <1>10, <1>11,
       <1>12, <1>13, <1>14, <1>15, <1>16, <1>17, <1>18, <1>19, <1>20, <1>21,
       <1>22, <1>23, <1>24, <1>25 DEF ApiNext

\* A marked session is only ever cancelled.
LEMMA StopStep ==
  ASSUME RowType, ReadsInv, StopInv, [ApiNext]_apiVars
  PROVE  StopInv'
<1>1. CASE BeginRound
  BY <1>1 DEF BeginRound, OthersStand, Finish, NotCancelled, RowType,
       SessionRow, TaskRow, ReadsInv, Follows, StopInv, TaskTerminal, runVars,
       flagVars, rowVars, readVars, lateVars
<1>2. CASE StartRequest
  BY <1>2 DEF StartRequest, OthersStand, Finish, RowType, SessionRow, TaskRow,
       ReadsInv, Follows, StopInv, TaskTerminal, runVars, flagVars, rowVars,
       readVars, lateVars
<1>3. CASE WorkerEnds
  BY <1>3 DEF WorkerEnds, OthersStand, RowType, SessionRow, TaskRow, ReadsInv,
       Follows, StopInv, TaskTerminal, runVars, flagVars, rowVars, readVars,
       lateVars
<1>4. CASE LookAtFlag
  BY <1>4 DEF LookAtFlag, OthersStand, Finish, RowType, SessionRow, TaskRow,
       ReadsInv, Follows, StopInv, TaskTerminal, runVars, flagVars, rowVars,
       readVars, lateVars
<1>5. CASE RegisterWaiter
  BY <1>5 DEF RegisterWaiter, OthersStand, RowType, SessionRow, TaskRow,
       ReadsInv, Follows, StopInv, TaskTerminal, runVars, flagVars, rowVars,
       readVars, lateVars
<1>6. CASE WokenUp
  BY <1>6 DEF WokenUp, OthersStand, Finish, RowType, SessionRow, TaskRow,
       ReadsInv, Follows, StopInv, TaskTerminal, runVars, flagVars, rowVars,
       readVars, lateVars
<1>7. CASE TakeAnswer
  BY <1>7 DEF TakeAnswer, OthersStand, Finish, TooMany, RowType, SessionRow,
       TaskRow, ReadsInv, Follows, StopInv, TaskTerminal, runVars, flagVars,
       rowVars, readVars, lateVars
<1>8. CASE Execute
  BY <1>8 DEF Execute, OthersStand, Finish, RowType, SessionRow, TaskRow,
       ReadsInv, Follows, StopInv, TaskTerminal, runVars, flagVars, rowVars,
       readVars, lateVars
<1>9. CASE ReadSession
  BY <1>9 DEF ReadSession, Same, RowType, SessionRow, TaskRow, ReadsInv,
       Follows, StopInv, TaskTerminal, runVars, flagVars, rowVars, readVars,
       lateVars
<1>10. CASE SettleSession
  BY <1>10 DEF SettleSession, Same, Updates, SameVersion, Next1, Target, Rest,
       RowType, SessionRow, TaskRow, ReadsInv, Follows, StopInv, TaskTerminal,
       runVars, flagVars, rowVars, readVars, lateVars
<1>11. CASE StoreTurn
  BY <1>11 DEF StoreTurn, Same, Persist, RowType, SessionRow, TaskRow,
       ReadsInv, Follows, StopInv, TaskTerminal, runVars, flagVars, rowVars,
       readVars, lateVars
<1>12. CASE StoreFailure
  BY <1>12 DEF StoreFailure, Same, RowType, SessionRow, TaskRow, ReadsInv,
       Follows, StopInv, TaskTerminal, runVars, flagVars, rowVars, readVars,
       lateVars
<1>13. CASE BlockTask
  BY <1>13 DEF BlockTask, Same, Persist, Updates, SameVersion, Next1, RowType,
       SessionRow, TaskRow, ReadsInv, Follows, StopInv, TaskTerminal, runVars,
       flagVars, rowVars, readVars, lateVars
<1>14. CASE PersistFails
  BY <1>14 DEF PersistFails, Same, StoreFault, RowType, SessionRow, TaskRow,
       ReadsInv, Follows, StopInv, TaskTerminal, runVars, flagVars, rowVars,
       readVars, lateVars
<1>15. CASE DropRun
  BY <1>15 DEF DropRun, Same, RowType, SessionRow, TaskRow, ReadsInv, Follows,
       StopInv, TaskTerminal, runVars, flagVars, rowVars, readVars, lateVars
<1>16. CASE BeginStop
  BY <1>16 DEF BeginStop, Kept, StopGoes, RowType, SessionRow, TaskRow,
       ReadsInv, Follows, StopInv, TaskTerminal, runVars, flagVars, rowVars,
       readVars, lateVars
<1>17. CASE MarkCancelling
  BY <1>17 DEF MarkCancelling, Kept, Updates, SameVersion, Next1, RowType,
       SessionRow, TaskRow, ReadsInv, Follows, StopInv, TaskTerminal, runVars,
       flagVars, rowVars, readVars, lateVars
<1>18. CASE Cancel
  BY <1>18 DEF Cancel, Kept, StopGoes, RowType, SessionRow, TaskRow, ReadsInv,
       Follows, StopInv, TaskTerminal, runVars, flagVars, rowVars, readVars,
       lateVars
<1>19. CASE Wake
  BY <1>19 DEF Wake, Kept, RowType, SessionRow, TaskRow, ReadsInv, Follows,
       StopInv, TaskTerminal, runVars, flagVars, rowVars, readVars, lateVars
<1>20. CASE Waited
  BY <1>20 DEF Waited, Kept, RowType, SessionRow, TaskRow, ReadsInv, Follows,
       StopInv, TaskTerminal, runVars, flagVars, rowVars, readVars, lateVars
<1>21. CASE SettleStopped
  BY <1>21 DEF SettleStopped, Kept, Updates, SameVersion, Next1, RowType,
       SessionRow, TaskRow, ReadsInv, Follows, StopInv, TaskTerminal, runVars,
       flagVars, rowVars, readVars, lateVars
<1>22. CASE ReadTask
  BY <1>22 DEF ReadTask, Kept, RowType, SessionRow, TaskRow, ReadsInv,
       Follows, StopInv, TaskTerminal, runVars, flagVars, rowVars, readVars,
       lateVars
<1>23. CASE CancelTask
  BY <1>23 DEF CancelTask, Kept, Updates, SameVersion, Next1, RowType,
       SessionRow, TaskRow, ReadsInv, Follows, StopInv, TaskTerminal, runVars,
       flagVars, rowVars, readVars, lateVars
<1>24. CASE StopFails
  BY <1>24 DEF StopFails, Kept, StoreFault, RowType, SessionRow, TaskRow,
       ReadsInv, Follows, StopInv, TaskTerminal, runVars, flagVars, rowVars,
       readVars, lateVars
<1>25. CASE UNCHANGED apiVars
  BY <1>25 DEF RowType, SessionRow, TaskRow, ReadsInv, Follows, StopInv,
       TaskTerminal, apiVars, runVars, flagVars, rowVars, readVars, lateVars
<1> QED
  BY <1>1, <1>2, <1>3, <1>4, <1>5, <1>6, <1>7, <1>8, <1>9, <1>10, <1>11,
       <1>12, <1>13, <1>14, <1>15, <1>16, <1>17, <1>18, <1>19, <1>20, <1>21,
       <1>22, <1>23, <1>24, <1>25 DEF ApiNext

\* The rows are the run's own until the stop has marked the session.
LEMMA EndStep ==
  ASSUME ControlType, FlagType, RowType, ReadsInv, EndInv, [ApiNext]_apiVars
  PROVE  EndInv'
<1>1. CASE BeginRound
  BY <1>1 DEF BeginRound, OthersStand, Finish, NotCancelled, ControlType,
       FlagType, RowType, SessionRow, TaskRow, ReadsInv, Follows, EndInv,
       Unmarked, Working, TaskTerminal, runVars, flagVars, rowVars, readVars,
       lateVars
<1>2. CASE StartRequest
  BY <1>2 DEF StartRequest, OthersStand, Finish, ControlType, FlagType,
       RowType, SessionRow, TaskRow, ReadsInv, Follows, EndInv, Unmarked,
       Working, TaskTerminal, runVars, flagVars, rowVars, readVars, lateVars
<1>3. CASE WorkerEnds
  BY <1>3 DEF WorkerEnds, OthersStand, ControlType, FlagType, RowType,
       SessionRow, TaskRow, ReadsInv, Follows, EndInv, Unmarked, Working,
       TaskTerminal, runVars, flagVars, rowVars, readVars, lateVars
<1>4. CASE LookAtFlag
  BY <1>4 DEF LookAtFlag, OthersStand, Finish, ControlType, FlagType, RowType,
       SessionRow, TaskRow, ReadsInv, Follows, EndInv, Unmarked, Working,
       TaskTerminal, runVars, flagVars, rowVars, readVars, lateVars
<1>5. CASE RegisterWaiter
  BY <1>5 DEF RegisterWaiter, OthersStand, ControlType, FlagType, RowType,
       SessionRow, TaskRow, ReadsInv, Follows, EndInv, Unmarked, Working,
       TaskTerminal, runVars, flagVars, rowVars, readVars, lateVars
<1>6. CASE WokenUp
  BY <1>6 DEF WokenUp, OthersStand, Finish, ControlType, FlagType, RowType,
       SessionRow, TaskRow, ReadsInv, Follows, EndInv, Unmarked, Working,
       TaskTerminal, runVars, flagVars, rowVars, readVars, lateVars
<1>7. CASE TakeAnswer
  BY <1>7 DEF TakeAnswer, OthersStand, Finish, TooMany, ControlType, FlagType,
       RowType, SessionRow, TaskRow, ReadsInv, Follows, EndInv, Unmarked,
       Working, TaskTerminal, runVars, flagVars, rowVars, readVars, lateVars
<1>8. CASE Execute
  BY <1>8 DEF Execute, OthersStand, Finish, ControlType, FlagType, RowType,
       SessionRow, TaskRow, ReadsInv, Follows, EndInv, Unmarked, Working,
       TaskTerminal, runVars, flagVars, rowVars, readVars, lateVars
<1>9. CASE ReadSession
  BY <1>9 DEF ReadSession, Same, ControlType, FlagType, RowType, SessionRow,
       TaskRow, ReadsInv, Follows, EndInv, Unmarked, Working, TaskTerminal,
       runVars, flagVars, rowVars, readVars, lateVars
<1>10. CASE SettleSession
  BY <1>10, Tables DEF SettleSession, Same, Updates, SameVersion, Next1,
       Target, Rest, ControlType, FlagType, RowType, SessionRow, TaskRow,
       ReadsInv, Follows, EndInv, Unmarked, Working, TaskTerminal, runVars,
       flagVars, rowVars, readVars, lateVars
<1>11. CASE StoreTurn
  BY <1>11 DEF StoreTurn, Same, Persist, ControlType, FlagType, RowType,
       SessionRow, TaskRow, ReadsInv, Follows, EndInv, Unmarked, Working,
       TaskTerminal, runVars, flagVars, rowVars, readVars, lateVars
<1>12. CASE StoreFailure
  BY <1>12 DEF StoreFailure, Same, ControlType, FlagType, RowType, SessionRow,
       TaskRow, ReadsInv, Follows, EndInv, Unmarked, Working, TaskTerminal,
       runVars, flagVars, rowVars, readVars, lateVars
<1>13. CASE BlockTask
  BY <1>13, Tables DEF BlockTask, Same, Persist, Updates, SameVersion, Next1,
       ControlType, FlagType, RowType, SessionRow, TaskRow, ReadsInv, Follows,
       EndInv, Unmarked, Working, TaskTerminal, runVars, flagVars, rowVars,
       readVars, lateVars
<1>14. CASE PersistFails
  BY <1>14 DEF PersistFails, Same, StoreFault, ControlType, FlagType, RowType,
       SessionRow, TaskRow, ReadsInv, Follows, EndInv, Unmarked, Working,
       TaskTerminal, runVars, flagVars, rowVars, readVars, lateVars
<1>15. CASE DropRun
  BY <1>15 DEF DropRun, Same, ControlType, FlagType, RowType, SessionRow,
       TaskRow, ReadsInv, Follows, EndInv, Unmarked, Working, TaskTerminal,
       runVars, flagVars, rowVars, readVars, lateVars
<1>16. CASE BeginStop
  BY <1>16 DEF BeginStop, Kept, StopGoes, ControlType, FlagType, RowType,
       SessionRow, TaskRow, ReadsInv, Follows, EndInv, Unmarked, Working,
       TaskTerminal, runVars, flagVars, rowVars, readVars, lateVars
<1>17. CASE MarkCancelling
  BY <1>17 DEF MarkCancelling, Kept, Updates, SameVersion, Next1, ControlType,
       FlagType, RowType, SessionRow, TaskRow, ReadsInv, Follows, EndInv,
       Unmarked, Working, TaskTerminal, runVars, flagVars, rowVars, readVars,
       lateVars
<1>18. CASE Cancel
  BY <1>18 DEF Cancel, Kept, StopGoes, ControlType, FlagType, RowType,
       SessionRow, TaskRow, ReadsInv, Follows, EndInv, Unmarked, Working,
       TaskTerminal, runVars, flagVars, rowVars, readVars, lateVars
<1>19. CASE Wake
  BY <1>19 DEF Wake, Kept, ControlType, FlagType, RowType, SessionRow,
       TaskRow, ReadsInv, Follows, EndInv, Unmarked, Working, TaskTerminal,
       runVars, flagVars, rowVars, readVars, lateVars
<1>20. CASE Waited
  BY <1>20 DEF Waited, Kept, ControlType, FlagType, RowType, SessionRow,
       TaskRow, ReadsInv, Follows, EndInv, Unmarked, Working, TaskTerminal,
       runVars, flagVars, rowVars, readVars, lateVars
<1>21. CASE SettleStopped
  BY <1>21 DEF SettleStopped, Kept, Updates, SameVersion, Next1, ControlType,
       FlagType, RowType, SessionRow, TaskRow, ReadsInv, Follows, EndInv,
       Unmarked, Working, TaskTerminal, runVars, flagVars, rowVars, readVars,
       lateVars
<1>22. CASE ReadTask
  BY <1>22 DEF ReadTask, Kept, ControlType, FlagType, RowType, SessionRow,
       TaskRow, ReadsInv, Follows, EndInv, Unmarked, Working, TaskTerminal,
       runVars, flagVars, rowVars, readVars, lateVars
<1>23. CASE CancelTask
  BY <1>23, Tables DEF CancelTask, Kept, Updates, SameVersion, Next1,
       ControlType, FlagType, RowType, SessionRow, TaskRow, ReadsInv, Follows,
       EndInv, Unmarked, Working, TaskTerminal, runVars, flagVars, rowVars,
       readVars, lateVars
<1>24. CASE StopFails
  BY <1>24 DEF StopFails, Kept, StoreFault, ControlType, FlagType, RowType,
       SessionRow, TaskRow, ReadsInv, Follows, EndInv, Unmarked, Working,
       TaskTerminal, runVars, flagVars, rowVars, readVars, lateVars
<1>25. CASE UNCHANGED apiVars
  BY <1>25 DEF ControlType, FlagType, RowType, SessionRow, TaskRow, ReadsInv,
       Follows, EndInv, Unmarked, Working, TaskTerminal, apiVars, runVars,
       flagVars, rowVars, readVars, lateVars
<1> QED
  BY <1>1, <1>2, <1>3, <1>4, <1>5, <1>6, <1>7, <1>8, <1>9, <1>10, <1>11,
       <1>12, <1>13, <1>14, <1>15, <1>16, <1>17, <1>18, <1>19, <1>20, <1>21,
       <1>22, <1>23, <1>24, <1>25 DEF ApiNext

-------------------------------------------------------------------------------
LEMMA ApiInitInv == ApiInit => ApiInv
<1> SUFFICES ASSUME ApiInit PROVE ApiInv
  OBVIOUS
<1> USE DEF ApiInit, Row
<1>1. ControlType
  BY Bounds DEF ControlType, Answers
<1>6. FlagType
  BY DEF FlagType
<1>2. RowType
  BY DEF RowType, SessionRow, TaskRow, SessionLifecycle, TaskLifecycle
<1>3. RoundInv /\ CancelBounds /\ CancelInv
  BY Bounds DEF RoundInv, CancelBounds, CancelInv
<1>4. ReadsInv /\ StopInv
  BY DEF ReadsInv, Follows, StopInv
<1>5. EndInv
  BY DEF EndInv, Unmarked, Working
<1> QED
  BY <1>1, <1>2, <1>3, <1>4, <1>5, <1>6 DEF ApiInv, ApiTypeOK

LEMMA ApiStepInv == ApiInv /\ [ApiNext]_apiVars => ApiInv'
<1> SUFFICES ASSUME ApiInv, [ApiNext]_apiVars PROVE ApiInv'
  OBVIOUS
<1> USE DEF ApiInv, ApiTypeOK
<1>1. ControlType' /\ RoundInv'
  BY ControlStep
<1>2. FlagType' /\ RowType'
  BY FlagStep, RowStep
<1>3. CancelBounds' /\ CancelInv'
  BY CancelStep
<1>4. ReadsInv' /\ StopInv'
  BY ReadsStep, StopStep
<1>5. EndInv'
  BY EndStep
<1> QED
  BY <1>1, <1>2, <1>3, <1>4, <1>5

\* The invariant holds in every state of the run and of the call that stops it.
THEOREM ApiInvariance == ApiSpec => []ApiInv
BY ApiInitInv, ApiStepInv, PTL DEF ApiSpec

\* The types, and the bounds on rounds, calls and late work.
THEOREM ApiTypes == ApiSpec => []ApiTypeOK
<1>1. ApiInv => ApiTypeOK
  BY DEF ApiInv
<1> QED
  BY ApiInvariance, <1>1, PTL

\* However cancellation races the round, the request, the answer and the tool calls, at
\* most one request and the tool calls of one answer come after it.
THEOREM CancelIsBounded == ApiSpec => []CancelBounds
<1>1. ApiInv => CancelBounds
  BY DEF ApiInv
<1> QED
  BY ApiInvariance, <1>1, PTL

\* A stop that went well is final, and a run that ended by itself has said so.
THEOREM RunIsSettled == ApiSpec => []RunSettles
<1>1. ApiInv => RunSettles
  <2> SUFFICES ASSUME ApiInv PROVE RunSettles
    OBVIOUS
  <2>1. stop = "ok" => session.life = "Cancelled" /\ task.life \in {"Cancelled", "Blocked"}
    BY DEF ApiInv, StopInv, ReadsInv
  <2>2. ASSUME loop = "ended", stop \in {"none", "error"}, faults = 0, ~aborted
        PROVE  turnCompleted \/ task.life \in TaskTerminal
    BY <2>2 DEF ApiInv, EndInv, Unmarked
  <2> QED
    BY <2>1, <2>2 DEF RunSettles
<1> QED
  BY ApiInvariance, <1>1, PTL

===============================================================================
