------------------------------ MODULE Lifecycles ------------------------------
(***************************************************************************)
(* The lifecycle tables of the durable V3 store, crates/sentinel-core/     *)
(* src/v3.rs.  Every durable record has a lifecycle column, and every      *)
(* write to that column goes through `transition`, which refuses a pair    *)
(* that its table does not list.                                           *)
(***************************************************************************)

\* TaskLifecycle.  AwaitingApproval and DiscardPending are in the table and
\* are never written by the supervisor this project models.
TaskLifecycle ==
  { "Draft", "Preparing", "Implementing", "AwaitingApproval", "Validating",
    "Reviewing", "Repairing", "ReadyForHuman", "DiscardPending", "Recovering",
    "Blocked", "Finalized", "Integrating", "Integrated", "Completed",
    "Cancelled", "Failed" }

\* TaskLifecycle::terminal: what neither a restart nor a late error reopens.
TaskTerminal ==
  { "Blocked", "Finalized", "Integrated", "Completed", "Cancelled", "Failed" }

\* TaskLifecycle::transition.
TaskSuccessors ==
  [l \in TaskLifecycle |->
     CASE l = "Draft"            -> {"Preparing", "Cancelled"}
       [] l = "Preparing"        -> {"Implementing", "Blocked", "Failed",
                                     "Cancelled", "Recovering"}
       [] l = "Implementing"     -> {"AwaitingApproval", "Validating",
                                     "Completed", "Blocked", "Failed",
                                     "Cancelled", "Recovering"}
       [] l = "AwaitingApproval" -> {"Implementing", "Blocked", "Cancelled",
                                     "Recovering"}
       [] l = "Validating"       -> {"Reviewing", "Completed", "Repairing",
                                     "ReadyForHuman", "Blocked", "Failed",
                                     "Cancelled", "Recovering"}
       [] l = "Reviewing"        -> {"Repairing", "ReadyForHuman", "Blocked",
                                     "Failed", "Cancelled", "Recovering"}
       [] l = "Repairing"        -> {"Validating", "AwaitingApproval",
                                     "Blocked", "Failed", "Cancelled",
                                     "Recovering"}
       [] l = "ReadyForHuman"    -> {"Finalized", "Integrating",
                                     "DiscardPending", "Blocked",
                                     "Recovering"}
       [] l = "Integrating"      -> {"Integrated", "Blocked", "Recovering"}
       [] l = "DiscardPending"   -> {"Finalized", "ReadyForHuman",
                                     "Integrating", "Blocked", "Cancelled",
                                     "Recovering"}
       [] l = "Recovering"       -> {"Preparing", "Implementing",
                                     "AwaitingApproval", "Validating",
                                     "Reviewing", "Repairing",
                                     "ReadyForHuman", "Blocked", "Cancelled",
                                     "Failed"}
       [] l = "Blocked"          -> {"Reviewing"}
       [] OTHER                  -> {}]

\* SessionLifecycle and its transition table.
SessionLifecycle ==
  { "Created", "Starting", "Active", "Cancelling", "Cancelled", "Completed",
    "Failed", "RecoveryRequired" }

SessionSuccessors ==
  [s \in SessionLifecycle |->
     CASE s = "Created"          -> {"Starting", "Cancelled",
                                     "RecoveryRequired"}
       [] s = "Starting"         -> {"Active", "Failed", "Cancelled",
                                     "RecoveryRequired"}
       [] s = "Active"           -> {"Cancelling", "Completed", "Failed",
                                     "RecoveryRequired"}
       [] s = "Cancelling"       -> {"Cancelled", "Failed",
                                     "RecoveryRequired"}
       [] s = "RecoveryRequired" -> {"Starting", "Active", "Cancelled",
                                     "Failed"}
       [] OTHER                  -> {}]

\* FindingDisposition and its transition table.
Disposition ==
  { "Reported", "ConfirmedBlocking", "Informational", "Repaired", "Dismissed" }

DispositionSuccessors ==
  [d \in Disposition |->
     CASE d = "Reported"          -> {"ConfirmedBlocking", "Informational",
                                      "Dismissed"}
       [] d = "ConfirmedBlocking" -> {"Repaired", "Dismissed"}
       [] OTHER                   -> {}]

\* RepairRoundLifecycle and its transition table.
RoundLifecycle ==
  { "Pending", "Active", "AwaitingValidation", "Resolved", "Exhausted",
    "Cancelled" }

RoundSuccessors ==
  [r \in RoundLifecycle |->
     CASE r = "Pending"            -> {"Active", "Cancelled"}
       [] r = "Active"             -> {"AwaitingValidation", "Exhausted",
                                       "Cancelled"}
       [] r = "AwaitingValidation" -> {"Resolved", "Active", "Exhausted",
                                       "Cancelled"}
       [] OTHER                    -> {}]

\* ApprovalLifecycle: every state but Pending is final.
ApprovalLifecycle == {"Pending", "Approved", "Denied", "Expired", "Cancelled"}

\* WorkflowMode, pinned to the task before it is prepared.
WorkflowMode == {"manual", "auto_integrate", "direct_edit"}

===============================================================================
