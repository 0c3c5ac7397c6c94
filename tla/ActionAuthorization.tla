-------------------------- MODULE ActionAuthorization ---------------------------
(***************************************************************************)
(* Approvals as capabilities: crates/sentinel-review binds one to the      *)
(* exact context of an action; whoever executes the action consumes it,    *)
(* and a human may answer it.  Each call reads the approval, the task and  *)
(* the task's worktree one after the other and writes the approval last,   *)
(* under the version it read, while others call and the task moves on.     *)
(***************************************************************************)
EXTENDS Lifecycles, Naturals

CONSTANTS
  Approvals, \* approvals that may be issued, of one task
  Callers,   \* concurrent calls
  Contexts,  \* action, worktree identity and evidence digest, as one value
  MaxMoves   \* bound: changes of the task, its worktree and its evidence

VARIABLES
  issued,   \* v3_approvals: context, lifecycle and version
  audits,   \* authorization_audit artifacts, by approval
  recovering, \* recovery_condition of the task
  standing, \* is the worktree "ready", with the identity all contexts hold?
  current,  \* what current_action_context would be now
  caller,   \* the calls: what each does next, and what it holds
  won,      \* history: calls that were answered Ok, or ApprovalRejected, by approval
  moves     \* changes so far

authVars == <<issued, audits, recovering, standing, current, caller, won, moves>>

Unissued == [context |-> "none", lc |-> "none", version |-> 0]
Resting  == [at |-> "idle", by |-> "none", of |-> "none", context |-> "none", version |-> 0]

AuthStart ==
  /\ issued = [a \in Approvals |-> Unissued] /\ audits = [a \in Approvals |-> 0]
  /\ recovering = FALSE /\ standing = TRUE /\ current = CHOOSE x \in Contexts : TRUE
  /\ caller = [c \in Callers |-> Resting]
  /\ won = [a \in Approvals |-> 0] /\ moves = 0

\* A restart, a reconciliation, a discard, an edit or a check changes what calls go by.
TaskMoves ==
  /\ moves < MaxMoves /\ moves' = moves + 1
  /\ \/ recovering' = ~recovering /\ UNCHANGED <<standing, current>>
     \/ standing' = FALSE /\ standing /\ UNCHANGED <<recovering, current>>
     \/ current' \in Contexts \ {current} /\ UNCHANGED <<recovering, standing>>
  /\ UNCHANGED <<issued, audits, caller, won>>

\* issue: the context is written down as it is now.
Issue(a) ==
  /\ issued[a] = Unissued
  /\ issued' = [issued EXCEPT ![a] = [context |-> current, lc |-> "Pending", version |-> 0]]
  /\ UNCHANGED <<audits, recovering, standing, current, caller, won, moves>>

-------------------------------------------------------------------------------
Sets(c, call) == caller' = [caller EXCEPT ![c] = call]
Moves(c, at)  == caller' = [caller EXCEPT ![c].at = at]

\* An executor asks with the context of its action; the supervisor, for a human's answer,
\* with the context as it is when it looks.
Ask(c, a) ==
  /\ caller[c] = Resting /\ issued[a] # Unissued
  /\ \/ \E x \in Contexts : Sets(c, [at |-> "approval", by |-> "executor", of |-> a,
                                     context |-> x, version |-> 0])
     \/ Sets(c, [at |-> "approval", by |-> "human", of |-> a, context |-> current,
                 version |-> 0])
  /\ UNCHANGED <<issued, audits, recovering, standing, current, won, moves>>

Denied(c) == Sets(c, Resting)

\* validate: pending, of this task and action, and bound to exactly this context.
ReadApproval(c) ==
  /\ caller[c].at = "approval"
  /\ LET a == issued[caller[c].of] IN
     IF a.lc = "Pending" /\ a.context = caller[c].context
     THEN Sets(c, [caller[c] EXCEPT !.at = "task", !.version = a.version])
     ELSE Denied(c)
  /\ UNCHANGED <<issued, audits, recovering, standing, current, won, moves>>

ReadTask(c) ==
  /\ caller[c].at = "task"
  /\ IF recovering THEN Denied(c) ELSE Moves(c, "worktree")
  /\ UNCHANGED <<issued, audits, recovering, standing, current, won, moves>>

ReadWorktree(c) ==
  /\ caller[c].at = "worktree"
  /\ IF ~standing THEN Denied(c)
     ELSE Moves(c, IF caller[c].by = "human" THEN "again" ELSE "write")
  /\ UNCHANGED <<issued, audits, recovering, standing, current, won, moves>>

\* require_human_approval reads the approval again, and goes by what it reads now.
ReadAgain(c) ==
  /\ caller[c].at = "again"
  /\ LET a == issued[caller[c].of] IN
     IF a.lc = "Pending" THEN Sets(c, [caller[c] EXCEPT !.at = "write", !.version = a.version])
     ELSE Denied(c)
  /\ UNCHANGED <<issued, audits, recovering, standing, current, won, moves>>

\* Mutant: the update does not ask for the version that was read.
AnyVersion(c) == TRUE

\* transition_approval: WHERE version = what was read.
SameVersion(c) == issued[caller[c].of].version = caller[c].version

Write(c) ==
  /\ caller[c].at = "write"
  /\ IF ~SameVersion(c) THEN Denied(c) /\ UNCHANGED <<issued, won>>
     ELSE LET a == caller[c].of IN
       /\ \E l \in IF caller[c].by = "human" THEN {"Approved", "Denied"} ELSE {"Approved"} :
            issued' = [issued EXCEPT ![a].lc = l, ![a].version = @ + 1]
       /\ won' = [won EXCEPT ![a] = @ + 1]
       /\ IF caller[c].by = "human" THEN Sets(c, Resting) ELSE Moves(c, "audit")
  /\ UNCHANGED <<audits, recovering, standing, current, moves>>

Audit(c) ==
  /\ caller[c].at = "audit" /\ Sets(c, Resting)
  /\ audits' = [audits EXCEPT ![caller[c].of] = @ + 1]
  /\ UNCHANGED <<issued, recovering, standing, current, won, moves>>

\* A read or a write of the store fails, or the process dies.
CallDies(c) ==
  /\ caller[c] # Resting /\ Sets(c, Resting)
  /\ UNCHANGED <<issued, audits, recovering, standing, current, won, moves>>

AuthNext ==
  \/ TaskMoves
  \/ \E a \in Approvals : Issue(a) \/ \E c \in Callers : Ask(c, a)
  \/ \E c \in Callers : \/ ReadApproval(c) \/ ReadTask(c) \/ ReadWorktree(c) \/ ReadAgain(c)
                        \/ Write(c) \/ Audit(c) \/ CallDies(c)

-------------------------------------------------------------------------------
AuthTypeOK ==
  /\ issued \in [Approvals -> {Unissued} \union
                  [context : Contexts, lc : ApprovalLifecycle, version : 0..2]]
  /\ audits \in [Approvals -> 0..1] /\ recovering \in BOOLEAN /\ standing \in BOOLEAN
  /\ current \in Contexts
  /\ \A c \in Callers : /\ caller[c].at \in {"idle", "approval", "task", "worktree", "again",
                                             "write", "audit"}
                        /\ caller[c].by \in {"none", "executor", "human"}

\* However executors and humans race, an approval has one winner and keeps its answer; it
\* is audited at most once, and only for an executor whose context is the one it is bound to.
OneWinner ==
  \A a \in Approvals :
    /\ won[a] <= 1 /\ audits[a] <= won[a]
    /\ won[a] = 0 <=> issued[a].lc \in {"none", "Pending"}
    /\ audits[a] = 1 => issued[a].lc = "Approved"
    /\ \A c \in Callers : caller[c].of = a /\ caller[c].at \in {"write", "audit"} =>
         caller[c].context = issued[a].context

===============================================================================
