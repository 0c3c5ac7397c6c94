---------------------------- MODULE MCApplications -----------------------------
(***************************************************************************)
(* The two applications for TLC, with what must go on in them: the desktop *)
(* application's runs (RunContexts), the macOS application at its bridge   *)
(* (RequestLedger), and the supervisor of that bridge (TaskWorkflow).  They *)
(* share no state, so in a behaviour one of them moves and the others      *)
(* stand still.                                                            *)
(***************************************************************************)
EXTENDS RunContexts, BridgeRequests

CONSTANTS
  FirstId,       \* the request id that is used first
  TaskKinds, Modes, Issues, MaxRounds, MaxReviewRetries, MaxTree, MaxVals, \* of
  MaxLives, Committers                                            \* TaskWorkflow

ASSUME FirstAssumption == FirstId \in Ids

VARIABLES
  focus, \* which of the three moves
  rows, version, stdin, channel, dirty, stdout, proc, processes, subscribed,
  last, at, current, gates, sending, view, notice, stopped, used, sends, calls,
  answers,
  lc, mode, provider, wt, impl, aux, apiRef, turnDone, vals, gen, genTree,
  genHead, findings, rounds, failed, retries, packet, approvals, integ, tree,
  head, target, merged, turn, orphan, owned, lives, pc, cands, expect, was

Bridge == INSTANCE RequestLedger WITH lives <- processes, pc <- at, shown <- view
Task   == INSTANCE TaskWorkflow WITH
            Kinds <- TaskKinds, kind <- provider, Stray <- {}, MaxTarget <- 0,
            Orphans <- FALSE, ChecksEdit <- FALSE

bridgeVars == <<rows, version, stdin, channel, dirty, stdout, proc, processes,
                subscribed, last, at, current, gates, sending, view, notice,
                stopped, used, sends, calls, answers>>
taskVars   == <<lc, mode, provider, wt, impl, aux, apiRef, turnDone, vals, gen,
                genTree, genHead, findings, rounds, failed, retries, packet,
                approvals, integ, tree, head, target, merged, turn, orphan,
                owned, lives, pc, cands, expect, was>>

\* What the bridge is asked for: a mutation with a gate, start_task, which leaves
\* rows alone, and one that does not, save_quick_prompt_preferences.
TwoIntents  == {"start_task", "save_preferences"}
LooseIntent == {"save_preferences"}
OneGate     == {"submission"}
GateMap     == [x \in TwoIntents |->
                  IF x = "start_task" THEN "submission" ELSE "ungated"]

\* Every kind of run and of task, and the runs that ask for approvals.
AllRuns  == {"none", "fake", "codex", "claude"}
Askers   == {"none", "claude"}
AllTasks == {"codex", "claude", "omp", "api"}

-------------------------------------------------------------------------------
AppsInit ==
  /\ focus \in {"desktop", "bridge", "task"}
  /\ Init /\ (focus = "desktop" \/ kind = "none")
  /\ Bridge!Init
  /\ Task!Init /\ (focus = "task" \/ (provider = "codex" /\ mode = "manual"))

\* Request ids are alike, so that the first that is used may be any; and the store
\* changes under one request, or not under two.
AppsNext ==
  /\ UNCHANGED focus
  /\ \/ focus = "desktop" /\ Next /\ UNCHANGED <<bridgeVars, taskVars>>
     \/ /\ focus = "bridge" /\ Bridge!Next /\ UNCHANGED <<vars, taskVars>>
        /\ used' # {} => FirstId \in used'
        /\ sends' <= 1 \/ version' = 1
     \/ focus = "task" /\ Task!Next /\ UNCHANGED <<vars, bridgeVars>>

AppsVars == <<focus, vars, bridgeVars, taskVars>>

AppsSpec == AppsInit /\ [][AppsNext]_AppsVars

\* The fairness of RunContexts, RequestLedger and TaskWorkflow.
AppsFairSpec ==
  /\ AppsSpec
  /\ WF_vars(focus = "desktop" /\ Runner /\ UNCHANGED aside)
  /\ WF_vars(focus = "desktop" /\ Forwarder /\ UNCHANGED aside)
  /\ WF_vars(focus = "desktop" /\ Commands)
  /\ WF_bridgeVars(focus = "bridge" /\ Bridge!Loop)
  /\ WF_bridgeVars(focus = "bridge" /\ Bridge!ReadLine)
  /\ WF_bridgeVars(focus = "bridge" /\ Bridge!ForwardChange)
  /\ WF_bridgeVars(focus = "bridge" /\ Bridge!Receive)
  /\ WF_bridgeVars(focus = "bridge" /\ Bridge!Notice)
  /\ WF_bridgeVars(focus = "bridge" /\ Bridge!Connect)
  /\ WF_taskVars(focus = "task" /\ Task!CallSteps)
  /\ WF_taskVars(focus = "task" /\ Task!Reconcile)

-------------------------------------------------------------------------------
\* The types of all three, the bounds of their queues and counters included.
AppsTypeOK == TypeOK /\ Bridge!TypeOK /\ Task!TypeOK

\* A request's call is made at most once and for one intent: see RequestLedger.
CalledAtMostOnce == Bridge!CalledAtMostOnce

\* Who was told that a request was accepted was told the truth: see RequestLedger.
AcceptanceIsFinal == Bridge!AcceptanceIsFinal

\* A gate that waits is opened, or the client shows why not: see RequestLedger.
GateSettles == Bridge!GateSettles

\* A connected client ends up showing the store as it is: see RequestLedger.
ViewConverges == Bridge!ViewConverges

\* A review of a task ends: see TaskWorkflow.
ReviewSettles == Task!ReviewSettles

\* A completed turn is consumed: see TaskWorkflow.
TurnIsConsumed == Task!TurnIsConsumed

===============================================================================
