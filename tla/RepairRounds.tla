----------------------------- MODULE RepairRounds ------------------------------
(***************************************************************************)
(* How crates/sentinel-review prepares a final approval, whatever its      *)
(* reviewer reports and its implementer does: review the validated         *)
(* generation, hand each confirmed blocker to the implementer in a round   *)
(* of its own, validate, review again, and verify what is left.  Every     *)
(* await of it may fail or be the last: what was written so far stays, and *)
(* the next call starts from it.  An issue is named by the file it is in,  *)
(* and all findings are blockers: others change nothing here.              *)
(***************************************************************************)
EXTENDS Lifecycles, Naturals, SequencesExt

CONSTANTS
  Issues,      \* what a reviewer may report of the code
  MaxRoundsOfCall, \* what a caller gives for max_rounds, at most
  MaxFindings, \* bound: findings on record
  MaxVersions, \* bound: versions of the tree
  MaxPrepares, \* bound: calls
  MaxLapses    \* bound: calls that fail at an await, and ends of the host

VARIABLES
  findings, \* v3_review_findings, in the order they were made; round 0: none
  rounds,   \* v3_repair_rounds, by number
  gens,     \* v3_review_generations: the version each one captured
  code,     \* the task's tree: its version, and the files in which it differs from its base
  turn,     \* the call: where it is, the rounds it has had, and what it holds
  heard,    \* the last review: the generation it saw and what it supported
  sent,     \* history: the findings in the repair_handoff artifacts
  conclusion,  \* what the last call came to
  spent     \* calls and lapses so far

roundVars == <<findings, rounds, gens, code, turn, heard, sent, conclusion, spent>>

Quiet == [at |-> "idle", max |-> 0, used |-> 0, target |-> 0, todo |-> {}, claimed |-> FALSE,
          passed |-> FALSE]

RoundStart ==
  /\ findings = <<>> /\ rounds = <<>> /\ gens = <<1>>
  /\ code = [version |-> 1, differs |-> Issues]
  /\ turn = Quiet /\ heard = [gen |-> 0, issues |-> {}]
  /\ sent = <<>> /\ conclusion = "none" /\ spent = [prepares |-> 0, lapses |-> 0]

To(at) == turn' = [turn EXCEPT !.at = at]
Returns(v) == turn' = Quiet /\ conclusion' = v
SetRound(l) == /\ l \in RoundSuccessors[Last(rounds)]
               /\ rounds' = [rounds EXCEPT ![Len(rounds)] = l]
SetDisposition(f, d) == /\ d \in DispositionSuccessors[findings[f].disp]
                        /\ findings' = [findings EXCEPT ![f].disp = d]

-------------------------------------------------------------------------------
(* Outside a call.                                                         *)

\* run_profile, of the caller: the checks pass on the tree as it is.
Validate ==
  /\ turn = Quiet /\ Last(gens) # code.version
  /\ gens' = Append(gens, code.version)
  /\ UNCHANGED <<findings, rounds, code, turn, heard, sent, conclusion, spent>>

Change(differs) ==
  /\ code.version < MaxVersions
  /\ code' = [version |-> code.version + 1, differs |-> differs]

\* The tree changes between two calls: a conclusion was of the tree before.
Edit ==
  /\ turn = Quiet /\ conclusion' = "none" /\ Change(code.differs)
  /\ UNCHANGED <<findings, rounds, gens, turn, heard, sent, spent>>

Persisted == turn.at = "persist" /\ turn.todo = {}

\* transition_review_finding: someone judges a finding, during a call or not.  Within a call,
\* it is only modelled where the next step reads a disposition.
Judge ==
  /\ conclusion # "ready" /\ (turn = Quiet \/ Persisted \/ turn.at \in {"assign", "dispose"})
  /\ \E f \in DOMAIN findings, d \in Disposition \ {"Repaired"} : SetDisposition(f, d)
  /\ UNCHANGED <<rounds, gens, code, turn, heard, sent, conclusion, spent>>

-------------------------------------------------------------------------------
(* A review: ReviewSupervisor::run.                                        *)

Prepare ==
  /\ turn = Quiet /\ spent.prepares < MaxPrepares
  /\ spent' = [spent EXCEPT !.prepares = @ + 1]
  /\ \/ Returns("limit") \* max_rounds is 0
     \/ /\ \E n \in 1..MaxRoundsOfCall : turn' = [Quiet EXCEPT !.at = "review", !.max = n]
        /\ conclusion' = "none"
  /\ UNCHANGED <<findings, rounds, gens, code, heard, sent>>

\* Mutant: a finding of an earlier generation hides one of this generation.
KnownAnywhere(i) == \E f \in DOMAIN findings : findings[f].issue = i

\* persist_candidates: is the finding on record for the generation under review?
Known(i) == \E f \in DOMAIN findings : findings[f].issue = i /\ findings[f].gen = Len(gens)

StaleRound ==
  /\ turn.at = "review" /\ Last(gens) # code.version /\ Returns("storage")
  /\ UNCHANGED <<findings, rounds, gens, code, heard, sent, spent>>

Review ==
  /\ turn.at = "review" /\ Last(gens) = code.version
  /\ \E reported \in SUBSET Issues :
       /\ Cardinality({i \in reported : ~Known(i)}) + Len(findings) <= MaxFindings
       /\ heard' = [gen |-> Len(gens), issues |-> reported]
       /\ turn' = [turn EXCEPT !.at = "persist", !.todo = {i \in reported : ~Known(i)}]
  /\ UNCHANGED <<findings, rounds, gens, code, sent, conclusion, spent>>

Persist ==
  /\ turn.at = "persist"
  /\ \E i \in turn.todo :
       /\ findings' = Append(findings, [issue |-> i, gen |-> heard.gen, disp |-> "Reported",
                                        round |-> 0])
       /\ turn' = [turn EXCEPT !.todo = @ \ {i}]
  /\ UNCHANGED <<rounds, gens, code, heard, sent, conclusion, spent>>

-------------------------------------------------------------------------------
(* The loop of prepare_evidence, and RepairSupervisor::handoff.            *)

Confirmed == {f \in DOMAIN findings : findings[f].disp = "ConfirmedBlocking"}
Eligible  == {f \in Confirmed : findings[f].round = 0}

\* No blocker is confirmed: the loop is left, and none may be open.
Settle ==
  /\ Persisted /\ Confirmed = {}
  /\ IF \A f \in DOMAIN findings : findings[f].disp \in {"Repaired", "Dismissed"}
     THEN To("verify") /\ UNCHANGED conclusion
     ELSE Returns("unresolved")
  /\ UNCHANGED <<findings, rounds, gens, code, heard, sent, spent>>

\* RoundLimitReached, or DuplicateHandoff.
NoRound ==
  /\ Persisted /\ Confirmed # {}
  /\ \/ turn.used >= turn.max /\ Returns("limit")
     \/ turn.used < turn.max /\ Eligible = {} /\ Returns("unresolved")
  /\ UNCHANGED <<findings, rounds, gens, code, heard, sent, spent>>

OpenRound ==
  /\ Persisted /\ Eligible # {} /\ turn.used < turn.max
  /\ rounds' = Append(rounds, "Pending")
  /\ turn' = [turn EXCEPT !.at = "opened",
                          !.target = CHOOSE f \in Eligible : \A g \in Eligible : f <= g]
  /\ UNCHANGED <<findings, gens, code, heard, sent, conclusion, spent>>

Activate ==
  /\ turn.at = "opened" /\ SetRound("Active") /\ To("assign")
  /\ UNCHANGED <<findings, gens, code, heard, sent, conclusion, spent>>

\* Mutant: a finding is taken by a round without being marked as taken.
AssignUnmarked ==
  /\ turn.at = "assign" /\ To("handoff")
  /\ UNCHANGED <<findings, conclusion, rounds, gens, code, heard, sent, spent>>

\* The update asks again whether the finding is confirmed and free.
Assign ==
  /\ turn.at = "assign"
  /\ IF turn.target \in Eligible
     THEN /\ findings' = [findings EXCEPT ![turn.target].round = Len(rounds)]
          /\ To("handoff") /\ UNCHANGED conclusion
     ELSE Returns("storage") /\ UNCHANGED findings
  /\ UNCHANGED <<rounds, gens, code, heard, sent, spent>>

HandOff ==
  /\ turn.at = "handoff" /\ To("repair") /\ sent' = Append(sent, turn.target)
  /\ UNCHANGED <<findings, rounds, gens, code, heard, conclusion, spent>>

\* RepairImplementer::repair: it changes what it likes, and says what it likes.
Repair ==
  /\ turn.at = "repair"
  /\ \E claimed \in BOOLEAN : turn' = [turn EXCEPT !.at = "await", !.claimed = claimed]
  /\ UNCHANGED code \/ \E d \in SUBSET Issues : Change(d)
  /\ UNCHANGED <<findings, rounds, gens, heard, sent, conclusion, spent>>

AwaitValidation ==
  /\ turn.at = "await" /\ SetRound("AwaitingValidation") /\ To("validate")
  /\ UNCHANGED <<findings, gens, code, heard, sent, conclusion, spent>>

\* run_profile: what passes becomes the latest generation.
ValidateRepair ==
  /\ turn.at = "validate"
  /\ \E passed \in BOOLEAN :
       /\ gens' = IF passed THEN Append(gens, code.version) ELSE gens
       /\ turn' = [turn EXCEPT !.at = "dispose", !.passed = passed]
  /\ UNCHANGED <<findings, rounds, code, heard, sent, conclusion, spent>>

\* Mutant: the implementer is taken at its word.
TakenAtItsWord == turn.claimed

\* The checks passed, the file differs from its base, and the implementer says it changed it.
Resolved == turn.passed /\ turn.claimed /\ findings[turn.target].issue \in code.differs

Dispose ==
  /\ turn.at = "dispose"
  /\ \/ ~Resolved /\ To("exhausted") /\ UNCHANGED <<findings, conclusion>>
     \/ /\ Resolved /\ SetDisposition(turn.target, "Repaired") /\ To("resolved")
        /\ UNCHANGED conclusion
     \/ /\ Resolved /\ findings[turn.target].disp # "ConfirmedBlocking"
        /\ Returns("storage") /\ UNCHANGED findings
  /\ UNCHANGED <<rounds, gens, code, heard, sent, spent>>

\* Mutant: the loop goes on without the fresh review.
AfterRepair == "persist"

\* Every completed repair gets a fresh review.
NextReview == "review"

CloseRound ==
  /\ \/ /\ turn.at = "resolved" /\ SetRound("Resolved")
        /\ turn' = [Quiet EXCEPT !.at = NextReview, !.max = turn.max,
                                !.used = turn.used + 1] /\ UNCHANGED conclusion
     \/ /\ turn.at = "exhausted" /\ SetRound("Exhausted")
        /\ Returns(IF turn.passed THEN "unresolved" ELSE "invalid")
  /\ UNCHANGED <<findings, gens, code, heard, sent, spent>>

\* run_profile_for_final_approval: no generation is made.
Verify ==
  /\ turn.at = "verify" /\ \E v \in {"ready", "invalid"} : Returns(v)
  /\ UNCHANGED <<findings, rounds, gens, code, heard, sent, spent>>

\* The store, the tree, the reviewer, the implementer or the checks fail, or the host dies.
Lapse ==
  /\ turn # Quiet /\ spent.lapses < MaxLapses
  /\ spent' = [spent EXCEPT !.lapses = @ + 1]
  /\ Returns(IF turn.at \in {"validate", "verify"} THEN "invalid" ELSE "storage")
  /\ UNCHANGED <<findings, rounds, gens, code, heard, sent>>

RoundNext ==
  \/ Validate \/ Edit \/ Judge \/ Prepare \/ StaleRound \/ Review \/ Persist
  \/ Settle \/ NoRound \/ OpenRound \/ Activate \/ Assign \/ HandOff \/ Repair
  \/ AwaitValidation \/ ValidateRepair \/ Dispose \/ CloseRound \/ Verify \/ Lapse

-------------------------------------------------------------------------------
RoundTypeOK ==
  /\ findings \in Seq([issue : Issues, gen : 1..Len(gens), disp : Disposition,
                       round : 0..Len(rounds)])
  /\ rounds \in Seq(RoundLifecycle) /\ gens \in Seq(1..MaxVersions)
  /\ code \in [version : 1..MaxVersions, differs : SUBSET Issues]
  /\ turn.used \in 0..turn.max /\ turn.target \in 0..Len(findings)
  /\ conclusion \in {"none", "storage", "limit", "unresolved", "invalid", "ready"}

\* However often a call fails and is repeated, no finding is handed to an implementer twice.
HandedOnce == \A a, b \in DOMAIN sent : sent[a] = sent[b] => a = b

\* A finding is on record as repaired only if a round was for it and got as far as its
\* validation, and a generation was validated after the one it was reported of.  A round
\* is on record as resolved only for a finding that is.
RepairsAreBacked ==
  /\ \A f \in DOMAIN findings : findings[f].disp = "Repaired" =>
       /\ f \in ToSet(sent) /\ findings[f].round \in DOMAIN rounds
       /\ rounds[findings[f].round] \in {"AwaitingValidation", "Resolved"}
       /\ findings[f].gen < Len(gens)
  /\ \A r \in DOMAIN rounds : rounds[r] = "Resolved" =>
       \E f \in DOMAIN findings : findings[f].round = r /\ findings[f].disp = "Repaired"

\* An approval is asked for only of a tree that is the latest generation, as its last review
\* saw it, and of which nothing that review reported was not looked at and dismissed.
ReadyWasReviewed ==
  conclusion = "ready" =>
    /\ heard.gen = Len(gens) /\ Last(gens) = code.version
    /\ \A i \in heard.issues : \E f \in DOMAIN findings :
         findings[f].issue = i /\ findings[f].gen = heard.gen /\ findings[f].disp = "Dismissed"

RoundsAreSound == HandedOnce /\ RepairsAreBacked /\ ReadyWasReviewed

===============================================================================
