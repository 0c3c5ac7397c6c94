---------------------------- MODULE ValidationChecks ---------------------------
(***************************************************************************)
(* How crates/sentinel-validation runs the commands of a profile: a row    *)
(* for each, its child in a group of its own, two readers that fill one    *)
(* channel, a time limit, and what is stored of it, until a generation of  *)
(* the tree is made.  A child may print what cannot be read or kept,       *)
(* leave descendants behind, close its output and go on, or never end.     *)
(***************************************************************************)
EXTENDS Naturals, SequencesExt

CONSTANTS
  MaxSteps,    \* steps a profile may have
  OutputLimit, \* bytes kept of a stream (OUTPUT_LIMIT)
  ChannelSize, \* lines a channel and its pipes hold
  MaxPrints,   \* bound: lines printed
  MaxRuns,     \* bound: profiles run
  MaxBreaks    \* bound: failures of the store, and ends of the host

VARIABLES
  checks,   \* v3_validation_results with their execution, in the order they were made
  profile,  \* which steps of the profile that is run are required
  runner,   \* the run: where it is, its step, and what it found of it
  child,    \* the child of the last check, by the check's number
  orphans,  \* children whose descendants are there
  channel,  \* lines that were printed and not taken
  reading,  \* streams whose reader goes on
  kept,     \* bytes kept of each stream
  exited,   \* history: the exit codes of children, by check
  made,     \* history: the checks behind each generation
  budget    \* prints, runs and breaks so far

checkVars == <<checks, profile, runner, child, orphans, channel, reading, kept, exited, made,
               budget>>

Streams == {"out", "err"}
Off     == [at |-> "idle", step |-> 0, first |-> 0, outcome |-> "none"]
NoChild == [state |-> "none", open |-> {}]
NoCode  == 2 \* it did not exit, or was killed

ChecksStart ==
  /\ checks = <<>> /\ profile = <<>> /\ runner = Off /\ child = NoChild /\ orphans = {}
  /\ channel = <<>> /\ reading = {} /\ kept = [s \in Streams |-> 0]
  /\ exited = <<>> /\ made = <<>> /\ budget = [prints |-> 0, runs |-> 0, breaks |-> 0]

This      == Len(checks)
Stays(at) == runner' = [runner EXCEPT !.at = at]
Leaves    == runner' = Off
Store(lc) == checks' = [checks EXCEPT ![This].lc = lc]
Spends(k) == budget' = [budget EXCEPT ![k] = @ + 1]

-------------------------------------------------------------------------------
(* The child and what it starts.                                           *)

Running == child.state = "running"

\* A line, a line whose last character is two bytes, or bytes that are no text, which end
\* their reader; from a descendant, too.  A full channel blocks.
Prints ==
  /\ child.open # {} /\ (Running \/ This \in orphans)
  /\ Len(channel) < ChannelSize /\ budget.prints < MaxPrints /\ Spends("prints")
  /\ \E s \in child.open \intersect reading, w \in {"line", "wide", "bad"} :
       /\ channel' = Append(channel, [from |-> s, what |-> w])
       /\ reading' = IF w = "bad" THEN reading \ {s} ELSE reading
  /\ UNCHANGED <<checks, profile, runner, child, orphans, kept, exited, made>>

\* It starts something that outlives it, and stays in its process group.
Forks ==
  /\ Running /\ orphans' = orphans \union {This}
  /\ UNCHANGED <<checks, profile, runner, child, channel, reading, kept, exited, made, budget>>

\* It closes its output, and goes on.
ClosesOutput ==
  /\ Running /\ \E s \in child.open : child' = [child EXCEPT !.open = @ \ {s}]
  /\ UNCHANGED <<checks, profile, runner, orphans, channel, reading, kept, exited, made, budget>>

\* Descendants keep what it had open.
Exits ==
  /\ Running /\ \E code \in {0, 1} : exited' = [exited EXCEPT ![This] = code]
  /\ child' = [state |-> "exited", open |-> IF This \in orphans THEN child.open ELSE {}]
  /\ UNCHANGED <<checks, profile, runner, orphans, channel, reading, kept, made, budget>>

\* Its descendants end.
OrphansEnd ==
  /\ \E c \in orphans : orphans' = orphans \ {c}
                        /\ child' = IF c = This /\ ~Running THEN [child EXCEPT !.open = {}]
                                    ELSE child
  /\ UNCHANGED <<checks, profile, runner, channel, reading, kept, exited, made, budget>>

-------------------------------------------------------------------------------
(* run_profile_with_generation                                             *)

Begin ==
  /\ runner = Off /\ budget.runs < MaxRuns /\ Spends("runs")
  /\ \E n \in 1..MaxSteps : profile' \in [1..n -> BOOLEAN]
  /\ runner' = [Off EXCEPT !.at = "create", !.step = 1, !.first = This + 1]
  /\ UNCHANGED <<checks, child, orphans, channel, reading, kept, exited, made>>

CreateResult ==
  /\ runner.at = "create" /\ Stays("start")
  /\ checks' = Append(checks, [step |-> runner.step, lc |-> "Pending", saved |-> "none"])
  /\ exited' = Append(exited, NoCode)
  /\ child' = NoChild
  /\ UNCHANGED <<profile, orphans, channel, reading, kept, made, budget>>

StartResult ==
  /\ runner.at = "start" /\ Stays("spawn") /\ Store("Running")
  /\ UNCHANGED <<profile, child, orphans, channel, reading, kept, exited, made, budget>>

\* A command that is not allowed, or cannot be started, has the outcome "invalid".
Spawn ==
  /\ runner.at = "spawn"
  /\ \/ /\ runner' = [runner EXCEPT !.at = "save", !.outcome = "invalid"]
        /\ UNCHANGED <<child, reading, kept>>
     \/ /\ Stays("select") /\ child' = [state |-> "running", open |-> Streams]
        /\ reading' = Streams /\ kept' = [s \in Streams |-> 0]
  /\ UNCHANGED <<checks, profile, orphans, channel, exited, made, budget>>

Left(s)  == OutputLimit - kept[s]
Width(l) == IF l.what = "wide" THEN 2 ELSE 1

\* append: a line is cut at what is left, which may be inside a character: then it panics.
Splits(l) == l.what = "wide" /\ Left(l.from) = 1

TakeLine ==
  /\ runner.at = "select" /\ channel # <<>> /\ Head(channel).what # "bad" /\ ~Splits(Head(channel))
  /\ LET l == Head(channel)
         cut == kept[l.from] + (IF Width(l) <= Left(l.from) THEN Width(l) ELSE Left(l.from))
     IN kept' = [kept EXCEPT ![l.from] = IF cut < OutputLimit THEN cut + 1 ELSE cut]
  /\ channel' = Tail(channel)
  /\ UNCHANGED <<checks, profile, runner, child, orphans, reading, exited, made, budget>>

\* OutputError, or the end of both streams: the child is waited for, and nothing is read.
TakeEnd ==
  /\ runner.at = "select" /\ Stays("wait")
  /\ \/ channel # <<>> /\ Head(channel).what = "bad" /\ channel' = Tail(channel)
     \/ channel = <<>> /\ child.open \intersect reading = {} /\ UNCHANGED channel
  /\ UNCHANGED <<checks, profile, child, orphans, reading, kept, exited, made, budget>>

\* The receiver is dropped, and the readers stop.
HangUp == channel' = <<>> /\ reading' = {}

\* Mutant: only the child is killed, and not its group.
KillChild == UNCHANGED orphans

\* SIGTERM, and then SIGKILL, to the group.
KillGroup == orphans' = orphans \ {This}

\* The time limit, or a cancellation; the child may have ended by itself just now.
CutShort ==
  /\ runner.at = "select" /\ KillGroup
  /\ child' = [state |-> "exited", open |-> {}]
  /\ \E o \in {"timed_out", "cancelled"} :
       runner' = [runner EXCEPT !.at = "save", !.outcome = o]
  /\ HangUp
  /\ UNCHANGED <<checks, profile, kept, exited, made, budget>>

\* process.wait: without a limit.
WaitEnds ==
  /\ runner.at = "wait" /\ child.state = "exited"
  /\ runner' = [runner EXCEPT !.at = "save",
                              !.outcome = IF exited[This] = 0 THEN "passed" ELSE "failed"]
  /\ HangUp
  /\ UNCHANGED <<checks, profile, child, orphans, kept, exited, made, budget>>

Save ==
  /\ runner.at = "save" /\ Stays("settle")
  /\ checks' = [checks EXCEPT ![This].saved = runner.outcome]
  /\ UNCHANGED <<profile, child, orphans, channel, reading, kept, exited, made, budget>>

Lifecycle == CASE runner.outcome = "passed" -> "Passed"
               [] runner.outcome = "failed" -> "Failed"
               [] OTHER                     -> "Incomplete"

Settled ==
  /\ runner.at = "settle" /\ Store(Lifecycle)
  /\ runner' = IF runner.step < Len(profile)
               THEN [runner EXCEPT !.at = "create", !.step = @ + 1, !.outcome = "none"]
               ELSE [runner EXCEPT !.at = "conclude"]
  /\ UNCHANGED <<profile, child, orphans, channel, reading, kept, exited, made, budget>>

OfRun == runner.first..This

\* Mutant: steps that are not required do not count.
RequiredPassed == \A c \in OfRun : profile[checks[c].step] => checks[c].saved = "passed"

AllPassed == \A c \in OfRun : checks[c].saved = "passed"

\* A run for the final approval leaves the generation as it is.
Conclude ==
  /\ runner.at = "conclude" /\ Leaves
  /\ made' \in {made} \union (IF AllPassed THEN {Append(made, OfRun)} ELSE {})
  /\ UNCHANGED <<checks, profile, child, orphans, channel, reading, kept, exited, budget>>

\* The store or the worktree fails: the call is over, its row stays as it is.
StepFails ==
  /\ runner.at \in {"create", "start", "save", "settle", "conclude"} /\ Leaves
  /\ budget.breaks < MaxBreaks /\ Spends("breaks")
  /\ UNCHANGED <<checks, profile, child, orphans, channel, reading, kept, exited, made>>

\* The host ends, by itself or in append, and starts again; its child goes on like a
\* descendant, and its readers are gone.  recover_interrupted_validations_for_task is
\* called if the task was Validating.
HostEnds ==
  /\ runner # Off /\ Leaves /\ HangUp
  /\ \/ /\ runner.at = "select" /\ channel # <<>> /\ Head(channel).what # "bad"
        /\ Splits(Head(channel)) /\ UNCHANGED budget
     \/ budget.breaks < MaxBreaks /\ Spends("breaks")
  /\ orphans' = IF Running THEN orphans \union {This} ELSE orphans
  /\ child' = IF Running THEN [child EXCEPT !.state = "exited"] ELSE child
  /\ \E recovers \in BOOLEAN :
       checks' = [c \in DOMAIN checks |-> IF recovers /\ checks[c].lc = "Running"
                                          THEN [checks[c] EXCEPT !.lc = "Incomplete"]
                                          ELSE checks[c]]
  /\ UNCHANGED <<profile, kept, exited, made>>

ChecksNext ==
  \/ Prints \/ Forks \/ ClosesOutput \/ Exits \/ OrphansEnd
  \/ Begin \/ CreateResult \/ StartResult \/ Spawn \/ TakeLine \/ TakeEnd \/ CutShort
  \/ WaitEnds \/ Save \/ Settled \/ Conclude \/ StepFails \/ HostEnds

-------------------------------------------------------------------------------
ChecksTypeOK ==
  /\ \A c \in DOMAIN checks :
       /\ checks[c].lc \in {"Pending", "Running", "Passed", "Failed", "Incomplete"}
       /\ checks[c].saved \in {"none", "passed", "failed", "timed_out", "cancelled", "invalid"}
  /\ runner.at \in {"idle", "create", "start", "spawn", "select", "wait", "save", "settle",
                    "conclude"}
  /\ Len(channel) <= ChannelSize /\ orphans \subseteq DOMAIN checks
  /\ \A s \in Streams : kept[s] \in 0..OutputLimit

\* A generation is of one whole run, all of whose children ended well; no row says more than
\* its execution, nor an execution more than its child; and of a command that was cut short
\* nothing goes on to change the tree that is validated next.
ChecksAreBacked ==
  /\ \A g \in DOMAIN made : \A c \in made[g] : checks[c].lc = "Passed"
  /\ \A c \in DOMAIN checks :
       /\ checks[c].lc = "Passed" => checks[c].saved = "passed"
       /\ checks[c].saved = "passed" => exited[c] = 0
       /\ checks[c].saved \in {"timed_out", "cancelled", "invalid"} => c \notin orphans

===============================================================================
