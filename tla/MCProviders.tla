------------------------------- MODULE MCProviders ------------------------------
(***************************************************************************)
(* What talks to the providers, for TLC: the connection to a Codex app     *)
(* server, the processes of the Claude and OMP command lines, the run of   *)
(* an API provider, the conversation it has over HTTP, the settings that   *)
(* choose between them and the check of the models they name.  They share  *)
(* no state, so in a behaviour one of them moves and the others stand      *)
(* still: interleaving them would multiply the states and show nothing.    *)
(***************************************************************************)
EXTENDS AppServer, ApiRun

CONSTANTS
  Sessions, Lines, First,            \* of CliSessions; First may run already
  CustomRoles, Mutations, SaveFaults, \* of ProviderSettings
  MaxLines, LaterLines, MaxUnits, Replies, \* of ChatStream
  MaxModels, MaxPages, MaxShifts     \* of ModelCatalog

ASSUME ProvidersAssumption ==
  First \in Sessions /\ Lines \in Nat \ {0} /\ MaxModels \in Nat \ {0, 1}

VARIABLES
  focus, \* which of the six moves
  kind, process, output, written, owner, rd, line, ready, record, rows, lock, prompt, completed,
  cancelling, count, events, lost, overlapped,
  disk, memory, candidate, temporary, routing, keys, programs, hosted, step, answer, mishaps,
  dialect, messages, at, body, response, fed, buffer, acc, result,
  listing, intact, wanted, paging, fetched, offered, still, ruling, shifts

Cli      == INSTANCE CliSessions
Settings == INSTANCE ProviderSettings
Chat     == INSTANCE ChatStream
Catalog  == INSTANCE ModelCatalog

cliVars == <<kind, process, output, written, owner, rd, line, ready, record, rows, lock, prompt,
             completed, cancelling, count, events, lost, overlapped>>
settingsVars == <<disk, memory, candidate, temporary, routing, keys, programs, hosted, step,
                  answer, mishaps>>
chatVars == <<dialect, messages, at, body, response, fed, buffer, acc, result>>
catalogVars == <<listing, intact, wanted, paging, fetched, offered, still, ruling, shifts>>

-------------------------------------------------------------------------------
\* A connection that is still to be initialized; one that is, for all its turns and with a
\* store that may fail; and one whose thread is resumed for its last turn, with a store that
\* works and a frame more to come.
AppKinds ==
  /\ AppStart
  /\ \/ turn = 0 /\ wrote = 1 /\ failures = Faults /\ caller = "ask" /\ asking = "initialize"
     \/ turn = 0 /\ wrote = 1 /\ failures = 0 /\ caller = "idle" /\ asking = "none"
     \/ turn = Turns - 1 /\ wrote = 0 /\ failures = Faults /\ caller = "idle" /\ asking = "none"

OnlyFirst(then, else) == [s \in Sessions |-> IF s = First THEN then ELSE else]

\* One process of the task and no other.
Alone ==
  /\ owner = OnlyFirst("none", "over") /\ rd = OnlyFirst("none", "stopped")
  /\ process = OnlyFirst("none", "none") /\ written = OnlyFirst(0, 0)
  /\ ready = {} /\ record = OnlyFirst("none", "none")
  /\ rows = [s \in Sessions |-> [n \in Cli!Names |-> 0]]
  /\ count = OnlyFirst(0, 0) /\ events = <<>>
  /\ \A s \in Sessions \ {First} : kind[s] = "claude"

\* One process that is running: beside others to come, each with a line to write, or alone
\* with all of its output to come.
Running ==
  /\ process = OnlyFirst("running", "none")
  /\ ready = {First} /\ record = OnlyFirst("own", "none")
  /\ rows = [s \in Sessions |-> [n \in Cli!Names |-> IF s = First /\ n = "own" THEN 1 ELSE 0]]
  /\ count = OnlyFirst(1, 0)
  /\ events = <<[seq |-> 1, event |-> [s |-> First, what |-> "started"]]>>
  /\ \/ owner = OnlyFirst("running", "none") /\ rd = OnlyFirst("reading", "none")
        /\ written = OnlyFirst(Lines - 1, Lines - 1)
     \/ owner = OnlyFirst("running", "over") /\ rd = OnlyFirst("reading", "stopped")
        /\ written = OnlyFirst(0, 0) /\ \A s \in Sessions \ {First} : kind[s] = "claude"

Init ==
  /\ focus \in {"app", "cli", "api", "chat", "settings", "catalog"}
  /\ IF focus = "app" THEN AppKinds ELSE AppInit
  /\ Cli!CliStart
  /\ IF focus = "cli" THEN Alone \/ Running ELSE Alone /\ kind[First] = "claude"
  /\ ApiInit
  /\ Chat!StreamStart
  /\ focus # "chat" => dialect = "openai"
  /\ Settings!SettingsStart
  /\ focus # "settings" => disk = Settings!NoDocument
  /\ Catalog!CatalogStart

Next ==
  /\ UNCHANGED focus
  /\ \/ focus = "app" /\ AppNext
        /\ UNCHANGED <<cliVars, apiVars, chatVars, settingsVars, catalogVars>>
     \/ focus = "cli" /\ Cli!CliNext
        /\ UNCHANGED <<appVars, apiVars, chatVars, settingsVars, catalogVars>>
     \/ focus = "api" /\ ApiNext
        /\ UNCHANGED <<appVars, cliVars, chatVars, settingsVars, catalogVars>>
     \/ focus = "chat" /\ Chat!StreamNext
        /\ UNCHANGED <<appVars, cliVars, apiVars, settingsVars, catalogVars>>
     \/ focus = "settings" /\ Settings!SettingsNext
        /\ UNCHANGED <<appVars, cliVars, apiVars, chatVars, catalogVars>>
     \/ focus = "catalog" /\ Catalog!CatalogNext
        /\ UNCHANGED <<appVars, cliVars, apiVars, chatVars, settingsVars>>

Spec ==
  Init /\ [][Next]_<<focus, appVars, cliVars, apiVars, chatVars, settingsVars, catalogVars>>

-------------------------------------------------------------------------------
\* The types of the one that moves, the bounds of its queues, maps and counters included.
TypeOK ==
  /\ focus = "app" => AppTypeOK
  /\ focus = "cli" => Cli!CliTypeOK
  /\ focus = "api" => ApiTypeOK
  /\ focus = "chat" => Chat!StreamTypeOK
  /\ focus = "settings" => Settings!SettingsTypeOK
  /\ focus = "catalog" => Catalog!CatalogTypeOK

\* An outcome is what was read of the process, and no event is lost but to another process
\* of the task.
ProcessIsAccountedFor == focus = "cli" => Cli!OutcomeHasEvidence /\ Cli!LossNeedsOverlap

\* The answer is what came, what was told is the answer, and what is asked next holds it.
ChatIsFaithful ==
  focus = "chat" => Chat!AnswerIsWhatCame /\ Chat!ToldIsAnswer /\ Chat!RequestIsPaired

\* What a task starts with is what was saved and what its providers offer: see
\* ProviderSettings, whose name this is, and ModelCatalog.
SettingsAgree ==
  /\ focus = "settings" => Settings!SettingsAgree
  /\ focus = "catalog" => Catalog!CatalogIsFresh

===============================================================================
