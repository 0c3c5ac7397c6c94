----------------------------- MODULE ProviderSettings ---------------------------
(***************************************************************************)
(* The settings of the providers: a document on disk, the copy of it in    *)
(* ProviderSettingsStore (crates/sentinel-provider-api/src/settings.rs),   *)
(* and the registry and workflow the supervisor routes by.  The bridge     *)
(* takes one mutation at a time: it checks a candidate, saves it through a *)
(* temporary file named after the process, remembers it, and then has the  *)
(* supervisor take it over if its own, different rules accept it.  Saving  *)
(* may fail at each step, and the process may end in between.              *)
(***************************************************************************)
EXTENDS Naturals

CONSTANTS
  CustomRoles, \* the roles a custom provider has the capabilities for
  Mutations,   \* bound: versions of the document
  SaveFaults   \* bound: saves that fail, and restarts

VARIABLES
  disk,      \* the document on disk, or NoDocument
  memory,    \* ProviderSettingsStore.document
  candidate, \*   and the one that is to replace it
  temporary, \* is there a temporary file of this process?
  routing,   \* the document the supervisor's registry and workflow come from
  keys,      \* providers with a credential in the keychain
  programs,  \* CLIs found when the process started
  hosted,    \* does the process have a supervisor?
  step,        \* where the mutation is
  answer,    \* to the last mutation: "none", "accepted", "refused"
  mishaps    \* saves that failed, and restarts

settingsVars == <<disk, memory, candidate, temporary, routing, keys, programs, hosted, step,
                  answer, mishaps>>

-------------------------------------------------------------------------------
Clis  == {"codex", "claude", "omp"}
Roles == {"implementer", "reviewer", "repair"}
Ids   == Clis \cup {"gemini", "custom", "glm"}
NoSelection == [provider |-> "none", model |-> "none", effort |-> FALSE]
NoDocument  == [version |-> 0]

\* ProviderCapabilities: of the built-in providers only Claude cannot select a model.
SelectsModel(p) == p # "claude"
Capable(p, role) == p # "custom" \/ role \in CustomRoles

Pick(p, m) == [provider |-> p, model |-> m, effort |-> FALSE]

Default ==
  [version |-> 1, models |-> [p \in {"codex", "claude", "omp", "gemini"} |-> "own"],
   enabled |-> {"codex", "claude"},
   workflow |-> [implementer |-> Pick("codex", "own"), reviewer |-> Pick("claude", "own"),
                 repair |-> NoSelection]]

\* A document of a version that knew GLM as a provider of its own, and not OMP.
Legacy ==
  [version |-> 1, models |-> [p \in {"codex", "claude", "gemini", "glm"} |-> "own"],
   enabled |-> {"codex", "claude", "glm"},
   workflow |-> [implementer |-> Pick("glm", "own"), reviewer |-> Pick("codex", "own"),
                 repair |-> NoSelection]]

\* A document with a provider of the user's own.
WithCustom ==
  [Default EXCEPT !.models = [p \in DOMAIN @ \cup {"custom"} |-> "own"],
                  !.enabled = @ \cup {"custom"}]

\* migrate_glm_kimi_to_omp
Migrated(doc) ==
  IF "glm" \notin DOMAIN doc.models THEN doc
  ELSE LET glm(s) == s.provider = "glm"
           used   == \E role \in Roles : glm(doc.workflow[role])
       IN [doc EXCEPT
             !.models = [p \in (DOMAIN @ \ {"glm"}) \cup {"omp"} |->
                           IF p # "omp" THEN @[p] ELSE IF used THEN "zai" ELSE "own"],
             !.enabled = (@ \ {"glm"}) \cup (IF used THEN {"omp"} ELSE {}),
             !.workflow = [role \in Roles |->
                             IF glm(@[role]) THEN Pick("omp", "zai") ELSE @[role]]]

\* ProviderSettingsStore::load
Loaded(file) == IF file = NoDocument THEN Default ELSE Migrated(file)

RepairSelection(doc) ==
  IF doc.workflow.repair = NoSelection THEN doc.workflow.implementer ELSE doc.workflow.repair
Selected(doc, role) == IF role = "repair" THEN RepairSelection(doc) ELSE doc.workflow[role]

\* validate_selection of the settings: a reviewer may have a model of its own.
Storable(doc, role) ==
  LET s == Selected(doc, role)
      override == SelectsModel(s.provider) /\ role = "reviewer"
  IN /\ s.provider \in DOMAIN doc.models
     /\ s.provider \in doc.enabled
     /\ doc.models[s.provider] = s.model \/ override
     /\ s.effort => override /\ s.provider = "codex"
     /\ Capable(s.provider, role)

\* ProviderSettingsDocument::validate
Valid(doc) ==
  /\ doc.version > 0 /\ DOMAIN doc.models \subseteq Ids \ {"glm"}
  /\ \A role \in Roles : Storable(doc, role)

\* ProviderRegistry::validate_selection: the provider is there, a CLI may have a model of
\* its own in any role, and an API needs its credential.
Routable(doc, role) ==
  LET s == Selected(doc, role)
      override == s.provider \in Clis /\ SelectsModel(s.provider)
  IN /\ s.provider \in doc.enabled /\ (s.provider \in Clis => s.provider \in programs)
     /\ doc.models[s.provider] = s.model \/ override
     /\ s.effort => role = "reviewer" /\ s.provider \in {"codex", "omp"}
     /\ Capable(s.provider, role)
     /\ s.provider \notin Clis => s.provider \in keys

-------------------------------------------------------------------------------
\* A process starts: it loads the document and builds its registry, and does not check
\* that the one accepts the other.
Start ==
  /\ memory' = Loaded(disk) /\ routing' = memory' /\ candidate' = memory'
  /\ temporary' = FALSE /\ programs' \in SUBSET Clis /\ hosted' \in BOOLEAN
  /\ step' = "idle" /\ answer' = "none"

SettingsStart ==
  /\ disk \in {NoDocument, Legacy, WithCustom} /\ keys = {}
  /\ memory = Loaded(disk) /\ routing = memory /\ candidate = memory
  /\ temporary = FALSE /\ programs = Clis /\ hosted = TRUE
  /\ step = "idle" /\ answer = "none" /\ mishaps = 0

Refuse == step' = "idle" /\ answer' = "refused"
Kept   == UNCHANGED <<keys, programs, hosted>>

\* Mutant: the document is edited where it is.
EditInPlace(doc) == candidate' = doc /\ memory' = doc

\* update works on a copy.
EditCopy(doc) == candidate' = doc /\ UNCHANGED memory

\* update: a candidate that is not valid is refused before anything is written.
Propose(doc) ==
  LET next == [doc EXCEPT !.version = @ + 1]
  IN /\ step = "idle" /\ memory.version < Mutations
     /\ IF Valid(next) THEN EditCopy(next) /\ step' = "save" /\ UNCHANGED answer
        ELSE Refuse /\ UNCHANGED <<memory, candidate>>
     /\ UNCHANGED <<disk, temporary, routing, mishaps>> /\ Kept

SetEnabled ==
  \E p \in DOMAIN memory.models, on \in BOOLEAN :
    Propose([memory EXCEPT !.enabled = IF on THEN @ \cup {p} ELSE @ \ {p}])

\* set_model: the roles of the provider follow, an override of its reviewer included.
SetModel ==
  \E p \in DOMAIN memory.models, m \in {"own", "other"} :
    Propose([memory EXCEPT !.models[p] = m,
                           !.workflow = [role \in Roles |-> IF @[role].provider = p
                                                            THEN [@[role] EXCEPT !.model = m]
                                                            ELSE @[role]]])

\* Bound: the repair is nobody's, or the reviewer's provider's.
SetWorkflow ==
  \E i, v \in DOMAIN memory.models, m, n \in {"own", "other"}, effort \in BOOLEAN :
  \E repair \in {NoSelection, Pick(v, "own")} :
    Propose([memory EXCEPT !.workflow =
               [implementer |-> Pick(i, m), reviewer |-> [Pick(v, n) EXCEPT !.effort = effort],
                repair |-> repair]])

UpsertCustom ==
  \E on \in BOOLEAN, m \in {"own", "other"} :
    Propose([memory EXCEPT
               !.models = [p \in DOMAIN @ \cup {"custom"} |-> IF p = "custom" THEN m ELSE @[p]],
               !.enabled = IF on THEN @ \cup {"custom"} ELSE @ \ {"custom"}])

RemoveCustom ==
  /\ "custom" \in DOMAIN memory.models
  /\ Propose([memory EXCEPT !.models = [p \in DOMAIN @ \ {"custom"} |-> @[p]],
                            !.enabled = @ \ {"custom"}])

\* set_credential, remove_credential: the keychain may refuse.
ChangeKey ==
  /\ step = "idle"
  /\ \/ /\ \E p \in DOMAIN memory.models \ Clis : keys' \in {keys \cup {p}, keys \ {p}}
        /\ step' = "apply" /\ UNCHANGED answer
     \/ Refuse /\ UNCHANGED keys
  /\ UNCHANGED <<disk, memory, candidate, temporary, routing, programs, hosted, mishaps>>

-------------------------------------------------------------------------------
(* save_document.                                                          *)
\* The temporary file must be new, and one that an earlier save has left is not.
CreateTemporary ==
  /\ step = "save"
  /\ IF temporary THEN Refuse /\ UNCHANGED temporary
     ELSE temporary' = TRUE /\ step' = "write" /\ UNCHANGED answer
  /\ UNCHANGED <<disk, memory, candidate, routing, mishaps>> /\ Kept

\* The directory, the file, its permissions, its content or the rename: the error is
\* returned and the temporary file left where it is.
SaveFails ==
  /\ step \in {"save", "write"} /\ mishaps < SaveFaults /\ mishaps' = mishaps + 1
  /\ Refuse
  /\ UNCHANGED <<disk, memory, candidate, temporary, routing>> /\ Kept

\* The rename; and only then the copy in memory.
Replace ==
  /\ step = "write" /\ step' = "apply"
  /\ disk' = candidate /\ temporary' = FALSE /\ memory' = candidate
  /\ UNCHANGED <<candidate, routing, answer, mishaps>> /\ Kept

-------------------------------------------------------------------------------
\* update_provider_runtime.  What is refused here is on disk all the same.
Apply ==
  /\ step = "apply" /\ step' = "idle"
  /\ IF ~hosted THEN UNCHANGED routing /\ answer' = "accepted"
     ELSE IF \A role \in Roles : Routable(memory, role)
       THEN routing' = memory /\ answer' \in {"accepted", "refused"} \* its snapshot failed
       ELSE UNCHANGED routing /\ answer' = "refused"
  /\ UNCHANGED <<disk, memory, candidate, temporary, mishaps>> /\ Kept

\* The process ends wherever it is, and the next one has another name for its file.
Restart ==
  /\ mishaps < SaveFaults /\ mishaps' = mishaps + 1
  /\ Start /\ UNCHANGED <<disk, keys>>

SettingsNext ==
  \/ SetEnabled \/ SetModel \/ SetWorkflow \/ UpsertCustom \/ RemoveCustom \/ ChangeKey
  \/ CreateTemporary \/ SaveFails \/ Replace \/ Apply \/ Restart

-------------------------------------------------------------------------------
(* Properties.                                                             *)
SettingsTypeOK ==
  /\ \A doc \in {memory, candidate, routing} :
       /\ doc.version \in 1 .. Mutations /\ doc.enabled \subseteq DOMAIN doc.models
       /\ DOMAIN doc.models \subseteq Ids /\ DOMAIN doc.workflow = Roles
  /\ keys \subseteq Ids \ Clis /\ programs \subseteq Clis
  /\ {temporary, hosted} \subseteq BOOLEAN /\ step \in {"idle", "save", "write", "apply"}
  /\ answer \in {"none", "accepted", "refused"} /\ mishaps \in 0 .. SaveFaults

\* The next process can always load what is on disk.  Whatever fails on the way, what this
\* one remembers is what the next would load, and unless the last mutation was refused the
\* supervisor routes by it.
SettingsAgree ==
  /\ Valid(Loaded(disk))
  /\ memory = Loaded(disk)
  /\ step = "idle" /\ answer # "refused" /\ hosted => routing = memory

===============================================================================
