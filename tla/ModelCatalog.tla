------------------------------ MODULE ModelCatalog ------------------------------
(***************************************************************************)
(* Which models may be used: before a task starts, ProviderRegistry        *)
(* (crates/sentinel-provider-api) asks each CLI the task is to use what it *)
(* offers now, whatever a picker has shown before.  Codex lists its models *)
(* page by page, OMP at once, Claude only says whether it is logged in;    *)
(* what an account offers may change at any time.                          *)
(***************************************************************************)
EXTENDS Naturals, SequencesExt

CONSTANTS
  MaxModels,  \* models an account may offer, in the order they are listed
  MaxPages,   \* pages asked for in one listing (32 in the code), of one model each
  MaxShifts   \* bound: changes of what is offered, and programs replaced

VARIABLES
  listing,  \* what the account of each CLI offers: by model, with what
  intact,   \* CLIs whose executable is the one that was found
  wanted,   \* the selections of the preflight, in order, and which is judged; 0: none
  paging,   \* the listing of Codex that is being read
  fetched,  \* the catalogs of this preflight, by CLI
  offered,  \* history: what each CLI offered since its discovery began
  still,    \* history: CLIs whose offer has not changed since then
  ruling,   \* what the preflight came to: "none", "refused" or "allowed"
  shifts    \* changes so far

catalogVars == <<listing, intact, wanted, paging, fetched, offered, still, ruling, shifts>>

Listed == {"codex", "claude", "omp"}
Levels == {"absent", "plain", "effort"}  \* an effort of the reviewer's is supported, or not
NoCatalog == [m \in 1..MaxModels |-> "unread"]
NoPaging  == [cursor |-> 0, seen |-> {}, found |-> <<>>]

\* What may be asked of a selection; a picker asks for no model: 0.
Selections ==
  [provider : {"codex", "omp"}, model : 0..2, effort : BOOLEAN]
    \union [provider : {"claude", "api"}, model : {1}, effort : {FALSE}]

CatalogStart ==
  /\ listing = [p \in Listed |->
                  [m \in 1..MaxModels |-> IF (m = 1) <=> (p = "claude") THEN "plain" ELSE "absent"]]
  /\ intact = Listed /\ wanted = [of |-> <<>>, at |-> 0] /\ paging = NoPaging
  /\ fetched = [p \in Listed |-> NoCatalog] /\ offered = [p \in Listed |-> {}]
  /\ still = {} /\ ruling = "none" /\ shifts = 0

Offer(p) == {<<m, listing[p][m]>> : m \in 1..MaxModels}

\* An account gains or loses a model or an effort, logs in or out; an update replaces a CLI.
Shift ==
  /\ ruling = "none" /\ shifts < MaxShifts /\ shifts' = shifts + 1
  /\ \/ \E p \in Listed, m \in 1..MaxModels, l \in Levels :
          /\ p = "claude" => m = 1 /\ l # "effort"
          /\ l # listing[p][m] /\ listing' = [listing EXCEPT ![p][m] = l]
          /\ offered' = IF wanted.at = 0 THEN offered
                        ELSE [offered EXCEPT ![p] = @ \union {<<m, l>>}]
          /\ still' = still \ {p} /\ UNCHANGED intact
     \/ \E p \in intact : intact' = intact \ {p} /\ UNCHANGED <<listing, offered, still>>
  /\ UNCHANGED <<wanted, paging, fetched, ruling>>

-------------------------------------------------------------------------------
(* preflight_selection, preflight_workflow_configuration and discover_models, *)
(* of selections that validate_selection accepts.                             *)

Rules(r) ==
  /\ ruling' = r /\ wanted' = [wanted EXCEPT !.at = 0] /\ paging' = NoPaging
  /\ fetched' = [p \in Listed |-> NoCatalog]

\* An implementer, a reviewer and a repairer, or an implementer alone, or a picker's CLI;
\* only a reviewer has an effort.  One preflight is enough: the next starts from nothing.
Asked ==
  {w \in [1..3 -> Selections] : \A r \in 1..3 : w[r].model # 0 /\ (w[r].effort => r = 2)}
    \union {w \in [1..1 -> Selections] : ~w[1].effort}

Preflight ==
  /\ wanted.of = <<>>
  /\ \E w \in Asked : wanted' = [of |-> w, at |-> 1]
  /\ UNCHANGED <<listing, intact, paging, fetched, offered, still, ruling, shifts>>

Current  == wanted.of[wanted.at]
Needs(p) == wanted.at > 0 /\ Current.provider = p /\ fetched[p] = NoCatalog
Fresh(p) == Needs(p) /\ paging = NoPaging

\* verified_executable: the program is still the one that was found.
Discovers(p) ==
  /\ p \in intact
  /\ offered' = [offered EXCEPT ![p] = Offer(p)] /\ still' = still \union {p}

\* A CLI that is not what it was, is logged out, fails, or does not answer in time.
DiscoveryFails ==
  /\ \E p \in Listed : Needs(p)
  /\ Rules("refused")
  /\ UNCHANGED <<listing, intact, offered, still, shifts>>

AtOnce(p) ==
  /\ Fresh(p) /\ Discovers(p)
  /\ fetched' = [fetched EXCEPT ![p] = listing[p]]
  /\ UNCHANGED <<listing, intact, wanted, paging, ruling, shifts>>

\* omp models --json
ListOmp == AtOnce("omp")

\* claude auth status --json: one model, of Claude's own configuration, if it is logged in.
ClaudeStatus == AtOnce("claude") /\ listing["claude"][1] # "absent"

\* list_models opens a connection and asks for the first page.
OpenListing ==
  /\ Fresh("codex") /\ Discovers("codex")
  /\ paging' = [NoPaging EXCEPT !.cursor = 1]
  /\ UNCHANGED <<listing, intact, wanted, fetched, ruling, shifts>>

\* The models that are listed, and the place each has in the list.
Present  == {m \in 1..MaxModels : listing["codex"][m] # "absent"}
Place(m) == Cardinality({k \in Present : k <= m})

\* model/list: the page at the cursor; there is another one if the account offers more.
Page ==
  /\ paging.cursor > 0 /\ Cardinality(paging.seen) < MaxPages
  /\ LET c == paging.cursor
         page == {m \in Present : Place(m) = c}
     IN \E read \in IF page = {} THEN {<<>>} ELSE {<<<<m, listing["codex"][m]>>>> : m \in page} :
          paging' = [cursor |-> IF c < Cardinality(Present) THEN c + 1 ELSE 0,
                     seen |-> paging.seen \union {c}, found |-> paging.found \o read]
  /\ UNCHANGED <<listing, intact, wanted, fetched, offered, still, ruling, shifts>>

\* The server sends a cursor again: MalformedMessage.
Repeats ==
  /\ paging.cursor > 1 /\ Rules("refused")
  /\ UNCHANGED <<listing, intact, offered, still, shifts>>

\* Mutant: what was read when the pages ran out is taken for the whole.
ReadEnough == paging.cursor = 0 \/ Cardinality(paging.seen) = MaxPages

\* Only the last page ends a listing.
ReadAll == paging.cursor = 0

ModelOf(entry) == entry[1]
Unique == \A a, b \in DOMAIN paging.found :
            ModelOf(paging.found[a]) = ModelOf(paging.found[b]) => a = b

\* ProviderModelCatalog::validate: no model twice.
CloseListing ==
  /\ paging.seen # {}
  /\ IF ReadAll /\ Unique
     THEN /\ fetched' = [fetched EXCEPT !["codex"] =
               [m \in 1..MaxModels |->
                  IF \E e \in ToSet(paging.found) : ModelOf(e) = m
                  THEN (CHOOSE e \in ToSet(paging.found) : ModelOf(e) = m)[2] ELSE "absent"]]
          /\ paging' = NoPaging /\ UNCHANGED <<wanted, ruling>>
     ELSE /\ paging.cursor = 0 \/ Cardinality(paging.seen) = MaxPages
          /\ Rules("refused")
  /\ UNCHANGED <<listing, intact, offered, still, shifts>>

\* Mutant: the model is looked for, and not what it supports.
OfferedModel(s, catalog) == s.model = 0 \/ catalog[s.model] # "absent"

\* validate_discovered_selection
OfferedNow(s, catalog) ==
  s.model = 0 \/ (catalog[s.model] # "absent" /\ (s.effort => catalog[s.model] = "effort"))

\* One selection after the other; an API provider's is not asked for.
Judge ==
  /\ wanted.at > 0 /\ \A p \in Listed : ~Needs(p)
  /\ IF Current.provider \in Listed /\ ~OfferedNow(Current, fetched[Current.provider])
     THEN Rules("refused")
     ELSE IF wanted.at = Len(wanted.of) THEN Rules("allowed")
          ELSE wanted' = [wanted EXCEPT !.at = @ + 1] /\ UNCHANGED <<paging, fetched, ruling>>
  /\ UNCHANGED <<listing, intact, offered, still, shifts>>

CatalogNext ==
  \/ Shift \/ Preflight \/ DiscoveryFails \/ ListOmp \/ ClaudeStatus
  \/ OpenListing \/ Page \/ Repeats \/ CloseListing \/ Judge

-------------------------------------------------------------------------------
CatalogTypeOK ==
  /\ listing \in [Listed -> [1..MaxModels -> Levels]] /\ intact \subseteq Listed
  /\ wanted.of \in Asked \union {<<>>} /\ wanted.at \in 0..3
  /\ Cardinality(paging.seen) <= MaxPages /\ paging.cursor \in 0..MaxModels
  /\ fetched \in [Listed -> [1..MaxModels -> Levels \union {"unread"}]]
  /\ ruling \in {"none", "refused", "allowed"}

\* A task starts only with models, and with an effort of its reviewer, that were on offer
\* after its preflight began, however the offers change while they are read and whatever was
\* shown before; and a catalog is all there was, unless the offer changed while it was read.
CatalogIsFresh ==
  /\ ruling = "allowed" => \A r \in DOMAIN wanted.of :
       LET s == wanted.of[r] IN
       s.provider \in Listed /\ s.model # 0 =>
         \E l \in Levels \ {"absent"} : /\ <<s.model, l>> \in offered[s.provider]
                                        /\ s.effort => l = "effort"
  /\ \A p \in still : fetched[p] \in {NoCatalog, listing[p]}

===============================================================================
