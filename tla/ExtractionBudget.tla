---------------------------- MODULE ExtractionBudget ----------------------------
(***************************************************************************)
(* What the extraction of a textual change may cost, of                    *)
(* src-tauri/src/b2_a.rs: evidence is accepted for the path that was asked *)
(* for, and a request's budget accounts for the commands it runs and for   *)
(* what it retains, for which it hands out tokens.                         *)
(*                                                                         *)
(* In this version only tests call it; the application calls the parser,   *)
(* which is TextualDiff's.                                                 *)
(***************************************************************************)
EXTENDS Naturals, FiniteSets, FiniteSetsExt

CONSTANTS
  Paths,    \* paths of a repository; the n-th path in their order has n bytes
  Budgets,  \* requests, each with its budget
  MaxUsize, \* the largest number there is
  MaxText,  \* bound: lines of a surface
  MaxCalls  \* bound: calls

VARIABLES
  accepted, \* outcomes that were accepted: the path they are bound to and the evidence
  usage,    \* of a budget: what was charged,
  bound,    \*   the path it is bound to,
  active,   \*   what is retained, by allocation,
  next,     \*   the allocations made
  tokens,   \* what the callers hold: the budget and the allocation
  granted,  \* history: what the calls on a budget that went well asked for
  calls     \* calls so far

budgetVars == <<accepted, usage, bound, active, next, tokens, granted, calls>>

-------------------------------------------------------------------------------
(* Evidence.                                                               *)

Attributes == {"filter", "diff"} \* of six; the other four are as "diff" is
States(a) == {"unspecified", "set"} \union IF a = "filter" THEN {"deferred"} ELSE {}

\* A surface has text, or reasons why it has none, or has not changed.
Absent == [is |-> "absent", why |-> {}, lines |-> 0]
Other(why) == [is |-> "other", why |-> why, lines |-> 0]
Text(n) == [is |-> "text", why |-> {}, lines |-> n]

Reason(a, state) == <<a, IF state = "deferred" THEN "deferred" ELSE "configured">>
AttributeReasons == {Reason(a, s) : a \in Attributes, s \in {"set", "deferred"}}
Required(attributes) ==
  {Reason(a, attributes[a]) : a \in {b \in Attributes : attributes[b] # "unspecified"}}

\* What git would transform on its way is not shown as text, and is said to be so.
Policy(e) ==
  \A surface \in {e.staged, e.unstaged} :
    /\ surface.is = "text" => Required(e.attributes) = {}
    /\ surface.is = "other" => surface.why \intersect AttributeReasons = Required(e.attributes)

Surfaces == {Absent} \union {Text(n) : n \in 1..MaxText}
            \union {Other(why) : why \in {{<<"content", "binary">>}, {<<"diff", "configured">>},
                                          {<<"content", "binary">>, <<"filter", "deferred">>}}}
Evidence == [path: Paths, attributes: {f \in [Attributes -> {"unspecified", "set", "deferred"}] :
                                         \A a \in Attributes : f[a] \in States(a)},
             staged: Surfaces, unstaged: Surfaces]

TextSurfaces(e) == {s \in {"staged", "unstaged"} : e[s].is = "text"}

\* What an accepted outcome is measured at: a unit for the evidence, the path's bytes, a
\* unit for each hunk and line, and a byte of text in each line.
Outcome(e) ==
  LET lines == e.staged.lines + e.unstaged.lines
      hunks == Cardinality(TextSurfaces(e))
  IN [is    |-> IF hunks > 0 THEN "text"
                ELSE IF e.staged = Absent /\ e.unstaged = Absent THEN "unchanged" ELSE "other",
      path  |-> e.path, lines |-> lines, hunks |-> hunks,
      retained |-> 1 + e.path + hunks + 2 * lines]

-------------------------------------------------------------------------------
(* Accounting, with the limits scaled down.                                *)
Limits == [children |-> 2, stdout |-> 3, stderr |-> 1, parsed |-> 3, text |-> 3,
           retained |-> 10, structures |-> 2, lines |-> 3, hunks |-> 2, paths |-> 2]
ChildLimits == [children |-> 1, stdout |-> 2, stderr |-> 1]
TextPerExtraction == 2

Nothing == [x \in DOMAIN Limits |-> 0]
Add(u, amounts) == [x \in DOMAIN u |-> u[x] + (IF x \in DOMAIN amounts THEN amounts[x] ELSE 0)]

\* Neither the width of the numbers nor a limit is exceeded.
Fits(u, amounts) ==
  \A x \in DOMAIN amounts : u[x] + amounts[x] <= MaxUsize /\ u[x] + amounts[x] <= Limits[x]

BudgetStart ==
  /\ accepted = {} /\ tokens = {} /\ calls = 0
  /\ usage = [b \in Budgets |-> Nothing] /\ granted = [b \in Budgets |-> Nothing]
  /\ bound = [b \in Budgets |-> 0] /\ next = [b \in Budgets |-> 0]
  /\ active = [b \in Budgets |-> {}]

Called == calls < MaxCalls /\ calls' = calls + 1

\* The evidence is of the path to which the selection that was asked for was resolved.
AcceptEvidence ==
  /\ Cardinality(accepted) < 2
  /\ \E asked, resolved \in Paths, e \in Evidence :
       /\ asked = resolved /\ e.path = resolved /\ Policy(e)
       /\ accepted' = accepted \union {Outcome(e)}
  /\ UNCHANGED <<usage, bound, active, next, tokens, granted, calls>>

\* A call that goes well is granted what it asked for.
Grant(b, ok, amounts) == granted' = IF ok THEN [granted EXCEPT ![b] = Add(@, amounts)] ELSE granted

\* Mutant: a child is counted before its output is looked at.
CountFirst(b, amounts, ok) ==
  usage' = [usage EXCEPT ![b] = IF ok THEN Add(@, amounts)
                                ELSE IF Fits(@, [children |-> 1]) THEN Add(@, [children |-> 1]) ELSE @]

Charge(b, amounts, ok) == usage' = [usage EXCEPT ![b] = IF ok THEN Add(@, amounts) ELSE @]

ChargeChild(b) ==
  /\ Called
  /\ \E out \in {1, 3, MaxUsize}, err \in {0, 1} :
       LET amounts == [children |-> 1, stdout |-> out, stderr |-> err]
           ok == Fits(usage[b], amounts) /\ \A x \in DOMAIN amounts : amounts[x] <= ChildLimits[x]
       IN Charge(b, amounts, ok) /\ Grant(b, ok, amounts)
  /\ UNCHANGED <<accepted, bound, active, next, tokens>>

\* A budget is bound to the first path, and to no other.
Bindable(b, path) == bound[b] \in {0, path} /\ (bound[b] = 0 => Fits(usage[b], [paths |-> path]))
Bind(b, path)     == bound' = [bound EXCEPT ![b] = path]
PathBytes(b, path) == IF bound[b] = 0 THEN path ELSE 0

BindOutcome(b) ==
  /\ Called
  /\ \E o \in accepted :
       LET amounts == [paths |-> PathBytes(b, o.path)]
           ok == Bindable(b, o.path)
       IN /\ IF ok THEN Bind(b, o.path) ELSE UNCHANGED bound
          /\ Charge(b, amounts, ok) /\ Grant(b, ok, amounts)
  /\ UNCHANGED <<accepted, active, next, tokens>>

\* The caller names an outcome's binding and the text to retain, of that or another outcome.
Reserve(b) ==
  /\ Called
  /\ \E o, binding \in accepted, parsed \in {1, MaxUsize} :
       LET amounts == [paths |-> PathBytes(b, o.path), parsed |-> parsed, text |-> o.lines,
                       retained |-> o.retained, structures |-> 1, lines |-> o.lines,
                       hunks |-> o.hunks]
           ok == /\ o.path = binding.path /\ Bindable(b, o.path)
                 /\ o.lines <= TextPerExtraction /\ Fits(usage[b], amounts)
       IN /\ o.is = "text"
          /\ IF ok THEN /\ Bind(b, o.path) /\ next' = [next EXCEPT ![b] = @ + 1]
                        /\ active' = [active EXCEPT ![b] = @ \union {<<next'[b], o.retained>>}]
                        /\ tokens' = tokens \union {<<b, next'[b]>>}
             ELSE UNCHANGED <<bound, next, active, tokens>>
          /\ Charge(b, amounts, ok) /\ Grant(b, ok, amounts)
  /\ UNCHANGED accepted

\* A token is consumed, whether or not it is one of the budget's.
Release(b) ==
  /\ Called
  /\ \E t \in tokens :
       /\ tokens' = tokens \ {t}
       /\ \/ t[1] # b /\ UNCHANGED <<usage, active>>
          \/ \E a \in active[b] :
               /\ t = <<b, a[1]>> /\ active' = [active EXCEPT ![b] = @ \ {a}]
               /\ usage' = [usage EXCEPT ![b].retained = @ - a[2], ![b].structures = @ - 1]
  /\ UNCHANGED <<accepted, bound, next, granted>>

\* Nothing is released with a token that is dropped.
DropToken ==
  /\ \E t \in tokens : tokens' = tokens \ {t}
  /\ UNCHANGED <<accepted, usage, bound, active, next, granted, calls>>

BudgetNext ==
  \/ AcceptEvidence \/ DropToken
  \/ \E b \in Budgets : ChargeChild(b) \/ BindOutcome(b) \/ Reserve(b) \/ Release(b)

-------------------------------------------------------------------------------
BudgetTypeOK ==
  /\ Cardinality(accepted) <= 2 /\ tokens \subseteq Budgets \X (1..MaxCalls) /\ calls \in 0..MaxCalls
  /\ \A b \in Budgets :
       /\ \A x \in DOMAIN Limits : usage[b][x] \in 0..Limits[x]
       /\ bound[b] \in Paths \union {0} /\ next[b] \in 0..MaxCalls

Bytes(b) == FoldSet(LAMBDA a, n : a[2] + n, 0, active[b])

\* However calls that go well and calls that are refused at one limit or another follow one
\* another, on two budgets whose tokens get mixed up: a budget has charged what it granted,
\* no more and no less, for one path; and what it counts as retained is the sum of what it
\* still retains, which is all that a token was given for and not yet released.
LedgerIsExact ==
  \A b \in Budgets :
    /\ \A x \in DOMAIN Limits \ {"retained", "structures"} : usage[b][x] = granted[b][x]
    /\ usage[b].paths = bound[b]
    /\ usage[b].retained = Bytes(b) /\ usage[b].structures = Cardinality(active[b])
    /\ {t[2] : t \in {u \in tokens : u[1] = b}} \subseteq {a[1] : a \in active[b]}

===============================================================================
