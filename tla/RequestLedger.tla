---------------------------- MODULE RequestLedger ------------------------------
(***************************************************************************)
(* The macOS application and its bridge process: apps/macos/bridge/src/    *)
(* main.rs, NativeBridge.swift, and the v3_supervisor_requests table.      *)
(*                                                                         *)
(* The client writes requests to the bridge's stdin.  A reader thread puts *)
(* them in a channel, with the notices that the store changed, and one     *)
(* loop takes them out.  A mutation is recorded under its request id, run, *)
(* completed with its answer, and answered, in this order; the process may *)
(* die anywhere.  Snapshots are pushed to a client that subscribed.        *)
(***************************************************************************)
EXTENDS Naturals, Sequences, BridgeRequests

VARIABLES
  rows,       \* v3_supervisor_requests by request id
  version,    \* of what a snapshot shows of the store
  stdin,      \* lines the client wrote that the reader has not read
  channel,    \* what the loop has not taken
  dirty,      \* has the store changed since the forwarder last said so?
  stdout,     \* lines the bridge wrote that the client has not read
  proc,       \* the bridge process: "none", "running", "dead"
  lives,      \* bridge processes started
  subscribed, \* of the loop: did the client subscribe,
  last,       \*   the version of the last snapshot pushed, 0: none,
  pc,         \*   where it is in a mutation,
  current,    \*   which one, and the answer it will store
  gates,      \* the request each gate of the client waits for
  sending,    \* gates whose request the client shows as on its way
  shown,      \* the version the client shows
  notice,     \* does the client show an error (availabilityMessage)?
  stopped,    \* has the client closed the bridge's input?
  used,       \* request ids that have been sent
  sends,      \* requests that have been sent
  calls,      \* history: calls made for an id and an intent
  answers     \* history: answers written, per request

storeVars  == <<rows, version>>
pipeVars   == <<stdin, channel, dirty, stdout>>
procVars   == <<proc, lives>>
loopVars   == <<subscribed, last, pc, current>>
clientVars == <<gates, sending, shown, notice, stopped, used, sends>>
history    == <<calls, answers>>
vars == <<storeVars, pipeVars, procVars, loopVars, clientVars, history>>

NoRow    == [intent |-> "none", st |-> "free"]
Row      == [intent: Intents \union {"none"},
             st: {"free", "pending"} \union Outcomes]
Request  == [kind: {"mutation"}, id: Ids, intent: Intents]
Line     == Request \union [kind: {"subscribe", "state", "shutdown"}]
Input    == Line \union [kind: {"changed"}]
Answer   == [kind: {"answer"}, id: Ids, intent: Intents,
             out: Outcomes \union Refusals]
Output   == Answer \union [kind: {"view"}, version: Nat]
                   \union [kind: {"error"}]

Plain(k) == [kind |-> k]
View(v)  == [kind |-> "view", version |-> v]

-------------------------------------------------------------------------------
\* The client: NativeBridge.swift.

Init ==
  /\ rows = [i \in Ids |-> NoRow] /\ version = 1
  /\ stdin = <<>> /\ channel = <<>> /\ dirty = FALSE /\ stdout = <<>>
  /\ proc = "none" /\ lives = 0
  /\ subscribed = FALSE /\ last = 0 /\ pc = "idle" /\ current = {}
  /\ gates = [g \in Gates |-> NoId] /\ sending = {} /\ shown = 0 /\ notice = FALSE
  /\ stopped = FALSE /\ used = {} /\ sends = 0
  /\ calls = [i \in Ids |-> [x \in Intents |-> 0]] /\ answers = {}

\* Mutant: the first snapshot is asked for before the subscription.
RefreshFirst == <<Plain("state"), Plain("subscribe")>>

\* refreshSnapshots: subscribe, then ask for what is there.
RefreshSnapshots == <<Plain("subscribe"), Plain("state")>>

\* start, on launch and one second after the last process ended.
Connect ==
  /\ proc = "none" /\ ~stopped /\ lives < MaxProcesses
  /\ proc' = "running" /\ lives' = lives + 1
  /\ stdin' = RefreshSnapshots
  /\ channel' = <<>> /\ dirty' = FALSE /\ stdout' = <<>>
  /\ subscribed' = FALSE /\ last' = 0 /\ pc' = "idle" /\ current' = {}
  /\ notice' = FALSE
  /\ UNCHANGED <<storeVars, gates, sending, shown, stopped, used, sends, history>>

\* A mutation under a fresh id, if its gate waits for nothing.
Submit(i, x) ==
  /\ proc = "running" /\ ~stopped /\ sends < MaxSends
  /\ i \notin used
  /\ GateOf[x] \in Gates => gates[GateOf[x]] = NoId
  /\ stdin' = Append(stdin, [kind |-> "mutation", id |-> i, intent |-> x])
  /\ used' = used \union {i} /\ sends' = sends + 1
  /\ gates' = [g \in Gates |-> IF g = GateOf[x] THEN i ELSE gates[g]]
  /\ sending' = sending \union ({GateOf[x]} \intersect Gates)
  /\ UNCHANGED <<storeVars, channel, dirty, stdout, procVars, loopVars, shown,
                 notice, stopped, history>>

\* A second mutation of a gate that waits: it is not sent, and the client shows
\* its refusal in the place of what is on its way.
SubmitBusy(x) ==
  /\ GateOf[x] \in sending
  /\ sending' = sending \ {GateOf[x]}
  /\ UNCHANGED <<storeVars, pipeVars, procVars, loopVars, gates, shown, notice,
                 stopped, used, sends, history>>

\* A client that does not know what became of a request sends its id again,
\* perhaps with something else under it.
Resend(i, x) ==
  /\ proc = "running" /\ ~stopped /\ sends < MaxSends
  /\ i \in used
  /\ stdin' = Append(stdin, [kind |-> "mutation", id |-> i, intent |-> x])
  /\ sends' = sends + 1
  /\ UNCHANGED <<storeVars, channel, dirty, stdout, procVars, loopVars, gates,
                 sending, shown, notice, stopped, used, history>>

\* A gate is opened by the answer it waits for, and by no other; an older
\* snapshot than the one shown is dropped (AttentionUpdateGate, reset when the
\* process ends, which changes nothing: a restart finds the store as it was).
Receive ==
  /\ stdout # <<>>
  /\ stdout' = Tail(stdout)
  /\ LET m == Head(stdout)
     IN /\ gates' = IF m.kind = "answer"
                    THEN [g \in Gates |-> IF gates[g] = m.id THEN NoId
                                                             ELSE gates[g]]
                    ELSE gates
        /\ sending' = {g \in sending : gates'[g] # NoId}
        /\ shown' = IF m.kind = "view" /\ m.version >= shown THEN m.version
                                                              ELSE shown
        /\ notice' = (notice \/ m.kind = "error")
  /\ UNCHANGED <<storeVars, stdin, channel, dirty, procVars, loopVars, stopped,
                 used, sends, history>>

\* Mutant: the gates keep waiting for the process that ended.
NoticeKeepsGates ==
  /\ proc = "dead"
  /\ proc' = "none"
  /\ stdin' = <<>> /\ channel' = <<>> /\ stdout' = <<>> /\ dirty' = FALSE
  /\ UNCHANGED <<storeVars, lives, loopVars, gates, sending, shown, notice,
                 stopped, used, sends, history>>

\* sidecarTerminated: a gate is made anew, but one that is kept is opened only if its
\* request is still shown as on its way.
Notice ==
  /\ proc = "dead"
  /\ proc' = "none"
  /\ stdin' = <<>> /\ channel' = <<>> /\ stdout' = <<>> /\ dirty' = FALSE
  /\ gates' = [g \in Gates |-> IF g \in Kept \ sending THEN gates[g] ELSE NoId]
  /\ sending' = {}
  /\ UNCHANGED <<storeVars, lives, loopVars, shown, notice, stopped, used,
                 sends, history>>

\* prepareForHostShutdown closes the input.
Quit ==
  /\ ~stopped
  /\ stopped' = TRUE
  /\ stdin' = IF proc = "running" THEN Append(stdin, Plain("shutdown"))
                                  ELSE stdin
  /\ UNCHANGED <<storeVars, channel, dirty, stdout, procVars, loopVars, gates,
                 sending, shown, notice, used, sends, history>>

-------------------------------------------------------------------------------
\* What feeds the loop.

ReadLine ==
  /\ proc = "running" /\ stdin # <<>>
  /\ stdin' = Tail(stdin)
  /\ channel' = Append(channel, Head(stdin))
  /\ UNCHANGED <<storeVars, dirty, stdout, procVars, loopVars, clientVars,
                 history>>

\* The forwarder of the store's change notices; one that lagged says so once.
ForwardChange ==
  /\ proc = "running" /\ dirty
  /\ dirty' = FALSE
  /\ channel' = Append(channel, Plain("changed"))
  /\ UNCHANGED <<storeVars, stdin, stdout, procVars, loopVars, clientVars,
                 history>>

\* An adapter or an API run of this process writes the store.
Change == version' = version + 1 /\ dirty' = TRUE

ProviderWrites ==
  /\ proc = "running" /\ version < MaxVersion
  /\ Change
  /\ UNCHANGED <<rows, stdin, channel, stdout, procVars, loopVars, clientVars,
                 history>>

-------------------------------------------------------------------------------
\* The loop.

Take(k) ==
  /\ proc = "running" /\ pc = "idle" /\ channel # <<>>
  /\ Head(channel).kind = k
  /\ channel' = Tail(channel)

\* reconcile_progress and the other calls of the supervisor may write.
Reconciled ==
  \/ UNCHANGED <<version, dirty>>
  \/ version < MaxVersion /\ Change

Subscribe ==
  /\ Take("subscribe")
  /\ subscribed' = TRUE /\ last' = 0
  /\ Reconciled
  /\ UNCHANGED <<rows, stdin, stdout, procVars, pc, current, clientVars,
                 history>>

AttentionState ==
  /\ Take("state")
  /\ stdout' = Append(stdout, View(version))
  /\ UNCHANGED <<storeVars, stdin, dirty, procVars, loopVars, clientVars,
                 history>>

\* A snapshot is pushed if it differs from the last one that was.
WorkflowChanged ==
  /\ Take("changed") /\ subscribed
  /\ Reconciled
  /\ last' = version'
  /\ stdout' = IF last = version' THEN stdout
                                  ELSE Append(stdout, View(version'))
  /\ UNCHANGED <<rows, stdin, procVars, subscribed, pc, current, clientVars,
                 history>>

ChangeIgnored ==
  /\ Take("changed") /\ ~subscribed
  /\ UNCHANGED <<storeVars, stdin, dirty, stdout, procVars, loopVars,
                 clientVars, history>>

Shutdown ==
  /\ Take("shutdown")
  /\ Reconciled
  /\ proc' = "dead"
  /\ UNCHANGED <<rows, stdin, stdout, lives, loopVars, clientVars, history>>

Reply(r, out) ==
  /\ stdout' = Append(stdout, [kind |-> "answer", id |-> r.id,
                               intent |-> r.intent, out |-> out])
  /\ answers' = answers \union {[kind |-> "answer", id |-> r.id,
                                 intent |-> r.intent, out |-> out]}

\* reserve_supervisor_request: the row is this request's.
SameIntent(r) == rows[r.id].st # "free" /\ rows[r.id].intent = r.intent

\* Mutant: a pending row is taken for a new one.
ReserveUnlessCompleted(r) ==
  /\ rows[r.id].st \notin Outcomes
  /\ rows' = [rows EXCEPT ![r.id] = [intent |-> r.intent, st |-> "pending"]]
  /\ pc' = "call" /\ current' = {[req |-> r, out |-> "rejected"]}
  /\ UNCHANGED <<stdout, answers>>

\* INSERT OR IGNORE made the row: the call may run.
Reserve(r) ==
  /\ rows[r.id].st = "free"
  /\ rows' = [rows EXCEPT ![r.id] = [intent |-> r.intent, st |-> "pending"]]
  /\ pc' = "call" /\ current' = {[req |-> r, out |-> "rejected"]}
  /\ UNCHANGED <<stdout, answers>>

ReplayAnswer(r) ==
  /\ SameIntent(r) /\ rows[r.id].st \in Outcomes
  /\ Reply(r, rows[r.id].st)
  /\ UNCHANGED <<rows, pc, current>>

\* Why a request is told no without a call: the outcome of its first attempt is
\* unproven; its id is another intent's, or the store fails, which is told alike.
Refused(r) ==
  {out \in {"unproven"} : SameIntent(r) /\ rows[r.id].st = "pending"}
  \union {out \in {"conflict"} :
             StoreFails \/ (rows[r.id].st # "free" /\ rows[r.id].intent # r.intent)}

\* Most handlers answer and leave the row alone,
RefuseRequest(r) ==
  /\ r.intent \notin Loose
  /\ \E out \in Refused(r) : Reply(r, out)
  /\ UNCHANGED <<rows, pc, current>>

\* and the others go on to complete it.
RejectLoosely(r) ==
  /\ r.intent \in Loose /\ Refused(r) # {}
  /\ pc' = "complete" /\ current' = {[req |-> r, out |-> "rejected"]}
  /\ UNCHANGED <<rows, stdout, answers>>

TakeRequest ==
  /\ Take("mutation")
  /\ LET r == Head(channel)
     IN Reserve(r) \/ ReplayAnswer(r) \/ RefuseRequest(r) \/ RejectLoosely(r)
  /\ UNCHANGED <<version, stdin, dirty, procVars, subscribed, last, clientVars,
                 calls>>

\* The supervisor's call returns; accepted or not, it may have written.
Call ==
  /\ proc = "running" /\ pc = "call"
  /\ \E c \in current, out \in Outcomes :
       /\ calls' = [calls EXCEPT ![c.req.id][c.req.intent] = @ + 1]
       /\ current' = {[c EXCEPT !.out = out]}
  /\ pc' = "complete"
  /\ Reconciled
  /\ UNCHANGED <<rows, stdin, channel, stdout, procVars, subscribed, last,
                 clientVars, answers>>

\* Mutant: the answer is sent before it is stored.
AnswerBeforeStore ==
  /\ proc = "running" /\ pc = "complete"
  /\ \E c \in current : Reply(c.req, c.out)
  /\ pc' = "idle" /\ current' = {}
  /\ UNCHANGED <<storeVars, stdin, channel, dirty, procVars, subscribed, last,
                 clientVars, calls>>

\* complete_mutation, then the answer.
Complete ==
  /\ proc = "running" /\ pc = "complete"
  /\ \E c \in current :
       /\ rows[c.req.id].st = "pending"
       /\ rows' = [rows EXCEPT ![c.req.id].st = c.out]
       /\ Reply(c.req, c.out)
  /\ pc' = "idle" /\ current' = {}
  /\ UNCHANGED <<version, stdin, channel, dirty, procVars, subscribed, last,
                 clientVars, calls>>

\* The row is no longer pending, or the store fails: an error without an id.
CompleteFails ==
  /\ proc = "running" /\ pc = "complete"
  /\ StoreFails \/ \E c \in current : rows[c.req.id].st # "pending"
  /\ stdout' = Append(stdout, Plain("error"))
  /\ pc' = "idle" /\ current' = {}
  /\ UNCHANGED <<storeVars, stdin, channel, dirty, procVars, subscribed, last,
                 clientVars, history>>

\* The process dies, or is terminated two seconds after its input was closed.
\* What it wrote may still be read.
Crash ==
  /\ proc = "running"
  /\ proc' = "dead"
  /\ pc' = "idle" /\ current' = {}
  /\ UNCHANGED <<storeVars, pipeVars, lives, subscribed, last, clientVars,
                 history>>

-------------------------------------------------------------------------------
Client == \/ Connect \/ Receive \/ Notice \/ Quit
          \/ \E i \in Ids, x \in Intents : Submit(i, x) \/ Resend(i, x)
          \/ \E x \in Intents : SubmitBusy(x)
Feed   == ReadLine \/ ForwardChange \/ ProviderWrites
Loop   == \/ Subscribe \/ AttentionState \/ WorkflowChanged \/ ChangeIgnored
          \/ Shutdown \/ TakeRequest \/ Call \/ Complete \/ CompleteFails

Next == Client \/ Feed \/ Loop \/ Crash

Spec == Init /\ [][Next]_vars

\* The threads of a process that runs go on, and so does the client's main
\* queue: it reads what was written, notices the end and starts again.
FairSpec ==
  /\ Spec
  /\ WF_vars(Loop) /\ WF_vars(ReadLine) /\ WF_vars(ForwardChange)
  /\ WF_vars(Receive) /\ WF_vars(Notice) /\ WF_vars(Connect)

-------------------------------------------------------------------------------
TypeOK ==
  /\ rows \in [Ids -> Row] /\ version \in Nat
  /\ stdin \in Seq(Line) /\ channel \in Seq(Input) /\ dirty \in BOOLEAN
  /\ stdout \in Seq(Output)
  /\ proc \in {"none", "running", "dead"} /\ lives \in Nat
  /\ subscribed \in BOOLEAN /\ last \in Nat
  /\ pc \in {"idle", "call", "complete"}
  /\ current \subseteq [req: Request, out: Outcomes]
  /\ gates \in [Gates -> Ids \union {NoId}] /\ sending \subseteq Gates
  /\ shown \in Nat
  /\ notice \in BOOLEAN /\ stopped \in BOOLEAN /\ used \subseteq Ids
  /\ sends \in Nat
  /\ calls \in [Ids -> [Intents -> Nat]] /\ answers \subseteq Answer

\* A request's call is made at most once, over resends, crashes and restarts,
\* and never for two different intents under one id.
CalledAtMostOnce ==
  \A i \in Ids : \A x, y \in Intents :
    /\ calls[i][x] <= 1
    /\ x # y => calls[i][x] = 0 \/ calls[i][y] = 0

\* Nobody is told that a request was accepted unless it was called, with that
\* very intent, and the ledger says so for ever; every answer to it, before or
\* after, says the same, except that a store that fails has a resent request
\* told that it conflicts, which reads as a refusal and is none.
AcceptanceIsFinal ==
  \A a \in answers : a.out = "accepted" =>
    /\ calls[a.id][a.intent] = 1
    /\ rows[a.id] = [intent |-> a.intent, st |-> "accepted"]
    /\ \A b \in answers : b.id = a.id /\ b.intent = a.intent =>
         b.out = "accepted" \/ (StoreFails /\ b.out = "conflict")

\* A gate that waits for an answer is opened, by it or by the end of the
\* process, or the client has been shown an error, or that a second request of
\* the gate was refused: what becomes of that one is GatesOpenAtTheEnd.
GateSettles ==
  \A g \in Gates : []<>(gates[g] = NoId \/ notice \/ g \in Kept \ sending)

\* What the client says when its process ends, that a request on its way was
\* rejected: no gate waits for a process that is gone.  It does not hold of a
\* gate that is kept once a second request was refused.
GatesOpenAtTheEnd == proc = "none" => \A g \in Gates : gates[g] = NoId

\* A connected client ends up showing the store as it is, although changes
\* race its subscription and its first snapshot.
ViewConverges == []<>(shown = version \/ proc # "running" \/ stopped)

===============================================================================
