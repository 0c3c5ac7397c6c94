------------------------- MODULE RequestLedger_proof ---------------------------
(***************************************************************************)
(* RequestLedger proved for any ids, intents and bounds, whatever the      *)
(* clients send: a request is called at most once, and a row that says it  *)
(* was accepted stays, whatever else a failing store has the client told.  *)
(***************************************************************************)
EXTENDS RequestLedger, TLAPS

\* What the loop takes out of the channel as a mutation is a request.
LEMMA TakenIsRequest ==
  ASSUME channel \in Seq(Input), Take("mutation")
  PROVE  Head(channel) \in Request
<1>1. channel # <<>> /\ Head(channel).kind = "mutation"
  BY DEF Take
<1>2. Head(channel) \in Input
  BY <1>1
<1> QED
  BY <1>1, <1>2 DEF Input, Line, Request

\* Reserving, and completing, keep the row a row.
LEMMA RowsKept ==
  ASSUME rows \in [Ids -> Row], NEW i \in Ids
  PROVE  /\ \A x \in Intents :
              [rows EXCEPT ![i] = [intent |-> x, st |-> "pending"]]
                \in [Ids -> Row]
         /\ \A o \in Outcomes : [rows EXCEPT ![i].st = o] \in [Ids -> Row]
  BY DEF Row, Outcomes

\* The answer to a request is a line of output.
LEMMA AnswerTyped ==
  ASSUME NEW r \in Request, NEW out \in Outcomes \union Refusals, Reply(r, out),
         stdout \in Seq(Output), answers \subseteq Answer
  PROVE  stdout' \in Seq(Output) /\ answers' \subseteq Answer
<1> DEFINE a == [kind |-> "answer", id |-> r.id, intent |-> r.intent,
                 out |-> out]
<1>1. a \in Answer
  BY DEF Answer, Request
<1>2. a \in Output
  BY <1>1 DEF Output
<1> QED
  BY <1>1, <1>2 DEF Reply

\* The lines that are not requests belong where they are written.
LEMMA LinesTyped ==
  /\ \A k \in {"subscribe", "state", "shutdown"} : Plain(k) \in Line
  /\ Plain("changed") \in Input /\ Plain("error") \in Output
  /\ \A v \in Nat : View(v) \in Output
  /\ \A i \in Ids, x \in Intents :
       [kind |-> "mutation", id |-> i, intent |-> x] \in Line
  /\ Line \subseteq Input
  BY DEF Line, Input, Output, Request, Plain, View

\* Reconciling keeps the store's version a version.
LEMMA ReconciledTyped ==
  ASSUME version \in Nat, dirty \in BOOLEAN, Reconciled
  PROVE  version' \in Nat /\ dirty' \in BOOLEAN
<1>1. CASE UNCHANGED <<version, dirty>>
  BY <1>1
<1>2. CASE Change
  <2>1. version' \in Nat
    BY <1>2 DEF Change
  <2>2. dirty' \in BOOLEAN
    BY <1>2 DEF Change
  <2> QED
    BY <2>1, <2>2
<1> QED
  BY <1>1, <1>2 DEF Reconciled

-------------------------------------------------------------------------------
\* Types are kept by the client,
LEMMA ClientTyped ==
  ASSUME TypeOK, Client
  PROVE  TypeOK'
<1> USE LinesTyped, GateAssumption
<1>1. CASE Connect
  <2>1. RefreshSnapshots \in Seq(Line)
    BY DEF RefreshSnapshots
  <2>2. dirty' \in BOOLEAN /\ subscribed' \in BOOLEAN /\ notice' \in BOOLEAN
    BY <1>1 DEF Connect
  <2>3. stdin' \in Seq(Line) /\ channel' \in Seq(Input)
        /\ stdout' \in Seq(Output)
    BY <1>1, <2>1 DEF Connect
  <2> QED
    BY <1>1, <2>2, <2>3 DEF Connect, TypeOK, storeVars, history
<1>2. CASE Receive
  <2>1. Head(stdout) \in Output /\ Tail(stdout) \in Seq(Output)
    BY <1>2 DEF Receive, TypeOK
  <2>2. Head(stdout).kind = "view" => Head(stdout).version \in Nat
    BY <2>1 DEF Output, Answer
  <2> QED
    BY <1>2, <2>1, <2>2 DEF Receive, TypeOK, storeVars, procVars, loopVars,
       history
<1>3. CASE Notice
  <2>1. dirty' \in BOOLEAN
    BY <1>3 DEF Notice
  <2>2. stdin' \in Seq(Line) /\ channel' \in Seq(Input)
        /\ stdout' \in Seq(Output)
    BY <1>3 DEF Notice
  <2> QED
    BY <1>3, <2>1, <2>2 DEF Notice, TypeOK, storeVars, loopVars, history
<1>4. CASE Quit
  BY <1>4 DEF Quit, TypeOK, storeVars, procVars, loopVars, history
<1>5. ASSUME NEW i \in Ids, NEW x \in Intents, Submit(i, x)
      PROVE  TypeOK'
  BY <1>5 DEF Submit, TypeOK, storeVars, procVars, loopVars, history
<1>6. ASSUME NEW i \in Ids, NEW x \in Intents, Resend(i, x)
      PROVE  TypeOK'
  BY <1>6 DEF Resend, TypeOK, storeVars, procVars, loopVars, history
<1>7. ASSUME NEW x \in Intents, SubmitBusy(x)
      PROVE  TypeOK'
  BY <1>7 DEF SubmitBusy, TypeOK, storeVars, pipeVars, procVars, loopVars,
     history
<1> QED
  BY <1>1, <1>2, <1>3, <1>4, <1>5, <1>6, <1>7 DEF Client

\* by what feeds the loop,
LEMMA FeedTyped ==
  ASSUME TypeOK, Feed
  PROVE  TypeOK'
<1> USE LinesTyped DEF TypeOK, storeVars, procVars, loopVars, clientVars,
        history
<1>1. CASE ReadLine
  <2>1. Head(stdin) \in Line /\ Tail(stdin) \in Seq(Line)
    BY <1>1 DEF ReadLine
  <2> QED
    BY <1>1, <2>1 DEF ReadLine
<1>2. CASE ForwardChange
  <2>1. channel' \in Seq(Input)
    BY <1>2 DEF ForwardChange
  <2>2. dirty' \in BOOLEAN
    BY <1>2 DEF ForwardChange
  <2> QED
    BY <1>2, <2>1, <2>2 DEF ForwardChange
<1>3. CASE ProviderWrites
  BY <1>3 DEF ProviderWrites, Change
<1> QED
  BY <1>1, <1>2, <1>3 DEF Feed

\* by what the loop does besides requests,
LEMMA LoopTyped ==
  ASSUME TypeOK,
         \/ Subscribe \/ AttentionState \/ WorkflowChanged \/ ChangeIgnored
         \/ Shutdown \/ Crash
  PROVE  TypeOK'
<1> USE LinesTyped DEF TypeOK, storeVars, procVars, loopVars, clientVars,
        history, pipeVars, Take
<1>1. CASE Subscribe
  <2>1. dirty' \in BOOLEAN /\ version' \in Nat
    BY <1>1, ReconciledTyped DEF Subscribe
  <2> QED
    BY <1>1, <2>1 DEF Subscribe
<1>2. CASE AttentionState
  BY <1>2 DEF AttentionState
<1>3. CASE WorkflowChanged
  <2>1. dirty' \in BOOLEAN /\ version' \in Nat
    BY <1>3, ReconciledTyped DEF WorkflowChanged
  <2>2. stdout' \in Seq(Output)
    BY <1>3, <2>1 DEF WorkflowChanged
  <2> QED
    BY <1>3, <2>1, <2>2 DEF WorkflowChanged
<1>4. CASE ChangeIgnored
  BY <1>4 DEF ChangeIgnored
<1>5. CASE Shutdown
  <2>1. dirty' \in BOOLEAN /\ version' \in Nat
    BY <1>5, ReconciledTyped DEF Shutdown
  <2> QED
    BY <1>5, <2>1 DEF Shutdown
<1>6. CASE Crash
  BY <1>6 DEF Crash
<1> QED
  BY <1>1, <1>2, <1>3, <1>4, <1>5, <1>6

\* when it takes a request,
LEMMA TakeTyped ==
  ASSUME TypeOK, TakeRequest
  PROVE  TypeOK'
<1> DEFINE r == Head(channel)
<1>1. r \in Request /\ channel' \in Seq(Input)
  BY TakenIsRequest DEF TakeRequest, TypeOK, Take
<1>2. r.id \in Ids /\ r.intent \in Intents
  BY <1>1 DEF Request
<1>3. CASE Reserve(r)
  <2>1. rows' \in [Ids -> Row]
    BY <1>2, <1>3, RowsKept DEF Reserve, TypeOK
  <2>2. current' \subseteq [req: Request, out: Outcomes]
    BY <1>1, <1>3 DEF Reserve, Outcomes
  <2> QED
    BY <1>1, <1>3, <2>1, <2>2 DEF Reserve, TakeRequest, TypeOK, procVars,
       clientVars
<1>4. CASE ReplayAnswer(r)
  BY <1>1, <1>4, AnswerTyped DEF ReplayAnswer, TakeRequest, TypeOK, procVars,
     clientVars
<1>5. CASE RefuseRequest(r)
  <2>1. PICK out \in Refusals : Reply(r, out)
    BY <1>5 DEF RefuseRequest, Refused, Refusals
  <2>2. stdout' \in Seq(Output) /\ answers' \subseteq Answer
    BY <1>1, <2>1, AnswerTyped DEF TypeOK
  <2> QED
    BY <1>1, <1>5, <2>2 DEF RefuseRequest, TakeRequest, TypeOK, procVars,
       clientVars
<1>6. CASE RejectLoosely(r)
  <2>1. current' \subseteq [req: Request, out: Outcomes]
    BY <1>1, <1>6 DEF RejectLoosely, Outcomes
  <2> QED
    BY <1>1, <1>6, <2>1 DEF RejectLoosely, TakeRequest, TypeOK, procVars,
       clientVars
<1> QED
  BY <1>3, <1>4, <1>5, <1>6 DEF TakeRequest

\* and when it calls and completes.
LEMMA CompleteTyped ==
  ASSUME TypeOK, Call \/ Complete \/ CompleteFails
  PROVE  TypeOK'
<1> USE DEF procVars, clientVars
<1>1. CASE Call
  <2>1. PICK c \in current, out \in Outcomes :
          /\ calls' = [calls EXCEPT ![c.req.id][c.req.intent] = @ + 1]
          /\ current' = {[c EXCEPT !.out = out]}
    BY <1>1 DEF Call
  <2>2. c \in [req: Request, out: Outcomes]
    BY DEF TypeOK
  <2>3. current' \subseteq [req: Request, out: Outcomes]
    BY <2>1, <2>2
  <2>4. c.req.id \in Ids /\ c.req.intent \in Intents
    BY <2>2 DEF Request
  <2>5. calls' \in [Ids -> [Intents -> Nat]]
    BY <2>1, <2>4 DEF TypeOK
  <2>6. dirty' \in BOOLEAN /\ version' \in Nat
    BY <1>1, ReconciledTyped DEF Call, TypeOK
  <2> QED
    BY <1>1, <2>3, <2>5, <2>6 DEF Call, TypeOK
<1>2. CASE Complete
  <2>1. PICK c \in current : /\ rows' = [rows EXCEPT ![c.req.id].st = c.out]
                             /\ Reply(c.req, c.out)
    BY <1>2 DEF Complete
  <2>2. c.req \in Request /\ c.req.id \in Ids /\ c.out \in Outcomes
    BY DEF TypeOK, Request
  <2>3. rows' \in [Ids -> Row]
    BY <2>1, <2>2, RowsKept DEF TypeOK
  <2>4. stdout' \in Seq(Output) /\ answers' \subseteq Answer
    BY <2>1, <2>2, AnswerTyped DEF TypeOK
  <2> QED
    BY <1>2, <2>3, <2>4 DEF Complete, TypeOK
<1>3. CASE CompleteFails
  BY <1>3, LinesTyped DEF CompleteFails, TypeOK, storeVars, history
<1> QED
  BY <1>1, <1>2, <1>3

\* Every variable keeps its type, in every behaviour.
THEOREM RequestTypes == Spec => []TypeOK
<1>1. Init => TypeOK
  <2> SUFFICES ASSUME Init PROVE TypeOK
    OBVIOUS
  <2>1. rows \in [Ids -> Row]
    BY DEF Init, Row, NoRow
  <2>2. /\ stdin \in Seq(Line) /\ channel \in Seq(Input)
        /\ stdout \in Seq(Output)
    BY DEF Init
  <2>3. /\ dirty \in BOOLEAN /\ subscribed \in BOOLEAN /\ notice \in BOOLEAN
        /\ stopped \in BOOLEAN
    BY DEF Init
  <2> QED
    BY <2>1, <2>2, <2>3 DEF Init, TypeOK
<1>2. TypeOK /\ [Next]_vars => TypeOK'
  <2> SUFFICES ASSUME TypeOK, [Next]_vars PROVE TypeOK'
    OBVIOUS
  <2>1. CASE UNCHANGED vars
    BY <2>1 DEF TypeOK, vars, storeVars, pipeVars, procVars, loopVars,
       clientVars, history
  <2> QED
    BY <2>1, ClientTyped, FeedTyped, LoopTyped, TakeTyped, CompleteTyped
       DEF Next, Loop
<1> QED
  BY <1>1, <1>2, PTL DEF Spec

-------------------------------------------------------------------------------
\* The row of an id is an intent's, in this state.
Says(i, x, st) == rows[i].intent = x /\ rows[i].st = st

\* Nothing was called for an id that has no row.
FreeIsUncalled ==
  \A i \in Ids : rows[i].st = "free" => \A x \in Intents : calls[i][x] = 0

\* A call was made once, and for the intent its row was made for.
CallsAreReserved ==
  \A i \in Ids, x \in Intents :
    calls[i][x] # 0 => calls[i][x] = 1 /\ rows[i].intent = x

\* A row that says accepted was called.
AcceptedIsCalled ==
  \A i \in Ids : rows[i].st = "accepted" =>
    rows[i].intent \in Intents /\ calls[i][rows[i].intent] = 1

\* An id under which nothing was answered, or conflicts of a store that failed.
Unanswered(i) ==
  \A a \in answers : a.id = i => a.out = "conflict" /\ StoreFails

\* The mutation the loop works on: before its call its row is as new; after
\* an accepted one the row waits for the answer, and nobody has had another.
Working ==
  /\ pc = "idle" => current = {}
  /\ \A c \in current :
       /\ pc = "call" =>
            /\ Says(c.req.id, c.req.intent, "pending")
            /\ \A x \in Intents : calls[c.req.id][x] = 0
            /\ Unanswered(c.req.id)
       /\ pc = "complete" /\ c.out = "accepted" =>
            /\ Says(c.req.id, c.req.intent, "pending")
            /\ calls[c.req.id][c.req.intent] = 1
            /\ Unanswered(c.req.id)

\* What was answered agrees with the row: an accepted answer is its row's, a
\* rejected or an unproven one never is that of a row that says accepted, and a
\* conflict is with another intent's row, unless the store failed.
AnswersAgree ==
  \A a \in answers :
    /\ a.out = "accepted" => Says(a.id, a.intent, "accepted")
    /\ a.out \in {"rejected", "unproven"} =>
         rows[a.id].st # "free" /\ ~Says(a.id, a.intent, "accepted")
    /\ a.out = "conflict" =>
         \/ StoreFails
         \/ rows[a.id].st # "free" /\ rows[a.id].intent # a.intent

LedgerInv == /\ FreeIsUncalled /\ CallsAreReserved /\ AcceptedIsCalled
             /\ Working /\ AnswersAgree

\* The steps that leave the ledger alone: the client's, what feeds the loop,
\* and the end of the process.
LEMMA LedgerAlone ==
  ASSUME LedgerInv, UNCHANGED <<rows, calls, answers>>,
         \/ UNCHANGED <<pc, current>>
         \/ pc' = "idle" /\ current' = {}
  PROVE  LedgerInv'
  BY DEF LedgerInv, FreeIsUncalled, CallsAreReserved, AcceptedIsCalled, Working,
     AnswersAgree, Says, Unanswered

\* A row is made for a request nobody has called or answered.
LEMMA LedgerReserve ==
  ASSUME TypeOK, LedgerInv, NEW r \in Request, Reserve(r), UNCHANGED calls
  PROVE  LedgerInv'
<1> USE DEF Says
<1>1. /\ r.id \in Ids /\ rows[r.id].st = "free"
      /\ \A x \in Intents : calls[r.id][x] = 0
      /\ Unanswered(r.id)
  <2>1. r.id \in Ids /\ rows[r.id].st = "free"
    BY DEF Reserve, Request
  <2>2. \A x \in Intents : calls[r.id][x] = 0
    BY <2>1 DEF LedgerInv, FreeIsUncalled
  <2>3. ASSUME NEW a \in answers, a.id = r.id
        PROVE  a.out = "conflict" /\ StoreFails
    <3>1. a.out \in {"accepted", "rejected", "unproven", "conflict"}
      BY DEF TypeOK, Answer, Outcomes, Refusals
    <3> QED
      BY <2>1, <2>3, <3>1 DEF LedgerInv, AnswersAgree
  <2> QED
    BY <2>1, <2>2, <2>3 DEF Unanswered
<1>2. /\ Says(r.id, r.intent, "pending")'
      /\ \A i \in Ids : i # r.id => rows'[i] = rows[i]
      /\ UNCHANGED <<calls, answers>>
      /\ pc' = "call" /\ current' = {[req |-> r, out |-> "rejected"]}
  BY <1>1 DEF Reserve, TypeOK
<1>3. FreeIsUncalled' /\ CallsAreReserved' /\ AcceptedIsCalled'
  BY <1>1, <1>2 DEF LedgerInv, FreeIsUncalled, CallsAreReserved,
     AcceptedIsCalled
<1>4. Working'
  BY <1>1, <1>2 DEF Working, Unanswered
<1>5. AnswersAgree'
  <2>1. ASSUME NEW a \in answers, a.id = r.id
        PROVE  a.out = "conflict" /\ StoreFails
    BY <1>1, <2>1 DEF Unanswered
  <2>2. \A a \in answers : a.id \in Ids
    BY DEF TypeOK, Answer
  <2> QED
    BY <1>1, <1>2, <2>1, <2>2 DEF LedgerInv, AnswersAgree
<1> QED
  BY <1>3, <1>4, <1>5 DEF LedgerInv

\* A stored answer is given again, or a request is refused: either way the
\* answer agrees with the row.
LEMMA LedgerReply ==
  ASSUME TypeOK, LedgerInv, NEW r \in Request,
         ReplayAnswer(r) \/ RefuseRequest(r), UNCHANGED calls, pc = "idle"
  PROVE  LedgerInv'
<1> USE DEF Says
<1>1. PICK out \in Outcomes \union Refusals :
        /\ Reply(r, out)
        /\ out = "accepted" => Says(r.id, r.intent, "accepted")
        /\ out \in {"rejected", "unproven"} =>
             rows[r.id].st # "free" /\ ~Says(r.id, r.intent, "accepted")
        /\ out = "conflict" =>
             \/ StoreFails
             \/ rows[r.id].st # "free" /\ rows[r.id].intent # r.intent
  <2>1. CASE ReplayAnswer(r)
    BY <2>1 DEF ReplayAnswer, SameIntent, Outcomes, Refusals
  <2>2. CASE RefuseRequest(r)
    <3>1. PICK out \in Refused(r) : Reply(r, out)
      BY <2>2 DEF RefuseRequest
    <3> QED
      BY <3>1 DEF Refused, SameIntent, Outcomes, Refusals
  <2> QED
    BY <2>1, <2>2
<1>2. UNCHANGED <<rows, calls, pc, current>>
  BY DEF ReplayAnswer, RefuseRequest
<1>3. FreeIsUncalled' /\ CallsAreReserved' /\ AcceptedIsCalled'
  BY <1>2 DEF LedgerInv, FreeIsUncalled, CallsAreReserved, AcceptedIsCalled
<1>4. Working'
  BY <1>2 DEF LedgerInv, Working
<1>5. AnswersAgree'
  BY <1>1, <1>2 DEF LedgerInv, AnswersAgree, Reply
<1> QED
  BY <1>3, <1>4, <1>5 DEF LedgerInv

\* A handler that goes on with a row it did not make carries a rejection.
LEMMA LedgerLoose ==
  ASSUME TypeOK, LedgerInv, NEW r \in Request, RejectLoosely(r),
         UNCHANGED calls
  PROVE  LedgerInv'
<1>1. /\ UNCHANGED <<rows, calls, answers>>
      /\ pc' = "complete" /\ current' = {[req |-> r, out |-> "rejected"]}
  BY DEF RejectLoosely
<1>2. Working'
  BY <1>1 DEF Working
<1> QED
  BY <1>1, <1>2 DEF LedgerInv, FreeIsUncalled, CallsAreReserved,
     AcceptedIsCalled, AnswersAgree, Says

\* The call is the first one made for its row.
LEMMA LedgerCall ==
  ASSUME TypeOK, LedgerInv, Call
  PROVE  LedgerInv'
<1> USE DEF Says
<1>1. PICK c \in current, out \in Outcomes :
        /\ calls' = [calls EXCEPT ![c.req.id][c.req.intent] = @ + 1]
        /\ current' = {[c EXCEPT !.out = out]}
  BY DEF Call
<1> DEFINE id == c.req.id
           x  == c.req.intent
<1>2. id \in Ids /\ x \in Intents /\ c \in [req: Request, out: Outcomes]
  BY DEF TypeOK, Request
<1>3. /\ Says(id, x, "pending")
      /\ \A y \in Intents : calls[id][y] = 0
      /\ Unanswered(id)
  BY DEF Call, LedgerInv, Working
<1>4. /\ calls'[id][x] = 1
      /\ \A y \in Intents : y # x => calls'[id][y] = 0
      /\ \A i \in Ids : i # id => calls'[i] = calls[i]
  BY <1>1, <1>2, <1>3 DEF TypeOK
<1>5. UNCHANGED <<rows, answers>> /\ pc' = "complete"
  BY DEF Call
<1>6. FreeIsUncalled' /\ CallsAreReserved'
  BY <1>2, <1>3, <1>4, <1>5 DEF LedgerInv, FreeIsUncalled, CallsAreReserved
<1>7. AcceptedIsCalled'
  BY <1>3, <1>4, <1>5 DEF LedgerInv, AcceptedIsCalled
<1>8. Working'
  BY <1>1, <1>2, <1>3, <1>4, <1>5 DEF Working, Unanswered
<1>9. AnswersAgree'
  BY <1>5 DEF LedgerInv, AnswersAgree
<1> QED
  BY <1>6, <1>7, <1>8, <1>9 DEF LedgerInv

\* The row gets the answer that is then given.
LEMMA LedgerComplete ==
  ASSUME TypeOK, LedgerInv, Complete
  PROVE  LedgerInv'
<1> USE DEF Says
<1>1. PICK c \in current :
        /\ rows[c.req.id].st = "pending"
        /\ rows' = [rows EXCEPT ![c.req.id].st = c.out]
        /\ Reply(c.req, c.out)
  BY DEF Complete
<1> DEFINE id == c.req.id
           x  == c.req.intent
<1>2. /\ id \in Ids /\ x \in Intents /\ c.out \in Outcomes
      /\ \A a \in answers : a.id \in Ids
      /\ \A i \in Ids : rows[i] \in Row
  BY DEF TypeOK, Request, Answer
<1>3. /\ rows'[id].intent = rows[id].intent /\ rows'[id].st = c.out
      /\ \A i \in Ids : i # id => rows'[i] = rows[i]
      /\ UNCHANGED calls /\ pc' = "idle" /\ current' = {}
  <2>1. rows \in [Ids -> Row] /\ rows[id] \in Row
    BY <1>2 DEF TypeOK
  <2>2. [rows[id] EXCEPT !.st = c.out].intent = rows[id].intent
        /\ [rows[id] EXCEPT !.st = c.out].st = c.out
    BY <2>1 DEF Row
  <2>3. UNCHANGED calls /\ pc' = "idle" /\ current' = {}
    BY DEF Complete
  <2> QED
    BY <1>1, <1>2, <2>1, <2>2, <2>3
<1>4. c.out = "accepted" => /\ Says(id, x, "pending")
                            /\ calls[id][x] = 1
                            /\ Unanswered(id)
  BY DEF Complete, LedgerInv, Working
<1>5. FreeIsUncalled' /\ CallsAreReserved'
  BY <1>1, <1>2, <1>3 DEF LedgerInv, FreeIsUncalled, CallsAreReserved, Outcomes
<1>6. AcceptedIsCalled'
  BY <1>2, <1>3, <1>4 DEF LedgerInv, AcceptedIsCalled
<1>7. Working'
  BY <1>3 DEF Working
<1>8. AnswersAgree'
  <2> DEFINE Agrees(i, y, out) ==
        /\ out = "accepted" => Says(i, y, "accepted")
        /\ out \in {"rejected", "unproven"} =>
             rows[i].st # "free" /\ ~Says(i, y, "accepted")
        /\ out = "conflict" =>
             StoreFails \/ (rows[i].st # "free" /\ rows[i].intent # y)
  <2>1. ASSUME NEW a \in answers
        PROVE  Agrees(a.id, a.intent, a.out)'
    <3>1. CASE a.id # id
      BY <1>2, <1>3, <3>1 DEF LedgerInv, AnswersAgree
    <3>2. CASE a.id = id
      <4>1. a.out # "accepted"
        BY <1>1, <3>2 DEF LedgerInv, AnswersAgree
      <4>2. a.out \in {"rejected", "unproven"} => c.out # "accepted"
        BY <1>4, <3>2 DEF Unanswered
      <4>3. a.out = "conflict" => StoreFails \/ rows[id].intent # a.intent
        BY <3>2 DEF LedgerInv, AnswersAgree
      <4> QED
        BY <1>2, <1>3, <3>2, <4>1, <4>2, <4>3 DEF Outcomes
    <3> QED
      BY <3>1, <3>2
  <2>2. Agrees(id, x, c.out)'
    BY <1>2, <1>3, <1>4 DEF Outcomes
  <2> QED
    BY <1>1, <2>1, <2>2 DEF AnswersAgree, Reply
<1> QED
  BY <1>5, <1>6, <1>7, <1>8 DEF LedgerInv

\* Every step keeps the ledger's invariant.
LEMMA LedgerStep ==
  ASSUME TypeOK, LedgerInv, [Next]_vars
  PROVE  LedgerInv'
<1>1. CASE Client \/ Feed \/ Crash \/ UNCHANGED vars
  <2>1. /\ UNCHANGED <<rows, calls, answers>>
        /\ \/ UNCHANGED <<pc, current>>
           \/ pc' = "idle" /\ current' = {}
    BY <1>1 DEF Client, Feed, Connect, Receive, Notice, Quit, Submit,
       SubmitBusy, Resend, ReadLine, ForwardChange, ProviderWrites, Crash,
       vars, storeVars, loopVars, history
  <2> QED
    BY <2>1, LedgerAlone
<1>2. CASE \/ Subscribe \/ AttentionState \/ WorkflowChanged \/ ChangeIgnored
           \/ Shutdown \/ CompleteFails
  <2>1. /\ UNCHANGED <<rows, calls, answers>>
        /\ \/ UNCHANGED <<pc, current>>
           \/ pc' = "idle" /\ current' = {}
    BY <1>2 DEF Subscribe, AttentionState, WorkflowChanged, ChangeIgnored,
       Shutdown, CompleteFails, storeVars, loopVars, history
  <2> QED
    BY <2>1, LedgerAlone
<1>3. CASE TakeRequest
  <2> DEFINE r == Head(channel)
  <2>1. r \in Request /\ UNCHANGED calls /\ pc = "idle"
    BY <1>3, TakenIsRequest DEF TakeRequest, TypeOK, Take
  <2>2. Reserve(r) \/ ReplayAnswer(r) \/ RefuseRequest(r) \/ RejectLoosely(r)
    BY <1>3 DEF TakeRequest
  <2> HIDE DEF r
  <2> QED
    BY <2>1, <2>2, LedgerReserve, LedgerReply, LedgerLoose
<1>4. CASE Call
  BY <1>4, LedgerCall
<1>5. CASE Complete
  BY <1>5, LedgerComplete
<1> QED
  BY <1>1, <1>2, <1>3, <1>4, <1>5 DEF Next, Loop

\* The types and the ledger's invariant hold in every reachable state.
THEOREM LedgerInvariance == Spec => [](TypeOK /\ LedgerInv)
<1>1. Init => LedgerInv
  BY DEF Init, NoRow, LedgerInv, FreeIsUncalled, CallsAreReserved,
     AcceptedIsCalled, Working, AnswersAgree
<1>2. TypeOK /\ LedgerInv /\ [Next]_vars => LedgerInv'
  BY LedgerStep
<1> QED
  BY <1>1, <1>2, RequestTypes, PTL DEF Spec

\* A request's call is made at most once, and for one intent, whatever the
\* client resends and wherever the process dies.
THEOREM CallOnce == Spec => []CalledAtMostOnce
<1>1. TypeOK /\ LedgerInv => CalledAtMostOnce
  <2> SUFFICES ASSUME TypeOK, LedgerInv, NEW i \in Ids, NEW x \in Intents,
                      NEW y \in Intents
               PROVE  /\ calls[i][x] <= 1
                      /\ x # y => calls[i][x] = 0 \/ calls[i][y] = 0
    BY DEF CalledAtMostOnce
  <2>1. calls[i][x] = 0 \/ (calls[i][x] = 1 /\ rows[i].intent = x)
    BY DEF LedgerInv, CallsAreReserved
  <2>2. calls[i][y] = 0 \/ (calls[i][y] = 1 /\ rows[i].intent = y)
    BY DEF LedgerInv, CallsAreReserved
  <2> QED
    BY <2>1, <2>2
<1> QED
  BY <1>1, LedgerInvariance, PTL

\* An accepting answer is backed by its call and by its row, for ever, and no
\* answer contradicts it but the conflict that a failing store is told as.
THEOREM AcceptedForGood == Spec => []AcceptanceIsFinal
<1>1. TypeOK /\ LedgerInv => AcceptanceIsFinal
  <2> SUFFICES ASSUME TypeOK, LedgerInv, NEW a \in answers, a.out = "accepted"
               PROVE  /\ calls[a.id][a.intent] = 1
                      /\ rows[a.id] = [intent |-> a.intent, st |-> "accepted"]
                      /\ \A b \in answers :
                           b.id = a.id /\ b.intent = a.intent =>
                             \/ b.out = "accepted"
                             \/ StoreFails /\ b.out = "conflict"
    BY DEF AcceptanceIsFinal
  <2>1. a.id \in Ids /\ Says(a.id, a.intent, "accepted")
    BY DEF TypeOK, Answer, LedgerInv, AnswersAgree
  <2>2. calls[a.id][a.intent] = 1
    BY <2>1 DEF LedgerInv, AcceptedIsCalled, Says
  <2>3. rows[a.id] = [intent |-> a.intent, st |-> "accepted"]
    <3>1. rows[a.id] \in Row
      BY <2>1 DEF TypeOK
    <3> QED
      BY <2>1, <3>1 DEF Says, Row
  <2>4. ASSUME NEW b \in answers, b.id = a.id, b.intent = a.intent
        PROVE  b.out = "accepted" \/ (StoreFails /\ b.out = "conflict")
    <3>1. b.out \in {"accepted", "rejected", "unproven", "conflict"}
      BY DEF TypeOK, Answer, Outcomes, Refusals
    <3>2. b.out \notin {"rejected", "unproven"}
      BY <2>1, <2>4 DEF LedgerInv, AnswersAgree
    <3>3. b.out = "conflict" => StoreFails
      BY <2>1, <2>4 DEF LedgerInv, AnswersAgree, Says
    <3> QED
      BY <3>1, <3>2, <3>3
  <2> QED
    BY <2>2, <2>3, <2>4
<1> QED
  BY <1>1, LedgerInvariance, PTL

===============================================================================
