--------------------------- MODULE MCProviders_proof ---------------------------
(***************************************************************************)
(* Theorems about the components that MCProviders brings together, for     *)
(* every value of their constants: the outcome of a Claude or OMP process  *)
(* is what was read of it and its events are lost to another process only, *)
(* the settings a task starts with are those that were saved, and the      *)
(* models it names are on offer.                                           *)
(*                                                                         *)
(* Each component has an inductive invariant of its own; the last part     *)
(* puts them together.                                                     *)
(***************************************************************************)
EXTENDS MCProviders, FiniteSetTheorems, SequenceTheorems, TLAPS

-------------------------------------------------------------------------------
(* CliSessions.                                                            *)

Told == {"started", "line", "result", "failed", "completed", "cancelled"}
CliEvents == [seq : Nat, event : [s : Sessions, what : Told]]
Said == {"hello", "renamed", "message", "result", "garbage", "yes", "no"}
CliOwners == {"none", "init", "session", "create", "announce", "prompt", "asked", "running",
              "waiting", "killed", "over", "cancelled", "dropped"}
Rows == [Cli!Names -> Nat]
CliReaders == {"none", "reading", "session", "create", "announce", "store", "stopped"}

CliTypes ==
  /\ kind \in [Sessions -> {"claude", "resume", "omp"}]
  /\ process \in [Sessions -> {"none", "running", "good", "bad"}]
  /\ output \in [Sessions -> Seq(Said)] /\ written \in [Sessions -> Nat]
  /\ owner \in [Sessions -> CliOwners] /\ rd \in [Sessions -> CliReaders]
  /\ line \in [Sessions -> Said \union {"none"}]
  /\ lock \in [Sessions -> {"free", "caller", "reader"}]
  /\ prompt \in [Sessions -> {"none", "pending", "yes", "no", "exit"}]
  /\ record \in [Sessions -> {"none", "own", "other"}]
  /\ rows \in [Sessions -> Rows] /\ count \in [Sessions -> Nat]
  /\ ready \subseteq Sessions /\ completed \subseteq Sessions
  /\ cancelling \subseteq Sessions /\ lost \subseteq Sessions /\ overlapped \subseteq Sessions
  /\ events \in Seq(CliEvents)

\* An event of a process is stored, or the store has refused one of its events.
HasEvent(s, what) ==
  s \in lost \/ \E j \in 1 .. Len(events) : events[j].event = [s |-> s, what |-> what]

\* Who holds the lock creates the session, and one is created for an id; OMP's has one id.
SessionInv(s) ==
  /\ owner[s] \in {"create", "announce"} <=> lock[s] = "caller"
  /\ rd[s] \in {"create", "announce"} <=> lock[s] = "reader"
  /\ \A n \in Cli!Names : rows[s][n] <= 1
  /\ Cli!IsOmp(s) =>
       /\ record[s] # "other"
       /\ record[s] = "none" => \A n \in Cli!Names : rows[s][n] = 0
       /\ owner[s] = "create" \/ rd[s] = "create" => record[s] = "none"
  /\ owner[s] = "announce" \/ rd[s] = "announce" => record[s] # "none"

\* What the reader has in hand, and why it has stopped.
ReaderInv(s) ==
  /\ owner[s] = "none" => rd[s] = "none" /\ record[s] = "none"
  /\ owner[s] = "over" => rd[s] = "stopped"
  /\ rd[s] = "none" => s \notin ready /\ s \notin completed
  /\ ~Cli!IsOmp(s) =>
       /\ owner[s] \in {"session", "create", "announce"} => rd[s] = "none"
       /\ owner[s] = "session" => record[s] = "none"
       /\ owner[s] \notin {"prompt", "asked"}
       /\ owner[s] \in {"running", "waiting"} => s \in ready
       /\ s \in ready => record[s] # "none"
       /\ rd[s] = "stopped" /\ s \in ready => (Cli!Gone(s) /\ output[s] = <<>>) \/ s \in lost
  /\ Cli!IsOmp(s) /\ rd[s] = "stopped" => (Cli!Gone(s) /\ output[s] = <<>>) \/ HasEvent(s, "failed")
  /\ s \in completed =>
       \/ HasEvent(s, "result")
       \/ line[s] = "result" /\ rd[s] \in {"session", "create", "announce", "store"}
  /\ s \in cancelling => owner[s] \in {"killed", "cancelled"}

\* Two processes that may store events know of each other; one that knows of no other has
\* counted every event of the task.
CountInv ==
  /\ \A s \in Sessions : Cli!Live(s) /\ s \notin overlapped => Cli!LastNumber(events) <= count[s]
  /\ \A r, s \in Sessions : r # s /\ Cli!Live(r) /\ Cli!Live(s) => r \in overlapped /\ s \in overlapped
  /\ lost \subseteq overlapped

\* A process that is recorded as completed is over.
OverInv ==
  \A i \in 1 .. Len(events) :
    events[i].event.what = "completed" => owner[events[i].event.s] = "over"

CliInv ==
  /\ CliTypes /\ (\A s \in Sessions : SessionInv(s) /\ ReaderInv(s))
  /\ CountInv /\ OverInv /\ Cli!OutcomeHasEvidence

\* The action of a process.
CliStepOf(s) ==
  \/ Cli!ChildWrites(s) \/ Cli!ChildExits(s)
  \/ Cli!Spawn(s) \/ Cli!Initialized(s) \/ Cli!NotInitialized(s)
  \/ Cli!CallerSession(s) \/ Cli!CallerCreates(s) \/ Cli!CallerAnnounces(s)
  \/ Cli!ReaderSession(s) \/ Cli!ReaderCreates(s) \/ Cli!ReaderAnnounces(s)
  \/ Cli!ReadLine(s) \/ Cli!StoreLine(s) \/ Cli!ReaderEnds(s)
  \/ Cli!WritePrompt(s) \/ Cli!PromptAnswered(s) \/ Cli!PromptTimesOut(s)
  \/ Cli!Drop(s) \/ Cli!Kill(s) \/ Cli!StoreCancelled(s) \/ Cli!ReapChild(s)
  \/ Cli!StoreOutcome(s) \/ Cli!PollOutcome(s)

\* What one event does to the log.
LEMMA Emitted ==
  ASSUME CliTypes, NEW s \in Sessions, NEW what \in Told, Cli!Emit(s, what)
  PROVE  /\ count' \in [Sessions -> Nat] /\ events' \in Seq(CliEvents) /\ lost' \subseteq Sessions
         /\ \A r \in Sessions : r # s => count'[r] = count[r] /\ (r \in lost' <=> r \in lost)
         /\ count'[s] = count[s] + 1
         /\ \/ events' = events /\ lost' = lost \union {s} /\ ~(Cli!LastNumber(events) <= count[s])
            \/ /\ lost' = lost /\ Len(events') = Len(events) + 1
               /\ events'[Len(events) + 1].event = [s |-> s, what |-> what]
               /\ \A i \in 1 .. Len(events) : events'[i] = events[i]
               /\ Cli!LastNumber(events') = count[s] + 1
<1> DEFINE e == [seq |-> count[s] + 1, event |-> [s |-> s, what |-> what]]
<1>1. count[s] \in Nat /\ e \in CliEvents /\ Cli!LastNumber(events) \in Nat
  <2>1. count[s] \in Nat /\ e \in CliEvents
    BY DEF CliTypes, CliEvents
  <2>2. events # <<>> => Len(events) \in 1 .. Len(events) /\ events[Len(events)] \in CliEvents
    BY DEF CliTypes
  <2>3. QED
    BY <2>1, <2>2 DEF Cli!LastNumber, CliEvents
<1>2. count' \in [Sessions -> Nat] /\ count'[s] = count[s] + 1
      /\ \A r \in Sessions : r # s => count'[r] = count[r]
  BY <1>1 DEF Cli!Emit, CliTypes
<1>3. CASE Cli!Fits(events, count[s] + 1)
  <2>1. events' = Append(events, e) /\ lost' = lost
    BY <1>3 DEF Cli!Emit, Cli!Offer
  <2>2. /\ events' \in Seq(CliEvents) /\ Len(events') = Len(events) + 1
        /\ events'[Len(events) + 1] = e /\ events' # <<>>
        /\ \A i \in 1 .. Len(events) : events'[i] = events[i]
    <3>1. events \in Seq(CliEvents) /\ e \in CliEvents
      BY <1>1 DEF CliTypes
    <3> HIDE DEF e
    <3>2. QED
      BY <2>1, <3>1, AppendProperties
  <2>3. Cli!LastNumber(events') = count[s] + 1
    BY <2>2 DEF Cli!LastNumber
  <2>4. QED
    BY <1>2, <2>1, <2>2, <2>3 DEF CliTypes
<1>4. CASE ~Cli!Fits(events, count[s] + 1)
  <2>1. events' = events /\ lost' = lost \union {s}
    BY <1>4 DEF Cli!Emit, Cli!Offer
  <2>2. ~(Cli!LastNumber(events) <= count[s])
    BY <1>1, <1>4 DEF Cli!Fits
  <2>3. QED
    BY <1>2, <2>1, <2>2 DEF CliTypes
<1>5. QED
  BY <1>3, <1>4

\* A function of the processes that changes at one of them.
LEMMA Changed ==
  ASSUME NEW S, NEW f, NEW g, NEW T, f \in [S -> T], NEW s \in S, NEW x \in T, g = [f EXCEPT ![s] = x]
  PROVE  g \in [S -> T]
OBVIOUS

\* What the creation of a session does.
LEMMA Created ==
  ASSUME CliTypes, NEW s \in Sessions, NEW n \in Cli!Names, Cli!Create(s, n)
  PROVE  /\ rows' \in [Sessions -> Rows]
         /\ record' \in [Sessions -> {"none", "own", "other"}]
         /\ record'[s] = n
         /\ \A r \in Sessions : r # s => rows'[r] = rows[r] /\ record'[r] = record[r]
         /\ \A m \in Cli!Names : m # n => rows'[s][m] = rows[s][m]
         /\ rows'[s][n] = IF Cli!IsOmp(s) \/ rows[s][n] = 0 THEN rows[s][n] + 1 ELSE rows[s][n]
<1> DEFINE more == [rows[s] EXCEPT ![n] = @ + 1]
<1>1. /\ rows[s] \in Rows /\ more \in Rows
      /\ more[n] = rows[s][n] + 1 /\ \A m \in Cli!Names : m # n => more[m] = rows[s][m]
  BY DEF CliTypes, Rows
<1>2. record' = [record EXCEPT ![s] = n]
      /\ rows' = IF Cli!IsOmp(s) \/ rows[s][n] = 0 THEN [rows EXCEPT ![s] = more] ELSE rows
  BY DEF Cli!Create
<1>3. /\ record' \in [Sessions -> {"none", "own", "other"}] /\ record'[s] = n
      /\ \A r \in Sessions : r # s => record'[r] = record[r]
  BY <1>2 DEF CliTypes, Cli!Names
<1>4. CASE Cli!IsOmp(s) \/ rows[s][n] = 0
  <2> HIDE DEF more
  <2>1. /\ rows' \in [Sessions -> Rows] /\ rows'[s] = more
        /\ \A r \in Sessions : r # s => rows'[r] = rows[r]
    BY <1>1, <1>2, <1>4 DEF CliTypes
  <2>2. QED
    BY <1>1, <1>3, <1>4, <2>1
<1>5. CASE ~(Cli!IsOmp(s) \/ rows[s][n] = 0)
  BY <1>2, <1>3, <1>5 DEF CliTypes
<1>6. QED
  BY <1>4, <1>5

\* The id of a line.
LEMMA NamedOne ==
  ASSUME NEW s
  PROVE  Cli!Named(s) \in Cli!Names /\ (Cli!IsOmp(s) => Cli!Named(s) = "own")
BY DEF Cli!Named, Cli!Names

\* A step of a process has its types.
LEMMA CliTypesStep ==
  ASSUME CliTypes, NEW s \in Sessions, CliStepOf(s)
  PROVE  CliTypes'
<1>0. Cli!LastNumber(events) \in Nat
  <2>1. events # <<>> => Len(events) \in 1 .. Len(events) /\ events[Len(events)] \in CliEvents
    BY DEF CliTypes
  <2>2. QED
    BY <2>1 DEF Cli!LastNumber, CliEvents
<1>1. CASE Cli!ChildWrites(s)
  <2>1. output' \in [Sessions -> Seq(Said)]
    <3>1. PICK l \in Said : output' = [output EXCEPT ![s] = Append(@, l)]
      BY <1>1 DEF Cli!ChildWrites, Cli!Alphabet, Said
    <3>2. Append(output[s], l) \in Seq(Said)
      BY DEF CliTypes
    <3>3. QED
      BY <3>1, <3>2, Changed DEF CliTypes
  <2>2. QED
    BY <1>1, <2>1 DEF Cli!ChildWrites, CliTypes, Cli!processVars, Cli!stateVars, Cli!logVars
<1>2. CASE Cli!ChildExits(s)
  <2>1. process' \in [Sessions -> {"none", "running", "good", "bad"}]
    BY <1>0, <1>2 DEF Cli!ChildExits, CliTypes
  <2>2. QED
    BY <1>2, <2>1 DEF Cli!ChildExits, CliTypes, Cli!processVars, Cli!stateVars, Cli!logVars
<1>3. CASE Cli!Spawn(s)
  <2>1. process' \in [Sessions -> {"none", "running", "good", "bad"}]
    BY <1>0, <1>3 DEF Cli!Spawn, CliTypes
  <2>2. count' \in [Sessions -> Nat]
    BY <1>0, <1>3 DEF Cli!Spawn, Cli!CountFrom, CliTypes
  <2>3. owner' \in [Sessions -> CliOwners]
    BY <1>0, <1>3 DEF Cli!Spawn, Cli!Goto, CliOwners, CliTypes
  <2>4. rd' \in [Sessions -> CliReaders]
    BY <1>0, <1>3 DEF Cli!Spawn, Cli!ReaderAt, CliReaders, CliTypes
  <2>5. overlapped' \subseteq Sessions
    BY <1>3 DEF Cli!Spawn, CliTypes
  <2>6. QED
    BY <1>3, <2>1, <2>2, <2>3, <2>4, <2>5 DEF Cli!Spawn, CliTypes, Cli!processVars, Cli!stateVars,
       Cli!logVars
<1>4. CASE Cli!Initialized(s)
  <2>1. owner' \in [Sessions -> CliOwners]
    BY <1>0, <1>4 DEF Cli!Initialized, Cli!Goto, CliOwners, CliTypes
  <2>2. QED
    BY <1>4, <2>1 DEF Cli!Initialized, CliTypes, Cli!processVars, Cli!stateVars, Cli!logVars
<1>5. CASE Cli!NotInitialized(s)
  <2>1. owner' \in [Sessions -> CliOwners]
    BY <1>0, <1>5 DEF Cli!NotInitialized, Cli!Goto, CliOwners, CliTypes
  <2>2. QED
    BY <1>5, <2>1 DEF Cli!NotInitialized, CliTypes, Cli!processVars, Cli!stateVars, Cli!logVars
<1>6. CASE Cli!CallerSession(s)
  <2>1. owner' \in [Sessions -> CliOwners]
    <3>1. \E x \in CliOwners : owner' = [owner EXCEPT ![s] = x]
      BY <1>6, Zenon DEF Cli!CallerSession, Cli!TakeLock, Cli!Goto, CliOwners
    <3>2. QED
      BY <3>1 DEF CliTypes
  <2>2. lock' \in [Sessions -> {"free", "caller", "reader"}]
    <3>1. lock' = lock \/ \E x \in {"free", "caller", "reader"} : lock' = [lock EXCEPT ![s] = x]
      BY <1>6, Zenon DEF Cli!CallerSession, Cli!TakeLock
    <3>2. QED
      BY <3>1 DEF CliTypes
  <2>3. QED
    BY <1>6, <2>1, <2>2 DEF Cli!CallerSession, Cli!TakeLock, CliTypes, Cli!processVars,
       Cli!stateVars, Cli!logVars
<1>7. CASE Cli!CallerCreates(s)
  <2>1. owner' \in [Sessions -> CliOwners]
    BY <1>0, <1>7 DEF Cli!CallerCreates, Cli!Create, Cli!Goto, CliOwners, CliTypes
  <2>2. /\ rows' \in [Sessions -> Rows]
        /\ record' \in [Sessions -> {"none", "own", "other"}]
    <3>1. Cli!Create(s, "own") /\ "own" \in Cli!Names
      BY <1>7 DEF Cli!CallerCreates, Cli!Names
    <3>2. QED
      BY <3>1, Created
  <2>3. QED
    BY <1>7, <2>1, <2>2 DEF Cli!CallerCreates, CliTypes, Cli!processVars,
       Cli!stateVars, Cli!logVars
<1>8. CASE Cli!CallerAnnounces(s)
  <2>1. owner' \in [Sessions -> CliOwners]
    <3>1. \E x \in CliOwners : owner' = [owner EXCEPT ![s] = x]
      BY <1>8, Zenon DEF Cli!CallerAnnounces, Cli!Goto, CliOwners
    <3>2. QED
      BY <3>1 DEF CliTypes
  <2>2. rd' \in [Sessions -> CliReaders]
    <3>1. rd' = rd \/ \E x \in CliReaders : rd' = [rd EXCEPT ![s] = x]
      BY <1>8, Zenon DEF Cli!CallerAnnounces, Cli!ReaderAt, CliReaders
    <3>2. QED
      BY <3>1 DEF CliTypes
  <2>3. ready' \subseteq Sessions
    BY <1>8 DEF Cli!CallerAnnounces, Cli!Release, CliTypes
  <2>4. lock' \in [Sessions -> {"free", "caller", "reader"}]
    BY <1>0, <1>8 DEF Cli!CallerAnnounces, Cli!Release, CliTypes
  <2>5. count' \in [Sessions -> Nat] /\ events' \in Seq(CliEvents) /\ lost' \subseteq Sessions
    <3>1. Cli!Emit(s, "started")
      BY <1>8 DEF Cli!CallerAnnounces
    <3>2. QED
      BY <3>1, Emitted DEF Told
  <2>6. QED
    BY <1>8, <2>1, <2>2, <2>3, <2>4, <2>5 DEF Cli!CallerAnnounces, Cli!Release, CliTypes,
       Cli!processVars, Cli!stateVars, Cli!logVars
<1>9. CASE Cli!ReaderSession(s)
  <2>1. rd' \in [Sessions -> CliReaders]
    <3>1. \E x \in CliReaders : rd' = [rd EXCEPT ![s] = x]
      BY <1>9, Zenon DEF Cli!ReaderSession, Cli!TakeLock, Cli!ReaderAt, CliReaders
    <3>2. QED
      BY <3>1 DEF CliTypes
  <2>2. lock' \in [Sessions -> {"free", "caller", "reader"}]
    <3>1. lock' = lock \/ \E x \in {"free", "caller", "reader"} : lock' = [lock EXCEPT ![s] = x]
      BY <1>9, Zenon DEF Cli!ReaderSession, Cli!TakeLock
    <3>2. QED
      BY <3>1 DEF CliTypes
  <2>3. QED
    BY <1>9, <2>1, <2>2 DEF Cli!ReaderSession, Cli!TakeLock, CliTypes, Cli!processVars,
       Cli!stateVars, Cli!logVars
<1>10. CASE Cli!ReaderCreates(s)
  <2>1. rd' \in [Sessions -> CliReaders]
    BY <1>0, <1>10 DEF Cli!ReaderCreates, Cli!Create, Cli!ReaderAt, CliReaders, CliTypes
  <2>2. /\ rows' \in [Sessions -> Rows]
        /\ record' \in [Sessions -> {"none", "own", "other"}]
    <3>1. Cli!Create(s, Cli!Named(s)) /\ Cli!Named(s) \in Cli!Names
      BY <1>10, NamedOne DEF Cli!ReaderCreates
    <3>2. QED
      BY <3>1, Created
  <2>3. QED
    BY <1>10, <2>1, <2>2 DEF Cli!ReaderCreates, CliTypes, Cli!processVars,
       Cli!stateVars, Cli!logVars
<1>11. CASE Cli!ReaderAnnounces(s)
  <2>1. rd' \in [Sessions -> CliReaders]
    <3>1. \E x \in CliReaders : rd' = [rd EXCEPT ![s] = x]
      BY <1>11, Zenon DEF Cli!ReaderAnnounces, Cli!ReaderAt, CliReaders
    <3>2. QED
      BY <3>1 DEF CliTypes
  <2>2. ready' \subseteq Sessions
    BY <1>11 DEF Cli!ReaderAnnounces, Cli!Release, CliTypes
  <2>3. lock' \in [Sessions -> {"free", "caller", "reader"}]
    BY <1>0, <1>11 DEF Cli!ReaderAnnounces, Cli!Release, CliTypes
  <2>4. count' \in [Sessions -> Nat] /\ events' \in Seq(CliEvents) /\ lost' \subseteq Sessions
    <3>1. Cli!Emit(s, "started")
      BY <1>11 DEF Cli!ReaderAnnounces
    <3>2. QED
      BY <3>1, Emitted DEF Told
  <2>5. QED
    BY <1>11, <2>1, <2>2, <2>3, <2>4 DEF Cli!ReaderAnnounces, Cli!Release, CliTypes,
       Cli!processVars, Cli!stateVars, Cli!logVars
<1>12. CASE Cli!ReadLine(s)
  <2>1. output' \in [Sessions -> Seq(Said)] /\ Head(output[s]) \in Said
    <3>1. output[s] \in Seq(Said) /\ output[s] # <<>>
      BY <1>12 DEF Cli!ReadLine, CliTypes
    <3>2. Head(output[s]) \in Said /\ Tail(output[s]) \in Seq(Said)
      BY <3>1, HeadTailProperties
    <3>3. QED
      BY <1>12, <3>2 DEF Cli!ReadLine, CliTypes
  <2>2. line' \in [Sessions -> Said \union {"none"}]
    BY <1>12, <2>1 DEF Cli!ReadLine, Cli!Settle, CliTypes
  <2>3. prompt' \in [Sessions -> {"none", "pending", "yes", "no", "exit"}]
    BY <1>12, <2>1 DEF Cli!ReadLine, Cli!Settle, CliTypes
  <2>4. completed' \subseteq Sessions
    BY <1>12 DEF Cli!ReadLine, CliTypes
  <2>5. ready' \subseteq Sessions
    BY <1>12 DEF Cli!ReadLine, CliTypes
  <2>6. rd' \in [Sessions -> CliReaders]
    BY <1>0, <1>12 DEF Cli!ReadLine, Cli!ReaderAt, CliReaders, CliTypes
  <2>7. QED
    BY <1>12, <2>1, <2>2, <2>3, <2>4, <2>5, <2>6 DEF Cli!ReadLine, CliTypes, Cli!processVars,
       Cli!stateVars, Cli!logVars
<1>13. CASE Cli!StoreLine(s)
  <2>1. rd' \in [Sessions -> CliReaders]
    BY <1>0, <1>13 DEF Cli!StoreLine, Cli!ReaderAt, CliReaders, CliTypes
  <2>2. prompt' \in [Sessions -> {"none", "pending", "yes", "no", "exit"}]
    BY <1>0, <1>13 DEF Cli!StoreLine, CliTypes
  <2>3. count' \in [Sessions -> Nat] /\ events' \in Seq(CliEvents) /\ lost' \subseteq Sessions
    <3>1. PICK what \in Told : Cli!Emit(s, what)
      BY <1>13 DEF Cli!StoreLine, Told
    <3>2. QED
      BY <3>1, Emitted
  <2>4. QED
    BY <1>13, <2>1, <2>2, <2>3 DEF Cli!StoreLine, CliTypes, Cli!processVars, Cli!stateVars,
       Cli!logVars
<1>14. CASE Cli!ReaderEnds(s)
  <2>1. rd' \in [Sessions -> CliReaders]
    BY <1>0, <1>14 DEF Cli!ReaderEnds, Cli!ReaderAt, CliReaders, CliTypes
  <2>2. prompt' \in [Sessions -> {"none", "pending", "yes", "no", "exit"}]
    BY <1>0, <1>14 DEF Cli!ReaderEnds, CliTypes
  <2>3. QED
    BY <1>14, <2>1, <2>2 DEF Cli!ReaderEnds, CliTypes, Cli!processVars, Cli!stateVars, Cli!logVars
<1>15. CASE Cli!WritePrompt(s)
  <2>1. owner' \in [Sessions -> CliOwners]
    BY <1>0, <1>15 DEF Cli!WritePrompt, Cli!Goto, CliOwners, CliTypes
  <2>2. prompt' \in [Sessions -> {"none", "pending", "yes", "no", "exit"}]
    BY <1>0, <1>15 DEF Cli!WritePrompt, CliTypes
  <2>3. QED
    BY <1>15, <2>1, <2>2 DEF Cli!WritePrompt, CliTypes, Cli!processVars, Cli!stateVars, Cli!logVars
<1>16. CASE Cli!PromptAnswered(s)
  <2>1. owner' \in [Sessions -> CliOwners]
    BY <1>0, <1>16 DEF Cli!PromptAnswered, Cli!Goto, CliOwners, CliTypes
  <2>2. QED
    BY <1>16, <2>1 DEF Cli!PromptAnswered, CliTypes, Cli!processVars, Cli!stateVars, Cli!logVars
<1>17. CASE Cli!PromptTimesOut(s)
  <2>1. owner' \in [Sessions -> CliOwners]
    BY <1>0, <1>17 DEF Cli!PromptTimesOut, Cli!Goto, CliOwners, CliTypes
  <2>2. prompt' \in [Sessions -> {"none", "pending", "yes", "no", "exit"}]
    BY <1>0, <1>17 DEF Cli!PromptTimesOut, CliTypes
  <2>3. QED
    BY <1>17, <2>1, <2>2 DEF Cli!PromptTimesOut, CliTypes, Cli!processVars, Cli!stateVars,
       Cli!logVars
<1>18. CASE Cli!Drop(s)
  <2>1. owner' \in [Sessions -> CliOwners]
    BY <1>0, <1>18 DEF Cli!Drop, Cli!Goto, CliOwners, CliTypes
  <2>2. QED
    BY <1>18, <2>1 DEF Cli!Drop, CliTypes, Cli!processVars, Cli!stateVars, Cli!logVars
<1>19. CASE Cli!Kill(s)
  <2>1. owner' \in [Sessions -> CliOwners]
    BY <1>0, <1>19 DEF Cli!Kill, Cli!Goto, CliOwners, CliTypes
  <2>2. cancelling' \subseteq Sessions
    BY <1>19 DEF Cli!Kill, CliTypes
  <2>3. process' \in [Sessions -> {"none", "running", "good", "bad"}]
    BY <1>0, <1>19 DEF Cli!Kill, CliTypes
  <2>4. QED
    BY <1>19, <2>1, <2>2, <2>3 DEF Cli!Kill, CliTypes, Cli!processVars, Cli!stateVars, Cli!logVars
<1>20. CASE Cli!StoreCancelled(s)
  <2>1. owner' \in [Sessions -> CliOwners]
    BY <1>0, <1>20 DEF Cli!StoreCancelled, Cli!Goto, CliOwners, CliTypes
  <2>2. count' \in [Sessions -> Nat] /\ events' \in Seq(CliEvents) /\ lost' \subseteq Sessions
    <3>1. Cli!Emit(s, "cancelled")
      BY <1>20 DEF Cli!StoreCancelled
    <3>2. QED
      BY <3>1, Emitted DEF Told
  <2>3. QED
    BY <1>20, <2>1, <2>2 DEF Cli!StoreCancelled, CliTypes, Cli!processVars, Cli!stateVars,
       Cli!logVars
<1>21. CASE Cli!ReapChild(s)
  <2>1. owner' \in [Sessions -> CliOwners]
    BY <1>0, <1>21 DEF Cli!ReapChild, Cli!Goto, CliOwners, CliTypes
  <2>2. QED
    BY <1>21, <2>1 DEF Cli!ReapChild, CliTypes, Cli!processVars, Cli!stateVars, Cli!logVars
<1>22. CASE Cli!StoreOutcome(s)
  <2>1. owner' \in [Sessions -> CliOwners]
    BY <1>0, <1>22 DEF Cli!StoreOutcome, Cli!Goto, CliOwners, CliTypes
  <2>2. count' \in [Sessions -> Nat] /\ events' \in Seq(CliEvents) /\ lost' \subseteq Sessions
    <3>1. PICK what \in Told : Cli!Emit(s, what)
      BY <1>22 DEF Cli!StoreOutcome, Told
    <3>2. QED
      BY <3>1, Emitted
  <2>3. QED
    BY <1>22, <2>1, <2>2 DEF Cli!StoreOutcome, CliTypes, Cli!processVars, Cli!stateVars, Cli!logVars
<1>23. CASE Cli!PollOutcome(s)
  <2>1. owner' \in [Sessions -> CliOwners]
    BY <1>0, <1>23 DEF Cli!PollOutcome, Cli!Goto, CliOwners, CliTypes
  <2>2. count' \in [Sessions -> Nat] /\ events' \in Seq(CliEvents) /\ lost' \subseteq Sessions
    <3>1. UNCHANGED Cli!logVars \/ Cli!Emit(s, "failed")
      BY <1>23 DEF Cli!PollOutcome
    <3>2. QED
      BY <3>1, Emitted DEF Cli!logVars, CliTypes, Told
  <2>3. QED
    BY <1>23, <2>1, <2>2 DEF Cli!PollOutcome, CliTypes, Cli!processVars, Cli!stateVars, Cli!logVars
<1>24. QED
  BY <1>1, <1>2, <1>3, <1>4, <1>5, <1>6, <1>7, <1>8, <1>9, <1>10, <1>11, <1>12, <1>13, <1>14,
     <1>15, <1>16, <1>17, <1>18, <1>19, <1>20, <1>21, <1>22, <1>23 DEF CliStepOf

\* A step of a process is a step of no other, and the log only grows.
CliFrame(s) ==
  /\ kind' = kind
  /\ \A r \in Sessions : r # s =>
       /\ owner'[r] = owner[r] /\ rd'[r] = rd[r] /\ process'[r] = process[r]
       /\ output'[r] = output[r] /\ line'[r] = line[r] /\ lock'[r] = lock[r]
       /\ rows'[r] = rows[r] /\ record'[r] = record[r]
       /\ (r \in ready' <=> r \in ready)
       /\ (r \in completed' <=> r \in completed) /\ (r \in cancelling' <=> r \in cancelling)

\* The others stay as they are.
LEMMA CliFrameStep ==
  ASSUME CliTypes, NEW s \in Sessions, CliStepOf(s)
  PROVE  CliFrame(s)
<1> USE DEF CliTypes, CliFrame, Cli!processVars, Cli!stateVars, Cli!Goto, Cli!ReaderAt
<1>1. CASE Cli!ChildWrites(s)
  BY <1>1 DEF Cli!ChildWrites
<1>2. CASE Cli!ChildExits(s)
  BY <1>2 DEF Cli!ChildExits
<1>3. CASE Cli!Spawn(s)
  BY <1>3 DEF Cli!Spawn
<1>4. CASE Cli!Initialized(s)
  BY <1>4 DEF Cli!Initialized
<1>5. CASE Cli!NotInitialized(s)
  BY <1>5 DEF Cli!NotInitialized
<1>6. CASE Cli!CallerSession(s)
  BY <1>6 DEF Cli!CallerSession, Cli!TakeLock
<1>7. CASE Cli!CallerCreates(s)
  BY <1>7, Created DEF Cli!CallerCreates, Cli!Names
<1>8. CASE Cli!CallerAnnounces(s)
  BY <1>8 DEF Cli!CallerAnnounces, Cli!Release
<1>9. CASE Cli!ReaderSession(s)
  BY <1>9 DEF Cli!ReaderSession, Cli!TakeLock
<1>10. CASE Cli!ReaderCreates(s)
  BY <1>10, Created, NamedOne DEF Cli!ReaderCreates
<1>11. CASE Cli!ReaderAnnounces(s)
  BY <1>11 DEF Cli!ReaderAnnounces, Cli!Release
<1>12. CASE Cli!ReadLine(s)
  BY <1>12 DEF Cli!ReadLine
<1>13. CASE Cli!StoreLine(s)
  BY <1>13 DEF Cli!StoreLine
<1>14. CASE Cli!ReaderEnds(s)
  BY <1>14 DEF Cli!ReaderEnds
<1>15. CASE Cli!WritePrompt(s)
  BY <1>15 DEF Cli!WritePrompt
<1>16. CASE Cli!PromptAnswered(s)
  BY <1>16 DEF Cli!PromptAnswered
<1>17. CASE Cli!PromptTimesOut(s)
  BY <1>17 DEF Cli!PromptTimesOut
<1>18. CASE Cli!Drop(s)
  BY <1>18 DEF Cli!Drop
<1>19. CASE Cli!Kill(s)
  BY <1>19 DEF Cli!Kill
<1>20. CASE Cli!StoreCancelled(s)
  BY <1>20 DEF Cli!StoreCancelled
<1>21. CASE Cli!ReapChild(s)
  BY <1>21 DEF Cli!ReapChild
<1>22. CASE Cli!StoreOutcome(s)
  BY <1>22 DEF Cli!StoreOutcome
<1>23. CASE Cli!PollOutcome(s)
  BY <1>23 DEF Cli!PollOutcome
<1>24. QED
  BY <1>1, <1>2, <1>3, <1>4, <1>5, <1>6, <1>7, <1>8, <1>9, <1>10, <1>11, <1>12, <1>13, <1>14,
     <1>15, <1>16, <1>17, <1>18, <1>19, <1>20, <1>21, <1>22, <1>23 DEF CliStepOf

\* What a step stores: nothing, or one event of a process that may store events.
LEMMA CliLogStep ==
  ASSUME CliTypes, NEW s \in Sessions, CliStepOf(s), ~Cli!Spawn(s), \A r \in Sessions : ReaderInv(r)
  PROVE  /\ UNCHANGED overlapped
         /\ \/ UNCHANGED Cli!logVars
            \/ Cli!Live(s) /\ owner[s] # "over" /\ \E what \in Told : Cli!Emit(s, what)
                 /\ (what = "completed" => Cli!StoreOutcome(s))
<1>1. CASE \/ Cli!ChildWrites(s) \/ Cli!ChildExits(s) \/ Cli!Initialized(s) \/ Cli!NotInitialized(s)
          \/ Cli!CallerSession(s) \/ Cli!CallerCreates(s) \/ Cli!ReaderSession(s)
               \/ Cli!ReaderCreates(s)
          \/ Cli!ReadLine(s) \/ Cli!ReaderEnds(s) \/ Cli!WritePrompt(s) \/ Cli!PromptAnswered(s)
          \/ Cli!PromptTimesOut(s) \/ Cli!Drop(s) \/ Cli!Kill(s) \/ Cli!ReapChild(s)
  BY <1>1, Zenon DEF Cli!ChildWrites, Cli!ChildExits, Cli!Initialized, Cli!NotInitialized,
     Cli!CallerSession, Cli!CallerCreates, Cli!ReaderSession, Cli!ReaderCreates, Cli!ReadLine,
     Cli!ReaderEnds, Cli!WritePrompt, Cli!PromptAnswered, Cli!PromptTimesOut, Cli!Drop, Cli!Kill,
     Cli!ReapChild
<1>2. CASE Cli!CallerAnnounces(s)
  BY <1>2 DEF Cli!CallerAnnounces, Cli!Live, Cli!Over, Told
<1>3. CASE Cli!ReaderAnnounces(s)
  BY <1>3 DEF Cli!ReaderAnnounces, Cli!Live, Cli!Over, Told, ReaderInv
<1>4. CASE Cli!StoreLine(s)
  <2>1. \E what \in Told : Cli!Emit(s, what) /\ what # "completed"
    BY <1>4 DEF Cli!StoreLine, Told
  <2>2. QED
    BY <1>4, <2>1 DEF Cli!StoreLine, Cli!Live, Cli!Over, ReaderInv
<1>5. CASE Cli!StoreCancelled(s)
  BY <1>5 DEF Cli!StoreCancelled, Cli!Live, Cli!Over, Told
<1>6. CASE Cli!StoreOutcome(s) \/ Cli!PollOutcome(s)
  <2>1. \/ UNCHANGED Cli!logVars
        \/ \E what \in Told : Cli!Emit(s, what) /\ (what = "completed" => Cli!StoreOutcome(s))
    BY <1>6 DEF Cli!StoreOutcome, Cli!PollOutcome, Told
  <2>2. QED
    BY <1>6, <2>1 DEF Cli!StoreOutcome, Cli!PollOutcome, Cli!Live, Cli!Over
<1>7. QED
  BY <1>1, <1>2, <1>3, <1>4, <1>5, <1>6 DEF CliStepOf

\* What lets a process move: its child runs, its reader reads or its owner is not done.
LEMMA Guarded ==
  ASSUME NEW s \in Sessions, CliStepOf(s), process[s] # "running", owner[s] \in Cli!Over
  PROVE  rd[s] # "stopped"
<1> USE DEF Cli!Over
<1>1. CASE Cli!ChildWrites(s)
  BY <1>1 DEF Cli!ChildWrites
<1>2. CASE Cli!ChildExits(s)
  BY <1>2 DEF Cli!ChildExits
<1>3. CASE Cli!Spawn(s)
  BY <1>3 DEF Cli!Spawn
<1>4. CASE Cli!Initialized(s)
  BY <1>4 DEF Cli!Initialized
<1>5. CASE Cli!NotInitialized(s)
  BY <1>5 DEF Cli!NotInitialized
<1>6. CASE Cli!CallerSession(s)
  BY <1>6 DEF Cli!CallerSession
<1>7. CASE Cli!CallerCreates(s)
  BY <1>7 DEF Cli!CallerCreates
<1>8. CASE Cli!CallerAnnounces(s)
  BY <1>8 DEF Cli!CallerAnnounces
<1>9. CASE Cli!ReaderSession(s)
  BY <1>9 DEF Cli!ReaderSession
<1>10. CASE Cli!ReaderCreates(s)
  BY <1>10 DEF Cli!ReaderCreates
<1>11. CASE Cli!ReaderAnnounces(s)
  BY <1>11 DEF Cli!ReaderAnnounces
<1>12. CASE Cli!ReadLine(s)
  BY <1>12 DEF Cli!ReadLine
<1>13. CASE Cli!StoreLine(s)
  BY <1>13 DEF Cli!StoreLine
<1>14. CASE Cli!ReaderEnds(s)
  BY <1>14 DEF Cli!ReaderEnds
<1>15. CASE Cli!WritePrompt(s)
  BY <1>15 DEF Cli!WritePrompt
<1>16. CASE Cli!PromptAnswered(s)
  BY <1>16 DEF Cli!PromptAnswered
<1>17. CASE Cli!PromptTimesOut(s)
  BY <1>17 DEF Cli!PromptTimesOut
<1>18. CASE Cli!Drop(s)
  BY <1>18 DEF Cli!Drop
<1>19. CASE Cli!Kill(s)
  BY <1>19 DEF Cli!Kill
<1>20. CASE Cli!StoreCancelled(s)
  BY <1>20 DEF Cli!StoreCancelled
<1>21. CASE Cli!ReapChild(s)
  BY <1>21 DEF Cli!ReapChild
<1>22. CASE Cli!StoreOutcome(s)
  BY <1>22 DEF Cli!StoreOutcome
<1>23. CASE Cli!PollOutcome(s)
  BY <1>23 DEF Cli!PollOutcome
<1>24. QED
  BY <1>1, <1>2, <1>3, <1>4, <1>5, <1>6, <1>7, <1>8, <1>9, <1>10, <1>11, <1>12, <1>13, <1>14,
     <1>15, <1>16, <1>17, <1>18, <1>19, <1>20, <1>21, <1>22, <1>23 DEF CliStepOf

\* Nothing stored or refused is forgotten.
LEMMA LogGrows ==
  ASSUME CliTypes, NEW s \in Sessions, CliStepOf(s), \A r \in Sessions : ReaderInv(r)
  PROVE  /\ lost \subseteq lost'
         /\ \/ events' = events
            \/ /\ Len(events') = Len(events) + 1
               /\ \A i \in 1 .. Len(events) : events'[i] = events[i]
<1>1. CASE Cli!Spawn(s)
  BY <1>1 DEF Cli!Spawn
<1>2. CASE ~Cli!Spawn(s)
  <2>1. UNCHANGED Cli!logVars \/ \E what \in Told : Cli!Emit(s, what)
    BY <1>2, CliLogStep
  <2>2. CASE UNCHANGED Cli!logVars
    BY <2>2 DEF Cli!logVars
  <2>3. ASSUME NEW what \in Told, Cli!Emit(s, what)
        PROVE  /\ lost \subseteq lost'
               /\ \/ events' = events
                  \/ /\ Len(events') = Len(events) + 1
                     /\ \A i \in 1 .. Len(events) : events'[i] = events[i]
    BY <2>3, Emitted
  <2>4. QED
    BY <2>1, <2>2, <2>3
<1>3. QED
  BY <1>1, <1>2

\* Which events are stored stays stored.
LEMMA StoredStays ==
  ASSUME CliTypes, NEW s \in Sessions, CliStepOf(s), \A r \in Sessions : ReaderInv(r),
         NEW r \in Sessions, NEW what, HasEvent(r, what)
  PROVE  HasEvent(r, what)'
<1>1. Len(events) \in Nat
  BY DEF CliTypes
<1>2. QED
  BY <1>1, LogGrows DEF HasEvent

\* The step of another process changes nothing of this one.
LEMMA OthersSession ==
  ASSUME CliTypes, NEW s \in Sessions, CliStepOf(s), \A r \in Sessions : SessionInv(r) /\ ReaderInv(r),
         NEW r \in Sessions, r # s
  PROVE  SessionInv(r)' /\ ReaderInv(r)'
<1>1. CliFrame(s)
  BY CliFrameStep
<1>2. SessionInv(r)'
  BY <1>1 DEF CliFrame, SessionInv, Cli!IsOmp
<1>3. /\ HasEvent(r, "failed") => HasEvent(r, "failed")'
      /\ HasEvent(r, "result") => HasEvent(r, "result")'
      /\ r \in lost => r \in lost'
  BY StoredStays, LogGrows
<1>4. ReaderInv(r)'
  BY <1>1, <1>3 DEF CliFrame, ReaderInv, Cli!IsOmp, Cli!Gone
<1>5. QED
  BY <1>2, <1>4

\* What is stored now.
LEMMA EmitStores ==
  ASSUME CliTypes, NEW s \in Sessions, NEW what \in Told, Cli!Emit(s, what)
  PROVE  HasEvent(s, what)' /\ (~Cli!Fits(events, count[s] + 1) => \A t \in Told : HasEvent(s, t)')
<1>1. CASE s \in lost'
  BY <1>1 DEF HasEvent
<1>2. CASE s \notin lost'
  <2>1. /\ Len(events') = Len(events) + 1 /\ Len(events) \in Nat
        /\ events'[Len(events) + 1].event = [s |-> s, what |-> what]
    <3>1. ~(lost' = lost \union {s})
      BY <1>2
    <3>2. QED
      BY <3>1, Emitted DEF CliTypes
  <2>2. Cli!Fits(events, count[s] + 1) /\ Len(events) + 1 \in 1 .. Len(events')
    BY <1>2, <2>1 DEF Cli!Emit
  <2>3. QED
    BY <2>1, <2>2 DEF HasEvent
<1>3. QED
  BY <1>1, <1>2

\* A process and its own step: its session.
LEMMA OwnSession ==
  ASSUME CliTypes, NEW s \in Sessions, CliStepOf(s), SessionInv(s), ReaderInv(s)
  PROVE  SessionInv(s)'
<1> USE DEF CliTypes, SessionInv, Cli!IsOmp, Cli!processVars, Cli!stateVars, Cli!Goto, Cli!ReaderAt
<1>1. CASE Cli!ChildWrites(s)
  BY <1>1 DEF Cli!ChildWrites
<1>2. CASE Cli!ChildExits(s)
  BY <1>2 DEF Cli!ChildExits
<1>3. CASE Cli!Spawn(s)
  BY <1>3 DEF Cli!Spawn, ReaderInv
<1>4. CASE Cli!Initialized(s)
  BY <1>4 DEF Cli!Initialized
<1>5. CASE Cli!NotInitialized(s)
  BY <1>5 DEF Cli!NotInitialized
<1>6. CASE Cli!CallerSession(s)
  BY <1>6 DEF Cli!CallerSession, Cli!TakeLock
<1>7. CASE Cli!CallerCreates(s)
  <2>1. /\ owner[s] = "create" /\ owner' = [owner EXCEPT ![s] = "announce"]
        /\ UNCHANGED <<kind, lock, rd>> /\ Cli!Create(s, "own") /\ "own" \in Cli!Names
    BY <1>7 DEF Cli!CallerCreates, Cli!Names
  <2>2. ASSUME NEW n \in Cli!Names PROVE rows'[s][n] <= 1
    <3>1. rows[s][n] \in Nat /\ rows[s][n] <= 1 /\ (Cli!IsOmp(s) => rows[s][n] = 0)
      BY <2>1 DEF Rows
    <3>2. rows'[s][n] = IF n = "own" /\ (Cli!IsOmp(s) \/ rows[s][n] = 0)
                        THEN rows[s][n] + 1 ELSE rows[s][n]
      BY <2>1, Created
    <3>3. QED
      BY <3>1, <3>2
  <2>3. QED
    BY <2>1, <2>2, Created DEF Cli!IsOmp
<1>8. CASE Cli!CallerAnnounces(s)
  <2>1. /\ owner[s] = "announce" /\ lock' = [lock EXCEPT ![s] = "free"]
        /\ UNCHANGED <<kind, record, rows, process, output, line, completed, cancelling>>
    BY <1>8 DEF Cli!CallerAnnounces, Cli!Release
  <2>2. CASE ~Cli!Fits(events, count[s] + 1) /\ Cli!IsOmp(s)
    <3>1. owner' = [owner EXCEPT ![s] = "dropped"] /\ rd' = rd /\ ready' = ready
      BY <1>8, <2>2 DEF Cli!CallerAnnounces
    <3>2. QED
      BY <2>1, <2>2, <3>1 DEF ReaderInv, Cli!IsOmp
  <2>3. CASE ~Cli!Fits(events, count[s] + 1) /\ ~Cli!IsOmp(s)
    <3>1. owner' = [owner EXCEPT ![s] = "dropped"] /\ rd' = [rd EXCEPT ![s] = "stopped"]
            /\ ready' = ready
      BY <1>8, <2>3 DEF Cli!CallerAnnounces
    <3>2. QED
      BY <2>1, <2>3, <3>1 DEF ReaderInv, Cli!IsOmp
  <2>4. CASE Cli!Fits(events, count[s] + 1) /\ Cli!IsOmp(s)
    <3>1. owner' = [owner EXCEPT ![s] = "prompt"] /\ rd' = rd /\ ready' = ready
      BY <1>8, <2>4 DEF Cli!CallerAnnounces
    <3>2. QED
      BY <2>1, <2>4, <3>1 DEF ReaderInv, Cli!IsOmp
  <2>5. CASE Cli!Fits(events, count[s] + 1) /\ ~Cli!IsOmp(s)
    <3>1. /\ owner' = [owner EXCEPT ![s] = "running"] /\ rd' = [rd EXCEPT ![s] = "reading"]
          /\ ready' = ready \union {s}
      BY <1>8, <2>5 DEF Cli!CallerAnnounces
    <3>2. QED
      BY <2>1, <2>5, <3>1 DEF ReaderInv, Cli!IsOmp
  <2>6. QED
    BY <2>2, <2>3, <2>4, <2>5
<1>9. CASE Cli!ReaderSession(s)
  BY <1>9, NamedOne DEF Cli!ReaderSession, Cli!TakeLock, ReaderInv
<1>10. CASE Cli!ReaderCreates(s)
  <2>1. /\ rd[s] = "create" /\ rd' = [rd EXCEPT ![s] = "announce"]
        /\ UNCHANGED <<kind, lock, owner>> /\ Cli!Create(s, Cli!Named(s))
        /\ Cli!Named(s) \in Cli!Names /\ (Cli!IsOmp(s) => Cli!Named(s) = "own")
    BY <1>10, NamedOne DEF Cli!ReaderCreates
  <2>2. ASSUME NEW n \in Cli!Names PROVE rows'[s][n] <= 1
    <3>1. rows[s][n] \in Nat /\ rows[s][n] <= 1 /\ (Cli!IsOmp(s) => rows[s][n] = 0)
      BY <2>1 DEF Rows
    <3>2. rows'[s][n] = IF n = Cli!Named(s) /\ (Cli!IsOmp(s) \/ rows[s][n] = 0)
                        THEN rows[s][n] + 1 ELSE rows[s][n]
      BY <2>1, Created
    <3>3. QED
      BY <3>1, <3>2
  <2>3. record'[s] = Cli!Named(s) /\ record'[s] # "none"
    BY <2>1, Created DEF Cli!Names
  <2>4. QED
    BY <2>1, <2>2, <2>3
<1>11. CASE Cli!ReaderAnnounces(s)
  BY <1>11 DEF Cli!ReaderAnnounces, Cli!Release
<1>12. CASE Cli!ReadLine(s)
  BY <1>12 DEF Cli!ReadLine
<1>13. CASE Cli!StoreLine(s)
  BY <1>13 DEF Cli!StoreLine
<1>14. CASE Cli!ReaderEnds(s)
  BY <1>14 DEF Cli!ReaderEnds
<1>15. CASE Cli!WritePrompt(s)
  BY <1>15 DEF Cli!WritePrompt
<1>16. CASE Cli!PromptAnswered(s)
  BY <1>16 DEF Cli!PromptAnswered
<1>17. CASE Cli!PromptTimesOut(s)
  BY <1>17 DEF Cli!PromptTimesOut
<1>18. CASE Cli!Drop(s)
  BY <1>18 DEF Cli!Drop
<1>19. CASE Cli!Kill(s)
  BY <1>19 DEF Cli!Kill
<1>20. CASE Cli!StoreCancelled(s)
  BY <1>20 DEF Cli!StoreCancelled
<1>21. CASE Cli!ReapChild(s)
  BY <1>21 DEF Cli!ReapChild
<1>22. CASE Cli!StoreOutcome(s)
  BY <1>22 DEF Cli!StoreOutcome
<1>23. CASE Cli!PollOutcome(s)
  BY <1>23 DEF Cli!PollOutcome
<1>24. QED
  BY <1>1, <1>2, <1>3, <1>4, <1>5, <1>6, <1>7, <1>8, <1>9, <1>10, <1>11, <1>12, <1>13, <1>14,
     <1>15, <1>16, <1>17, <1>18, <1>19, <1>20, <1>21, <1>22, <1>23 DEF CliStepOf

\* A process and its own step: its reader.
LEMMA OwnReader ==
  ASSUME CliTypes, NEW s \in Sessions, CliStepOf(s), \A r \in Sessions : SessionInv(r) /\ ReaderInv(r)
  PROVE  ReaderInv(s)'
<1>0. /\ HasEvent(s, "failed") => HasEvent(s, "failed")'
      /\ HasEvent(s, "result") => HasEvent(s, "result")'
      /\ s \in lost => s \in lost'
  BY StoredStays, LogGrows
<1> USE DEF CliTypes, ReaderInv, Cli!IsOmp, Cli!Gone, Cli!processVars, Cli!stateVars, Cli!Goto, Cli!ReaderAt
<1>1. CASE Cli!ChildWrites(s)
  BY <1>0, <1>1 DEF Cli!ChildWrites
<1>2. CASE Cli!ChildExits(s)
  BY <1>0, <1>2 DEF Cli!ChildExits
<1>3. CASE Cli!Spawn(s)
  BY <1>0, <1>3 DEF Cli!Spawn
<1>4. CASE Cli!Initialized(s)
  BY <1>0, <1>4 DEF Cli!Initialized
<1>5. CASE Cli!NotInitialized(s)
  BY <1>0, <1>5 DEF Cli!NotInitialized
<1>6. CASE Cli!CallerSession(s)
  <2>1. /\ owner[s] = "session"
        /\ UNCHANGED <<kind, process, output, rd, line, ready, record, completed, cancelling>>
    BY <1>6 DEF Cli!CallerSession
  <2>2. CASE record[s] # "none" /\ owner' = [owner EXCEPT ![s] = "prompt"]
    BY <1>0, <2>1, <2>2
  <2>3. CASE record[s] = "none" /\ owner' = [owner EXCEPT ![s] = "create"]
    BY <1>0, <2>1, <2>3
  <2>4. QED
    BY <1>6, <2>2, <2>3 DEF Cli!CallerSession
<1>7. CASE Cli!CallerCreates(s)
  BY <1>0, <1>7 DEF Cli!CallerCreates, Cli!Create, SessionInv
<1>8. CASE Cli!CallerAnnounces(s)
  <2>1. /\ owner[s] = "announce" /\ lock' = [lock EXCEPT ![s] = "free"]
        /\ UNCHANGED <<kind, record, rows, process, output, line, completed, cancelling>>
    BY <1>8 DEF Cli!CallerAnnounces, Cli!Release
  <2>2. CASE ~Cli!Fits(events, count[s] + 1) /\ Cli!IsOmp(s)
    <3>1. owner' = [owner EXCEPT ![s] = "dropped"] /\ rd' = rd /\ ready' = ready
      BY <1>8, <2>2 DEF Cli!CallerAnnounces
    <3>2. QED
      BY <1>0, <2>1, <2>2, <3>1 DEF SessionInv
  <2>3. CASE ~Cli!Fits(events, count[s] + 1) /\ ~Cli!IsOmp(s)
    <3>1. owner' = [owner EXCEPT ![s] = "dropped"] /\ rd' = [rd EXCEPT ![s] = "stopped"]
            /\ ready' = ready
      BY <1>8, <2>3 DEF Cli!CallerAnnounces
    <3>2. QED
      BY <1>0, <2>1, <2>3, <3>1 DEF SessionInv
  <2>4. CASE Cli!Fits(events, count[s] + 1) /\ Cli!IsOmp(s)
    <3>1. owner' = [owner EXCEPT ![s] = "prompt"] /\ rd' = rd /\ ready' = ready
      BY <1>8, <2>4 DEF Cli!CallerAnnounces
    <3>2. QED
      BY <1>0, <2>1, <2>4, <3>1 DEF SessionInv
  <2>5. CASE Cli!Fits(events, count[s] + 1) /\ ~Cli!IsOmp(s)
    <3>1. /\ owner' = [owner EXCEPT ![s] = "running"] /\ rd' = [rd EXCEPT ![s] = "reading"]
          /\ ready' = ready \union {s}
      BY <1>8, <2>5 DEF Cli!CallerAnnounces
    <3>2. QED
      BY <1>0, <2>1, <2>5, <3>1 DEF SessionInv
  <2>6. QED
    BY <2>2, <2>3, <2>4, <2>5
<1>9. CASE Cli!ReaderSession(s)
  <2>1. /\ rd[s] = "session"
        /\ UNCHANGED <<kind, process, output, owner, line, ready, record, completed, cancelling>>
    BY <1>9 DEF Cli!ReaderSession
  <2>2. CASE rd' = [rd EXCEPT ![s] = "store"]
    BY <1>0, <2>1, <2>2
  <2>3. CASE rd' = [rd EXCEPT ![s] = "create"]
    BY <1>0, <2>1, <2>3
  <2>4. QED
    BY <1>9, <2>2, <2>3, Zenon DEF Cli!ReaderSession
<1>10. CASE Cli!ReaderCreates(s)
  <2>0. /\ rd[s] = "create" /\ rd' = [rd EXCEPT ![s] = "announce"]
        /\ Cli!Create(s, Cli!Named(s)) /\ Cli!Named(s) \in Cli!Names
        /\ UNCHANGED <<kind, process, output, owner, line, ready, completed, cancelling>>
    BY <1>10, NamedOne DEF Cli!ReaderCreates
  <2>1. record'[s] = Cli!Named(s) /\ record'[s] # "none"
    BY <2>0, Created DEF Cli!Names
  <2>2. owner[s] # "none" /\ owner[s] # "over" /\ (~Cli!IsOmp(s) => owner[s] # "session")
    BY <2>0
  <2>3. QED
    BY <1>0, <2>0, <2>1, <2>2
<1>11. CASE Cli!ReaderAnnounces(s)
  <2>1. ~Cli!Fits(events, count[s] + 1) => HasEvent(s, "result")' /\ s \in lost'
    BY <1>11, EmitStores DEF Cli!ReaderAnnounces, Cli!Emit, Told
  <2>2. QED
    BY <1>0, <1>11, <2>1 DEF Cli!ReaderAnnounces, Cli!Release, SessionInv
<1>12. CASE Cli!ReadLine(s)
  BY <1>0, <1>12 DEF Cli!ReadLine
<1>13. CASE Cli!StoreLine(s)
  <2>1. /\ Cli!IsOmp(s) /\ line[s] = "garbage" => HasEvent(s, "failed")'
        /\ ~(Cli!IsOmp(s) /\ line[s] = "garbage") /\ line[s] = "result" => HasEvent(s, "result")'
    BY <1>13, EmitStores DEF Cli!StoreLine, Told
  <2>2. QED
    BY <1>0, <1>13, <2>1 DEF Cli!StoreLine
<1>14. CASE Cli!ReaderEnds(s)
  BY <1>0, <1>14 DEF Cli!ReaderEnds
<1>15. CASE Cli!WritePrompt(s)
  BY <1>0, <1>15 DEF Cli!WritePrompt
<1>16. CASE Cli!PromptAnswered(s)
  BY <1>0, <1>16 DEF Cli!PromptAnswered
<1>17. CASE Cli!PromptTimesOut(s)
  BY <1>0, <1>17 DEF Cli!PromptTimesOut
<1>18. CASE Cli!Drop(s)
  BY <1>0, <1>18 DEF Cli!Drop
<1>19. CASE Cli!Kill(s)
  BY <1>0, <1>19 DEF Cli!Kill
<1>20. CASE Cli!StoreCancelled(s)
  BY <1>0, <1>20 DEF Cli!StoreCancelled
<1>21. CASE Cli!ReapChild(s)
  BY <1>0, <1>21 DEF Cli!ReapChild
<1>22. CASE Cli!StoreOutcome(s)
  BY <1>0, <1>22 DEF Cli!StoreOutcome, Cli!Drained
<1>23. CASE Cli!PollOutcome(s)
  BY <1>0, <1>23 DEF Cli!PollOutcome, Cli!Drained
<1>24. QED
  BY <1>1, <1>2, <1>3, <1>4, <1>5, <1>6, <1>7, <1>8, <1>9, <1>10, <1>11, <1>12, <1>13, <1>14,
     <1>15, <1>16, <1>17, <1>18, <1>19, <1>20, <1>21, <1>22, <1>23 DEF CliStepOf

\* Who may not store events does not come to, unless it is started.
LEMMA LiveStays ==
  ASSUME CliTypes, NEW s \in Sessions, CliStepOf(s), ~Cli!Spawn(s), SessionInv(s), ReaderInv(s)
  PROVE  \A r \in Sessions : Cli!Live(r)' => Cli!Live(r)
<1>1. CliFrame(s)
  BY CliFrameStep
<1>2. Cli!Live(s)' => Cli!Live(s)
  <2> USE DEF CliTypes, ReaderInv, Cli!Live, Cli!Over, Cli!Goto, Cli!ReaderAt
  <2>1. CASE Cli!ChildWrites(s)
    BY <2>1 DEF Cli!ChildWrites
  <2>2. CASE Cli!ChildExits(s)
    BY <2>2 DEF Cli!ChildExits
  <2>3. CASE Cli!Initialized(s)
    BY <2>3 DEF Cli!Initialized
  <2>4. CASE Cli!NotInitialized(s)
    BY <2>4 DEF Cli!NotInitialized
  <2>5. CASE Cli!CallerSession(s)
    BY <2>5 DEF Cli!CallerSession
  <2>6. CASE Cli!CallerCreates(s)
    BY <2>6 DEF Cli!CallerCreates
  <2>7. CASE Cli!CallerAnnounces(s)
    BY <2>7 DEF Cli!CallerAnnounces
  <2>8. CASE Cli!ReaderSession(s)
    BY <2>8 DEF Cli!ReaderSession
  <2>9. CASE Cli!ReaderCreates(s)
    BY <2>9 DEF Cli!ReaderCreates
  <2>10. CASE Cli!ReaderAnnounces(s)
    BY <2>10 DEF Cli!ReaderAnnounces
  <2>11. CASE Cli!ReadLine(s)
    BY <2>11 DEF Cli!ReadLine
  <2>12. CASE Cli!StoreLine(s)
    BY <2>12 DEF Cli!StoreLine
  <2>13. CASE Cli!ReaderEnds(s)
    BY <2>13 DEF Cli!ReaderEnds
  <2>14. CASE Cli!WritePrompt(s)
    BY <2>14 DEF Cli!WritePrompt
  <2>15. CASE Cli!PromptAnswered(s)
    BY <2>15 DEF Cli!PromptAnswered
  <2>16. CASE Cli!PromptTimesOut(s)
    BY <2>16 DEF Cli!PromptTimesOut
  <2>17. CASE Cli!Drop(s)
    BY <2>17 DEF Cli!Drop
  <2>18. CASE Cli!Kill(s)
    BY <2>18 DEF Cli!Kill
  <2>19. CASE Cli!StoreCancelled(s)
    BY <2>19 DEF Cli!StoreCancelled
  <2>20. CASE Cli!ReapChild(s)
    BY <2>20 DEF Cli!ReapChild
  <2>21. CASE Cli!StoreOutcome(s)
    BY <2>21 DEF Cli!StoreOutcome
  <2>22. CASE Cli!PollOutcome(s)
    BY <2>22 DEF Cli!PollOutcome
  <2>23. QED
    BY <2>1, <2>2, <2>3, <2>4, <2>5, <2>6, <2>7, <2>8, <2>9, <2>10, <2>11, <2>12, <2>13, <2>14,
       <2>15, <2>16, <2>17, <2>18, <2>19, <2>20, <2>21, <2>22 DEF CliStepOf
<1>3. QED
  BY <1>1, <1>2 DEF CliFrame, Cli!Live

\* Counting goes on from the last event, unless two processes count at once.
LEMMA CountStep ==
  ASSUME CliTypes, NEW s \in Sessions, CliStepOf(s), CountInv,
         \A r \in Sessions : SessionInv(r) /\ ReaderInv(r)
  PROVE  CountInv'
<1>1. CASE Cli!Spawn(s)
  <2> DEFINE Others == {r \in Sessions : r # s /\ Cli!Live(r)}
  <2>1. /\ count' = [count EXCEPT ![s] = Cli!LastNumber(events)] /\ events' = events /\ lost' = lost
        /\ overlapped' = IF Others = {} THEN overlapped ELSE overlapped \union Others \union {s}
    BY <1>1 DEF Cli!Spawn, Cli!CountFrom
  <2>2. /\ \A r \in Sessions : r # s => count'[r] = count[r] /\ (Cli!Live(r)' <=> Cli!Live(r))
        /\ count'[s] = Cli!LastNumber(events)
    BY <1>1, <2>1, CliFrameStep DEF CliTypes, CliFrame, Cli!Live
  <2>3. Cli!LastNumber(events) \in Nat /\ Cli!LastNumber(events') = Cli!LastNumber(events)
    <3>1. events # <<>> => Len(events) \in 1 .. Len(events) /\ events[Len(events)] \in CliEvents
      BY DEF CliTypes
    <3>2. QED
      BY <2>1, <3>1 DEF Cli!LastNumber, CliEvents
  <2>4. overlapped \subseteq overlapped'
    BY <2>1
  <2>5. \A r \in Sessions : Cli!Live(r)' /\ r \notin overlapped' => Cli!LastNumber(events') <= count'[r]
    BY <2>2, <2>3, <2>4 DEF CountInv
  <2>6. \A r, t \in Sessions : r # t /\ Cli!Live(r)' /\ Cli!Live(t)'
          => r \in overlapped' /\ t \in overlapped'
    <3>1. ASSUME NEW r \in Sessions, NEW t \in Sessions, r # t, r # s, t # s, Cli!Live(r)', Cli!Live(t)'
          PROVE  r \in overlapped' /\ t \in overlapped'
      BY <2>2, <2>4, <3>1 DEF CountInv
    <3>2. ASSUME NEW r \in Sessions, r # s, Cli!Live(r)'
          PROVE  r \in overlapped' /\ s \in overlapped'
      <4>1. r \in Others
        BY <2>2, <3>2
      <4>2. QED
        BY <2>1, <4>1
    <3>3. QED
      BY <3>1, <3>2
  <2>7. QED
    BY <2>1, <2>4, <2>5, <2>6 DEF CountInv
<1>2. CASE ~Cli!Spawn(s)
  <2>1. overlapped' = overlapped /\ \A r \in Sessions : Cli!Live(r)' => Cli!Live(r)
    BY <1>2, CliLogStep, LiveStays
  <2>2. CASE UNCHANGED Cli!logVars
    <3>1. count' = count /\ events' = events /\ lost' = lost
            /\ Cli!LastNumber(events') = Cli!LastNumber(events)
      BY <2>2 DEF Cli!logVars, Cli!LastNumber
    <3>2. QED
      BY <2>1, <3>1 DEF CountInv
  <2>3. ASSUME Cli!Live(s), NEW what \in Told, Cli!Emit(s, what)
        PROVE  CountInv'
    <3>1. \A r \in Sessions : Cli!Live(r) /\ r # s => r \in overlapped /\ s \in overlapped
      BY <2>3 DEF CountInv
    <3>2. count[s] \in Nat
      BY DEF CliTypes
    <3>3. CASE events' = events /\ lost' = lost \union {s} /\ ~(Cli!LastNumber(events) <= count[s])
      <4>1. s \in overlapped /\ Cli!LastNumber(events') = Cli!LastNumber(events)
        BY <2>3, <3>3 DEF CountInv, Cli!LastNumber
      <4>2. QED
        BY <2>1, <3>1, <3>3, <4>1 DEF CountInv
    <3>4. CASE lost' = lost /\ Cli!LastNumber(events') = count[s] + 1
      <4>1. count'[s] = count[s] + 1
        BY <2>3, Emitted
      <4>2. QED
        BY <2>1, <3>1, <3>2, <3>4, <4>1 DEF CountInv
    <3>5. QED
      BY <2>3, <3>3, <3>4, Emitted
  <2>4. QED
    BY <1>2, <2>2, <2>3, CliLogStep
<1>3. QED
  BY <1>1, <1>2

\* What an outcome was decided on stays as it was, and a process that is over says no more.
LEMMA EvidenceStep ==
  ASSUME CliTypes, CliTypes', NEW s \in Sessions, CliStepOf(s), OverInv, Cli!OutcomeHasEvidence,
         \A r \in Sessions : SessionInv(r) /\ ReaderInv(r)
  PROVE  OverInv' /\ Cli!OutcomeHasEvidence'
<1> DEFINE Backed(i) ==
      LET p == events[i].event.s
      IN /\ owner[p] = "over" /\ Cli!Succeeded(p) /\ p \notin cancelling /\ rd[p] = "stopped"
         /\ p \notin lost => \E j \in 1 .. i : events[j].event = [s |-> p, what |-> "result"]
         /\ output[p] # <<>> =>
              IF Cli!IsOmp(p)
              THEN p \notin lost => \E j \in 1 .. i : events[j].event = [s |-> p, what |-> "failed"]
              ELSE p \in lost
         /\ \A j \in i + 1 .. Len(events) : events[j].event.s # p
<1>1. \A i \in 1 .. Len(events) : events[i].event.what = "completed" => Backed(i)
  BY DEF OverInv, Cli!OutcomeHasEvidence
<1>2. SUFFICES \A i \in 1 .. Len(events') : events'[i].event.what = "completed" => Backed(i)'
  BY DEF OverInv, Cli!OutcomeHasEvidence
<1>3. Len(events) \in Nat /\ \A i \in 1 .. Len(events) : events[i].event.s \in Sessions
  <2>1. Len(events) \in Nat /\ \A i \in 1 .. Len(events) : events[i] \in CliEvents
    BY DEF CliTypes
  <2>2. QED
    BY <2>1 DEF CliEvents
<1>4. CliFrame(s)
  BY CliFrameStep
\* A process that is over does not move.
<1>5. ASSUME NEW p \in Sessions, owner[p] = "over", Cli!Succeeded(p), p \notin cancelling, rd[p] = "stopped"
      PROVE  /\ owner'[p] = "over" /\ Cli!Succeeded(p)' /\ p \notin cancelling' /\ rd'[p] = "stopped"
             /\ output'[p] = output[p] /\ (Cli!IsOmp(p)' <=> Cli!IsOmp(p)) /\ p # s
  <2>1. p # s
    <3> SUFFICES ASSUME p = s PROVE FALSE
      OBVIOUS
    <3>1. owner[s] = "over" /\ rd[s] = "stopped" /\ process[s] = "good"
      BY <1>5 DEF Cli!Succeeded
    <3>2. QED
      BY <3>1, Guarded DEF Cli!Over
  <2>2. QED
    BY <1>4, <1>5, <2>1, Zenon DEF CliFrame, Cli!Succeeded, Cli!IsOmp
<1>6. ASSUME events' = events, lost \subseteq lost'
      PROVE  \A i \in 1 .. Len(events') : events'[i].event.what = "completed" => Backed(i)'
  <2> SUFFICES ASSUME NEW i \in 1 .. Len(events), events[i].event.what = "completed" PROVE Backed(i)'
    BY <1>6
  <2>0. PICK p \in Sessions : p = events[i].event.s
    BY <1>3
  <2>1. Backed(i)
    BY <1>1, <1>3
  <2>2. /\ owner'[p] = "over" /\ Cli!Succeeded(p)' /\ p \notin cancelling' /\ rd'[p] = "stopped"
        /\ output'[p] = output[p] /\ (Cli!IsOmp(p)' <=> Cli!IsOmp(p))
    BY <1>5, <2>0, <2>1
  <2>3. p \notin lost' => p \notin lost
    BY <1>6
  <2>4. QED
    BY <1>6, <2>0, <2>1, <2>2, <2>3
<1>7. ASSUME NEW what \in Told, Cli!Emit(s, what), what # "completed" \/ Cli!StoreOutcome(s),
             lost' = lost, Len(events') = Len(events) + 1,
             events'[Len(events) + 1].event = [s |-> s, what |-> what],
             \A i \in 1 .. Len(events) : events'[i] = events[i]
      PROVE  \A i \in 1 .. Len(events') : events'[i].event.what = "completed" => Backed(i)'
  <2>1. ASSUME NEW i \in 1 .. Len(events), events'[i].event.what = "completed"
        PROVE  Backed(i)'
    <3>1. Backed(i) /\ events'[i] = events[i]
      BY <1>1, <1>7, <2>1
    <3>0. PICK p \in Sessions : p = events[i].event.s
      BY <1>3
    <3>2. /\ owner'[p] = "over" /\ Cli!Succeeded(p)' /\ p \notin cancelling' /\ rd'[p] = "stopped"
          /\ output'[p] = output[p] /\ (Cli!IsOmp(p)' <=> Cli!IsOmp(p)) /\ p # s
      BY <1>5, <3>0, <3>1
    <3>3. \A t \in Told : (\E j \in 1 .. i : events[j].event = [s |-> p, what |-> t]) =>
                          \E j \in 1 .. i : events'[j].event = [s |-> p, what |-> t]
      BY <1>3, <1>7
    <3>4. \A j \in i + 1 .. Len(events') : events'[j].event.s # p
      <4>1. ASSUME NEW j \in i + 1 .. Len(events'), j # Len(events) + 1
            PROVE  events'[j].event.s # p
        <5>0. Len(events') = Len(events) + 1
          BY <1>7
        <5>1. j \in i + 1 .. Len(events) /\ j \in 1 .. Len(events)
          BY <1>3, <4>1, <5>0
        <5>2. QED
          BY <1>7, <3>0, <3>1, <5>1
      <4>2. QED
        BY <1>7, <3>2, <4>1
    <3>5. events'[i].event.s = p /\ lost' = lost
      BY <1>7, <3>0, <3>1
    <3>6. QED
      BY <3>0, <3>1, <3>2, <3>3, <3>4, <3>5 DEF Told
  <2>2. CASE what # "completed"
    <3>1. \A i \in 1 .. Len(events') : i \in 1 .. Len(events) \/ i = Len(events) + 1
      BY <1>3, <1>7
    <3>2. QED
      BY <1>7, <2>1, <2>2, <3>1
  <2>3. CASE Cli!StoreOutcome(s) /\ what = "completed"
    <3>0. PICK n \in Nat : n = Len(events) + 1
      BY <1>3
    <3>1. Backed(n)'
      <4>1. events'[n].event.s = s
        BY <1>7, <3>0
      <4>2. /\ owner[s] = "waiting" /\ rd[s] = "stopped" /\ owner' = [owner EXCEPT ![s] = "over"]
            /\ UNCHANGED <<kind, process, output, rd, completed, cancelling>>
        BY <2>3 DEF Cli!StoreOutcome, Cli!Drained, Cli!Goto, Cli!processVars, Cli!stateVars
      <4>3. Cli!Succeeded(s)
        <5>1. Cli!Emit(s, IF Cli!Succeeded(s) THEN "completed" ELSE "failed")
          BY <2>3 DEF Cli!StoreOutcome
        <5>2. ASSUME ~Cli!Succeeded(s) PROVE FALSE
          <6>1. Cli!Emit(s, "failed") /\ "failed" \in Told
            BY <5>1, <5>2 DEF Told
          <6>2. events'[n].event = [s |-> s, what |-> "failed"] \/ events' = events
            BY <3>0, <6>1, Emitted
          <6>3. QED
            BY <1>3, <1>7, <2>3, <3>0, <6>2
        <5>3. QED
          BY <5>2
      <4>4. owner'[s] = "over" /\ Cli!Succeeded(s)' /\ s \notin cancelling' /\ rd'[s] = "stopped"
        <5>1. s \notin cancelling
          BY <4>2 DEF ReaderInv
        <5>2. Cli!Succeeded(s)'
          BY <4>2, <4>3 DEF Cli!Succeeded
        <5>3. QED
          BY <4>2, <5>1, <5>2 DEF CliTypes
      <4>5. HasEvent(s, "result")
        BY <4>2, <4>3 DEF Cli!Succeeded, ReaderInv
      <4>6. output[s] # <<>> => IF Cli!IsOmp(s) THEN HasEvent(s, "failed") ELSE s \in lost
        BY <4>2, <4>3 DEF ReaderInv
      <4>7. \A t \in Told : HasEvent(s, t) =>
              s \in lost' \/ \E j \in 1 .. n : events'[j].event = [s |-> s, what |-> t]
        BY <1>3, <1>7, <3>0 DEF HasEvent
      <4>8. n + 1 .. Len(events') = {}
        BY <1>3, <1>7, <3>0
      <4>9. output' = output /\ (Cli!IsOmp(s)' <=> Cli!IsOmp(s))
        BY <4>2 DEF Cli!IsOmp
      <4>10. /\ s \notin lost' => \E j \in 1 .. n : events'[j].event = [s |-> s, what |-> "result"]
             /\ output'[s] # <<>> =>
                  IF Cli!IsOmp(s)'
                  THEN s \notin lost' => \E j \in 1 .. n : events'[j].event = [s |-> s, what |-> "failed"]
                  ELSE s \in lost'
        BY <1>7, <4>5, <4>6, <4>7, <4>9 DEF Told
      <4>11. \A j \in n + 1 .. Len(events') : events'[j].event.s # s
        BY <4>8
      <4>12. QED
        BY <4>1, <4>4, <4>10, <4>11
    <3>2. \A i \in 1 .. Len(events') : i \in 1 .. Len(events) \/ i = n
      BY <1>3, <1>7, <3>0
    <3>3. ASSUME NEW i \in 1 .. Len(events'), i = n PROVE Backed(i)'
      BY <3>1, <3>3
    <3>4. QED
      BY <2>1, <3>2, <3>3
  <2>4. QED
    BY <1>7, <2>2, <2>3
<1>8. QED
  <2>1. CASE Cli!Spawn(s)
    BY <1>6, <2>1 DEF Cli!Spawn
  <2>2. CASE ~Cli!Spawn(s)
    <3>1. CASE UNCHANGED Cli!logVars
      BY <1>6, <3>1 DEF Cli!logVars
    <3>2. ASSUME NEW what \in Told, Cli!Emit(s, what), what = "completed" => Cli!StoreOutcome(s)
          PROVE  <1>2!1
      <4>2. CASE events' = events /\ lost' = lost \union {s}
        BY <1>6, <4>2
      <4>3. QED
        BY <1>7, <3>2, <4>2, Emitted
    <3>3. QED
      BY <2>2, <3>1, <3>2, CliLogStep
  <2>3. QED
    BY <2>1, <2>2

\* Every step of a process keeps it.
LEMMA CliStep ==
  ASSUME CliInv, Cli!CliNext
  PROVE  CliInv'
<1>1. PICK s \in Sessions : CliStepOf(s)
  BY Zenon DEF Cli!CliNext, CliStepOf
<1>2. /\ CliTypes /\ CountInv /\ OverInv /\ Cli!OutcomeHasEvidence
      /\ \A r \in Sessions : SessionInv(r) /\ ReaderInv(r)
  BY DEF CliInv
<1>3. CliTypes'
  BY <1>1, <1>2, CliTypesStep
<1>4. \A r \in Sessions : SessionInv(r)' /\ ReaderInv(r)'
  BY <1>1, <1>2, OthersSession, OwnSession, OwnReader
<1>5. CountInv'
  BY <1>1, <1>2, CountStep
<1>6. OverInv' /\ Cli!OutcomeHasEvidence'
  BY <1>1, <1>2, <1>3, EvidenceStep
<1>7. QED
  BY <1>3, <1>4, <1>5, <1>6 DEF CliInv

\* What it is for.
LEMMA CliHolds ==
  ASSUME CliInv
  PROVE  Cli!OutcomeHasEvidence /\ Cli!LossNeedsOverlap
<1>1. \A s \in Sessions, n \in Cli!Names : rows[s][n] <= 1
  BY DEF CliInv, SessionInv
<1>2. QED
  BY <1>1 DEF CliInv, CountInv, Cli!LossNeedsOverlap

-------------------------------------------------------------------------------
(* ProviderSettings.                                                       *)

\* What is to be saved is valid, and what is remembered is what is on disk.
SettingsInv ==
  /\ Settings!Valid(memory) /\ memory = Settings!Loaded(disk)
  /\ step \in {"save", "write"} => Settings!Valid(candidate)
  /\ step = "idle" /\ answer # "refused" /\ hosted = TRUE => routing = memory
  /\ hosted \in BOOLEAN

\* The document of a fresh installation, one with a provider of the user's own, and what the
\* migration makes of a document with GLM.
LEMMA DocumentsAreValid ==
  /\ Settings!Loaded(Settings!NoDocument) = Settings!Default /\ Settings!Valid(Settings!Default)
  /\ Settings!Loaded(Settings!WithCustom) = Settings!WithCustom /\ Settings!Valid(Settings!WithCustom)
  /\ Settings!Loaded(Settings!Legacy) = Settings!Migrated(Settings!Legacy)
       /\ Settings!Valid(Settings!Migrated(Settings!Legacy))
<1>1. Settings!Loaded(Settings!NoDocument) = Settings!Default
  BY DEF Settings!Loaded
<1>2. Settings!Default.models = [p \in {"codex", "claude", "omp", "gemini"} |-> "own"]
        /\ Settings!Default.version = 1
      /\ Settings!Default.enabled = {"codex", "claude"}
      /\ Settings!Default.workflow = [implementer |-> Settings!Pick("codex", "own"), reviewer |-> Settings!Pick("claude", "own"),
                             repair |-> Settings!NoSelection]
  BY DEF Settings!Default
<1>3. Settings!Valid(Settings!Default)
  BY <1>2 DEF Settings!Valid, Settings!Storable, Settings!Selected, Settings!RepairSelection,
     Settings!Ids, Settings!Clis, Settings!Roles, Settings!Pick, Settings!NoSelection,
     Settings!Capable, Settings!SelectsModel
<1>4. Settings!WithCustom.version = 1
      /\ Settings!WithCustom.models = [p \in {"codex", "claude", "omp", "gemini", "custom"} |-> "own"]
      /\ Settings!WithCustom.enabled = {"codex", "claude", "custom"}
           /\ Settings!WithCustom.workflow = Settings!Default.workflow
  <2>1. DOMAIN Settings!Default.models \union {"custom"} = {"codex", "claude", "omp", "gemini", "custom"}
    BY <1>2
  <2>2. QED
    BY <1>2, <2>1 DEF Settings!WithCustom, Settings!Default
<1>5. Settings!Valid(Settings!WithCustom)
  BY <1>2, <1>4 DEF Settings!Valid, Settings!Storable, Settings!Selected,
     Settings!RepairSelection, Settings!Ids, Settings!Clis, Settings!Roles, Settings!Pick,
     Settings!NoSelection, Settings!Capable, Settings!SelectsModel
<1>6. Settings!WithCustom # Settings!NoDocument /\ Settings!Legacy # Settings!NoDocument
  <2>1. Settings!WithCustom.version = 1 /\ Settings!Legacy.version = 1
          /\ Settings!NoDocument.version = 0
    BY <1>4 DEF Settings!Legacy, Settings!NoDocument
  <2>2. QED
    BY <2>1
<1>7. Settings!Migrated(Settings!WithCustom) = Settings!WithCustom
  BY <1>4 DEF Settings!Migrated
<1>8. DOMAIN Settings!Legacy.models = {"codex", "claude", "gemini", "glm"}
      /\ (\A p \in DOMAIN Settings!Legacy.models : Settings!Legacy.models[p] = "own")
           /\ Settings!Legacy.version = 1
      /\ Settings!Legacy.enabled = {"codex", "claude", "glm"}
      /\ Settings!Legacy.workflow = [implementer |-> Settings!Pick("glm", "own"), reviewer |-> Settings!Pick("codex", "own"),
                            repair |-> Settings!NoSelection]
  BY DEF Settings!Legacy
<1> DEFINE New == Settings!Migrated(Settings!Legacy)
<1>9. New.version = 1 /\ DOMAIN New.models = {"codex", "claude", "gemini", "omp"}
      /\ New.models["codex"] = "own" /\ New.models["omp"] = "zai"
      /\ New.enabled = {"codex", "claude", "omp"}
      /\ New.workflow["implementer"] = Settings!Pick("omp", "zai")
           /\ New.workflow["reviewer"] = Settings!Pick("codex", "own")
      /\ New.workflow["repair"] = Settings!NoSelection
  <2>1. \E role \in Settings!Roles : Settings!Legacy.workflow[role].provider = "glm"
    BY <1>8 DEF Settings!Roles, Settings!Pick
  <2>2. (DOMAIN Settings!Legacy.models \ {"glm"}) \union {"omp"} = {"codex", "claude", "gemini", "omp"}
    BY <1>8
  <2>3. New = [Settings!Legacy EXCEPT
             !.models = [p \in (DOMAIN @ \ {"glm"}) \cup {"omp"} |->
                           IF p # "omp" THEN @[p] ELSE "zai"],
             !.enabled = (@ \ {"glm"}) \cup {"omp"},
             !.workflow = [role \in Settings!Roles |->
                             IF @[role].provider = "glm" THEN Settings!Pick("omp", "zai") ELSE @[role]]]
    BY <1>8, <2>1, Zenon DEF Settings!Migrated
  <2>4. DOMAIN Settings!Legacy = {"version", "models", "enabled", "workflow"}
    BY DEF Settings!Legacy
  <2>5. New.version = 1 /\ New.enabled = {"codex", "claude", "omp"}
    BY <1>8, <2>3, <2>4
  <2>6. New.models = [p \in {"codex", "claude", "gemini", "omp"} |->
                       IF p # "omp" THEN Settings!Legacy.models[p] ELSE "zai"]
    BY <2>2, <2>3, <2>4
  <2>7. New.workflow = [role \in Settings!Roles |-> IF Settings!Legacy.workflow[role].provider = "glm"
                                          THEN Settings!Pick("omp", "zai") ELSE Settings!Legacy.workflow[role]]
    BY <2>3, <2>4
  <2> HIDE DEF New
  <2>8. DOMAIN New.models = {"codex", "claude", "gemini", "omp"} /\ New.models["codex"] = "own"
        /\ New.models["omp"] = "zai"
    BY <1>8, <2>6
  <2>9. New.workflow["implementer"] = Settings!Pick("omp", "zai")
          /\ New.workflow["reviewer"] = Settings!Pick("codex", "own")
        /\ New.workflow["repair"] = Settings!NoSelection
    <3>1. /\ Settings!Legacy.workflow["implementer"].provider = "glm"
               /\ Settings!Legacy.workflow["reviewer"].provider # "glm"
          /\ Settings!Legacy.workflow["repair"].provider # "glm"
               /\ Settings!Legacy.workflow["reviewer"] = Settings!Pick("codex", "own")
          /\ Settings!Legacy.workflow["repair"] = Settings!NoSelection
      BY <1>8 DEF Settings!Pick, Settings!NoSelection
    <3>2. QED
      BY <2>7, <3>1 DEF Settings!Roles
  <2>10. QED
    BY <2>5, <2>8, <2>9
<1>10. Settings!Valid(New)
  <2> HIDE DEF New
  <2>1. QED
    BY <1>9 DEF Settings!Valid, Settings!Storable, Settings!Selected, Settings!RepairSelection,
       Settings!Ids, Settings!Clis, Settings!Roles, Settings!Pick, Settings!NoSelection,
       Settings!Capable, Settings!SelectsModel
<1>11. QED
  BY <1>1, <1>3, <1>5, <1>6, <1>7, <1>10 DEF Settings!Loaded

\* What was saved is loaded as it is.
LEMMA SavedIsLoaded ==
  ASSUME NEW doc, Settings!Valid(doc)
  PROVE  Settings!Loaded(doc) = doc
<1>1. doc # Settings!NoDocument
  <2>1. doc.version > 0 /\ Settings!NoDocument.version = 0
    BY DEF Settings!Valid, Settings!NoDocument
  <2>2. QED
    BY <2>1
<1>2. "glm" \notin DOMAIN doc.models
  BY DEF Settings!Valid
<1>3. QED
  BY <1>1, <1>2 DEF Settings!Loaded, Settings!Migrated

\* Nothing was changed yet.
LEMMA SettingsInit == Settings!SettingsStart => SettingsInv
BY DocumentsAreValid DEF Settings!SettingsStart, SettingsInv

\* A mutation that is proposed.
LEMMA ProposeStep ==
  ASSUME SettingsInv, NEW doc, Settings!Propose(doc)
  PROVE  SettingsInv'
BY DEF Settings!Propose, SettingsInv, Settings!EditCopy, Settings!Refuse, Settings!Kept

\* Every step of a mutation, and its end at any of them, keeps it.
LEMMA SettingsStep ==
  ASSUME SettingsInv, Settings!SettingsNext
  PROVE  SettingsInv'
<1>1. CASE Settings!SetEnabled \/ Settings!SetModel \/ Settings!SetWorkflow
             \/ Settings!UpsertCustom \/ Settings!RemoveCustom
  <2>1. \E doc : Settings!Propose(doc)
    BY <1>1, Zenon DEF Settings!SetEnabled, Settings!SetModel, Settings!SetWorkflow,
       Settings!UpsertCustom, Settings!RemoveCustom
  <2>2. QED
    BY <2>1, ProposeStep
<1>2. CASE Settings!ChangeKey
  BY <1>2 DEF Settings!ChangeKey, SettingsInv, Settings!Refuse
<1>3. CASE Settings!CreateTemporary
  BY <1>3 DEF Settings!CreateTemporary, SettingsInv, Settings!Refuse, Settings!Kept
<1>4. CASE Settings!SaveFails
  BY <1>4 DEF Settings!SaveFails, SettingsInv, Settings!Refuse, Settings!Kept
<1>5. CASE Settings!Replace
  BY <1>5, SavedIsLoaded DEF Settings!Replace, SettingsInv, Settings!Kept
<1>6. CASE Settings!Apply
  BY <1>6 DEF Settings!Apply, SettingsInv, Settings!Kept
<1>7. CASE Settings!Restart
  BY <1>7 DEF Settings!Restart, Settings!Start, SettingsInv
<1>8. QED
  BY <1>1, <1>2, <1>3, <1>4, <1>5, <1>6, <1>7 DEF Settings!SettingsNext

\* What it is for.
LEMMA SettingsHold == SettingsInv => Settings!SettingsAgree
BY DEF SettingsInv, Settings!SettingsAgree

-------------------------------------------------------------------------------
(* ModelCatalog.                                                           *)

Models == 1 .. MaxModels
Entries == Models \X Catalog!Levels

CatalogTypes ==
  /\ listing \in [Catalog!Listed -> [Models -> Catalog!Levels]] /\ intact \subseteq Catalog!Listed
  /\ fetched \in [Catalog!Listed -> [Models -> Catalog!Levels \union {"unread"}]]
  /\ offered \in [Catalog!Listed -> SUBSET Entries] /\ still \subseteq Catalog!Listed
  /\ wanted.of \in Catalog!Asked \union {<<>>} /\ wanted.at \in 0 .. Len(wanted.of)
  /\ wanted = [of |-> wanted.of, at |-> wanted.at]
  /\ paging.cursor \in Nat /\ paging.found \in Seq(Entries)
  /\ paging = [cursor |-> paging.cursor, seen |-> paging.seen, found |-> paging.found]
  /\ ruling \in {"none", "refused", "allowed"}

\* A listing is being read.
Reads == paging.cursor > 0 \/ paging.seen # {}

\* What has been read of a listing is what comes before the cursor, unless what is offered
\* has changed; and all of it was on offer.
PagingInv ==
  /\ ~Reads => paging = Catalog!NoPaging
  /\ Reads =>
       /\ wanted.at > 0 /\ fetched["codex"] = Catalog!NoCatalog
       /\ \A m \in Models : <<m, listing["codex"][m]>> \in offered["codex"]
       /\ \A i \in 1 .. Len(paging.found) : paging.found[i] \in offered["codex"]
       /\ "codex" \in still =>
            /\ \A i \in 1 .. Len(paging.found) : \E m \in Catalog!Present : paging.found[i] = <<m, listing["codex"][m]>>
            /\ \A m \in Catalog!Present : paging.cursor = 0 \/ Catalog!Place(m) < paging.cursor =>
                 \E i \in 1 .. Len(paging.found) : paging.found[i] = <<m, listing["codex"][m]>>

\* A catalog is what was on offer.
FetchedInv ==
  \A p \in Catalog!Listed :
    /\ fetched[p] # Catalog!NoCatalog =>
         /\ wanted.at > 0 /\ fetched[p] \in [Models -> Catalog!Levels]
         /\ \A m \in Models : fetched[p][m] # "absent" => <<m, fetched[p][m]>> \in offered[p]
    /\ p \in still => fetched[p] = Catalog!NoCatalog \/ fetched[p] = listing[p]

\* A selection that was on offer.
Backed(s) ==
  s.provider \in Catalog!Listed /\ s.model # 0 =>
    \E l \in Catalog!Levels \ {"absent"} :
      <<s.model, l>> \in offered[s.provider] /\ (s.effort => l = "effort")

\* What was judged was on offer, and its catalog is kept until the ruling.
JudgedInv ==
  /\ ruling = "allowed" => wanted.of # <<>> /\ \A r \in 1 .. Len(wanted.of) : Backed(wanted.of[r])
  /\ ruling # "none" => wanted.at = 0
  /\ \A r \in 1 .. Len(wanted.of) : r < wanted.at =>
       /\ Backed(wanted.of[r])
       /\ wanted.of[r].provider \in Catalog!Listed => fetched[wanted.of[r].provider] # Catalog!NoCatalog
  /\ wanted.of = <<>> => ruling = "none" /\ wanted.at = 0

CatalogInv == CatalogTypes /\ PagingInv /\ FetchedInv /\ JudgedInv

\* The cardinality of the component is the one of the library.
LEMMA SameCardinality == \A S : Catalog!Cardinality(S) = Cardinality(S)
BY DEF Cardinality, Catalog!Cardinality

\* The places of the models that are listed.
LEMMA Places ==
  ASSUME MaxModels \in Nat
  PROVE  /\ IsFiniteSet(Catalog!Present) /\ Cardinality(Catalog!Present) \in Nat
         /\ \A m \in Catalog!Present : Catalog!Place(m) \in 1 .. Cardinality(Catalog!Present)
         /\ \A m, n \in Catalog!Present : Catalog!Place(m) = Catalog!Place(n) => m = n
<1> DEFINE Upto(m) == {k \in Catalog!Present : k <= m}
<1>1. IsFiniteSet(1 .. MaxModels)
  BY FS_Interval
<1>2. Catalog!Present \subseteq 1 .. MaxModels
  BY DEF Catalog!Present
<1>3. IsFiniteSet(Catalog!Present) /\ Cardinality(Catalog!Present) \in Nat
  BY <1>1, <1>2, FS_Subset, FS_CardinalityType
<1>4. \A m \in Catalog!Present : Catalog!Place(m) \in 1 .. Cardinality(Catalog!Present)
  <2> SUFFICES ASSUME NEW m \in Catalog!Present PROVE Catalog!Place(m) \in 1 .. Cardinality(Catalog!Present)
    OBVIOUS
  <2>1. m \in Upto(m) /\ Upto(m) \subseteq Catalog!Present
    BY <1>2
  <2>2. IsFiniteSet(Upto(m)) /\ Cardinality(Upto(m)) <= Cardinality(Catalog!Present)
          /\ Cardinality(Upto(m)) \in Nat
    BY <1>3, <2>1, FS_Subset, FS_CardinalityType
  <2>3. Cardinality(Upto(m)) # 0
    BY <2>1, <2>2, FS_EmptySet
  <2>4. QED
    BY <1>3, <2>2, <2>3, SameCardinality DEF Catalog!Place
<1>5. ASSUME NEW m \in Catalog!Present, NEW n \in Catalog!Present, m < n
      PROVE  Catalog!Place(m) # Catalog!Place(n)
  <2>1. Upto(m) \subseteq Upto(n) /\ n \notin Upto(m) /\ n \in Upto(n)
          /\ Upto(n) \subseteq Catalog!Present
    <3>1. m \in Int /\ n \in Int /\ \A k \in Catalog!Present : k \in Int
      BY <1>2
    <3>2. Upto(m) \subseteq Upto(n)
      <4> SUFFICES ASSUME NEW k \in Catalog!Present, k <= m PROVE k <= n
        OBVIOUS
      <4>1. k \in Int
        BY <3>1
      <4>2. QED
        BY <1>5, <3>1, <4>1
    <3>3. n \notin Upto(m) /\ n \in Upto(n)
      BY <1>5, <3>1
    <3>4. QED
      BY <3>2, <3>3
  <2>2. IsFiniteSet(Upto(n))
    BY <1>3, <2>1, FS_Subset
  <2>3. Cardinality(Upto(m)) # Cardinality(Upto(n))
    <3>1. Upto(n) # Upto(m)
      BY <2>1
    <3>2. Upto(m) \in SUBSET Upto(n)
      BY <2>1
    <3> HIDE DEF Upto
    <3>3. QED
      BY <2>2, <3>1, <3>2, FS_Subset
  <2>4. QED
    BY <2>3, SameCardinality DEF Catalog!Place
<1>6. ASSUME NEW m \in Catalog!Present, NEW n \in Catalog!Present, Catalog!Place(m) = Catalog!Place(n)
      PROVE  m = n
  <2>1. m \in Int /\ n \in Int
    BY <1>2
  <2>2. ~(m < n) /\ ~(n < m)
    BY <1>5, <1>6
  <2>3. QED
    BY <2>1, <2>2
<1>7. QED
  BY <1>3, <1>4, <1>6

\* Nothing was asked for yet.
LEMMA CatalogInit ==
  ASSUME MaxModels \in Nat \ {0, 1}
  PROVE  Catalog!CatalogStart => CatalogInv
<1> SUFFICES ASSUME Catalog!CatalogStart PROVE CatalogInv
  OBVIOUS
<1>1. CatalogTypes
  <2>1. listing \in [Catalog!Listed -> [Models -> Catalog!Levels]]
    BY DEF Catalog!CatalogStart, Models, Catalog!Levels
  <2>2. wanted.of = <<>> /\ wanted.at = 0 /\ Len(wanted.of) = 0
    BY DEF Catalog!CatalogStart
  <2>3. paging.cursor = 0 /\ paging.found = <<>> /\ paging.seen = {}
    BY DEF Catalog!CatalogStart, Catalog!NoPaging
  <2>4. fetched \in [Catalog!Listed -> [Models -> Catalog!Levels \union {"unread"}]]
    BY DEF Catalog!CatalogStart, Catalog!NoCatalog, Models
  <2>5. QED
    BY <2>1, <2>2, <2>3, <2>4 DEF Catalog!CatalogStart, CatalogTypes, Catalog!NoPaging
<1>2. ~Reads /\ paging = Catalog!NoPaging
  BY DEF Catalog!CatalogStart, Catalog!NoPaging, Reads
<1>3. FetchedInv
  BY DEF Catalog!CatalogStart, FetchedInv
<1>4. JudgedInv
  BY DEF Catalog!CatalogStart, JudgedInv
<1>5. QED
  BY <1>1, <1>2, <1>3, <1>4 DEF CatalogInv, PagingInv

\* A ruling ends the preflight and forgets its catalogs.
LEMMA RulesStep ==
  ASSUME MaxModels \in Nat \ {0, 1}, CatalogInv, NEW r \in {"refused", "allowed"}, Catalog!Rules(r),
         UNCHANGED <<listing, intact, offered, still>>, wanted.of # <<>>,
         r = "allowed" => \A k \in 1 .. Len(wanted.of) : Backed(wanted.of[k])
  PROVE  CatalogInv'
<1>1. wanted' = [of |-> wanted.of, at |-> 0] /\ Len(wanted.of) \in Nat
  <2>1. CatalogTypes
    BY DEF CatalogInv
  <2>2. Len(wanted.of) \in Nat
    BY <2>1 DEF CatalogTypes
  <2>3. QED
    BY <2>1, <2>2 DEF CatalogTypes, Catalog!Rules
<1>2. /\ wanted'.of = wanted.of /\ wanted'.at = 0 /\ paging' = Catalog!NoPaging /\ ruling' = r
      /\ \A p \in Catalog!Listed : fetched'[p] = Catalog!NoCatalog
  BY <1>1 DEF Catalog!Rules
<1>3. CatalogTypes'
  <2>1. fetched' \in [Catalog!Listed -> [Models -> Catalog!Levels \union {"unread"}]]
    BY DEF Catalog!Rules, Catalog!NoCatalog, Models
  <2>2. paging'.cursor = 0 /\ paging'.found = <<>> /\ paging'.seen = {}
    BY <1>2 DEF Catalog!NoPaging
  <2>3. QED
    BY <1>1, <1>2, <2>1, <2>2 DEF CatalogInv, CatalogTypes, Catalog!NoPaging
<1>4. PagingInv'
  BY <1>2 DEF PagingInv, Reads, Catalog!NoPaging
<1>5. FetchedInv'
  BY <1>2 DEF FetchedInv
<1>6. JudgedInv'
  <2>1. \A k \in 1 .. Len(wanted.of) : Backed(wanted.of[k]) => Backed(wanted.of[k])'
    BY <1>2 DEF Backed
  <2>2. r = "allowed" => \A k \in 1 .. Len(wanted.of) : Backed(wanted.of[k])'
    BY <2>1
  <2>3. \A k \in 1 .. Len(wanted.of) : ~(k < 0)
    BY <1>1
  <2>4. QED
    BY <1>2, <2>2, <2>3 DEF JudgedInv
<1>7. QED
  BY <1>3, <1>4, <1>5, <1>6 DEF CatalogInv

\* An account changes its offer, or a program is replaced.
LEMMA ShiftStep ==
  ASSUME MaxModels \in Nat \ {0, 1}, CatalogInv, Catalog!Shift
  PROVE  CatalogInv'
<1>1. /\ ruling = "none" /\ wanted' = wanted /\ paging' = paging /\ fetched' = fetched
           /\ ruling' = ruling
  BY DEF Catalog!Shift
<1>2. CatalogTypes /\ PagingInv /\ FetchedInv /\ JudgedInv
  BY DEF CatalogInv
<1>3. CASE UNCHANGED <<listing, offered, still>> /\ intact' \subseteq intact
  <2>1. CatalogTypes'
    BY <1>1, <1>2, <1>3 DEF CatalogTypes
  <2>2. PagingInv'
    BY <1>1, <1>2, <1>3 DEF PagingInv, Reads, Catalog!Present, Catalog!Place
  <2>3. FetchedInv'
    BY <1>1, <1>2, <1>3 DEF FetchedInv
  <2>4. JudgedInv'
    BY <1>1, <1>2, <1>3 DEF JudgedInv, Backed
  <2>5. QED
    BY <2>1, <2>2, <2>3, <2>4 DEF CatalogInv
<1>4. ASSUME NEW p \in Catalog!Listed, NEW m \in Models, NEW l \in Catalog!Levels,
             listing' = [listing EXCEPT ![p][m] = l], still' = still \ {p}, intact' = intact,
             offered' = IF wanted.at = 0 THEN offered ELSE [offered EXCEPT ![p] = @ \union {<<m, l>>}]
      PROVE  CatalogInv'
  <2>1. /\ \A q \in Catalog!Listed : q # p => listing'[q] = listing[q]
        /\ \A n \in Models : listing'[p][n] = IF n = m THEN l ELSE listing[p][n]
        /\ listing' \in [Catalog!Listed -> [Models -> Catalog!Levels]]
    <3>1. listing[p] \in [Models -> Catalog!Levels]
      BY <1>2 DEF CatalogTypes
    <3>2. [listing[p] EXCEPT ![m] = l] \in [Models -> Catalog!Levels]
      BY <3>1
    <3>3. listing' = [listing EXCEPT ![p] = [listing[p] EXCEPT ![m] = l]]
      BY <1>4
    <3>4. QED
      BY <1>2, <3>1, <3>2, <3>3 DEF CatalogTypes
  <2>2. \A q \in Catalog!Listed : offered[q] \subseteq offered'[q] /\ offered'[q] \in SUBSET Entries
    <3>1. <<m, l>> \in Entries
      BY DEF Entries
    <3>2. QED
      BY <1>2, <1>4, <3>1 DEF CatalogTypes
  <2>3. CatalogTypes'
    <3>1. offered' \in [Catalog!Listed -> SUBSET Entries]
      BY <1>2, <1>4, <2>2 DEF CatalogTypes
    <3>2. QED
      BY <1>1, <1>2, <1>4, <2>1, <3>1 DEF CatalogTypes
  <2>4. PagingInv'
    <3>1. CASE ~Reads
      BY <1>1, <1>2, <3>1 DEF PagingInv, Reads
    <3>2. CASE Reads
      <4>1. wanted.at > 0 /\ wanted.at # 0 /\ fetched["codex"] = Catalog!NoCatalog
        BY <1>2, <3>2 DEF PagingInv, CatalogTypes
      <4>2. "codex" \in Catalog!Listed
        BY DEF Catalog!Listed
      <4>3. \A n \in Models : <<n, listing'["codex"][n]>> \in offered'["codex"]
        <5>1. \A n \in Models : <<n, listing["codex"][n]>> \in offered["codex"]
          BY <1>2, <3>2 DEF PagingInv
        <5>2. CASE p = "codex"
          <6>1. <<m, l>> \in offered'["codex"]
            BY <1>2, <1>4, <4>1, <5>2 DEF CatalogTypes
          <6>2. QED
            BY <2>1, <2>2, <5>1, <5>2, <6>1
        <5>3. CASE p # "codex"
          BY <2>1, <2>2, <4>2, <5>1, <5>3
        <5>4. QED
          BY <5>2, <5>3
      <4>4. \A i \in 1 .. Len(paging.found) : paging.found[i] \in offered'["codex"]
        BY <1>2, <2>2, <3>2, <4>2 DEF PagingInv
      <4>5. ASSUME "codex" \in still'
            PROVE  /\ \A i \in 1 .. Len(paging.found) :
                         \E n \in Catalog!Present' : paging.found[i] = <<n, listing'["codex"][n]>>
                   /\ \A n \in Catalog!Present' :
                        paging.cursor = 0 \/ Catalog!Place(n)' < paging.cursor =>
                        \E i \in 1 .. Len(paging.found) : paging.found[i] = <<n, listing'["codex"][n]>>
        <5>1. p # "codex" /\ "codex" \in still
          BY <1>4, <4>5
        <5>2. listing'["codex"] = listing["codex"]
          BY <2>1, <4>2, <5>1
        <5>3. Catalog!Present' = Catalog!Present /\ \A n : Catalog!Place(n)' = Catalog!Place(n)
          BY <5>2 DEF Catalog!Present, Catalog!Place
        <5>4. QED
          BY <1>2, <3>2, <5>1, <5>2, <5>3 DEF PagingInv
      <4>6. QED
        BY <1>1, <3>2, <4>1, <4>3, <4>4, <4>5 DEF PagingInv, Reads
    <3>3. QED
      BY <3>1, <3>2
  <2>5. FetchedInv'
    <3> SUFFICES ASSUME NEW q \in Catalog!Listed
                 PROVE  /\ fetched[q] # Catalog!NoCatalog =>
                             \A n \in Models : fetched[q][n] # "absent"
                               => <<n, fetched[q][n]>> \in offered'[q]
                        /\ q \in still' => fetched[q] = Catalog!NoCatalog \/ fetched[q] = listing'[q]
      BY <1>1, <1>2 DEF FetchedInv
    <3>1. QED
      BY <1>2, <1>4, <2>1, <2>2 DEF FetchedInv
  <2>6. JudgedInv'
    <3>1. \A s : Backed(s) => Backed(s)'
      BY <2>2 DEF Backed
    <3>2. QED
      BY <1>1, <1>2, <3>1 DEF JudgedInv
  <2>7. QED
    BY <2>3, <2>4, <2>5, <2>6 DEF CatalogInv
<1>5. QED
  <2>1. CASE \E p \in intact : intact' = intact \ {p} /\ UNCHANGED <<listing, offered, still>>
    BY <1>3, <2>1
  <2>2. CASE \E p \in Catalog!Listed, m \in 1..MaxModels, l \in Catalog!Levels :
          /\ listing' = [listing EXCEPT ![p][m] = l] /\ still' = still \ {p} /\ intact' = intact
          /\ offered' = IF wanted.at = 0 THEN offered ELSE [offered EXCEPT ![p] = @ \union {<<m, l>>}]
    BY <1>4, <2>2 DEF Models
  <2>3. QED
    BY <2>1, <2>2, Zenon DEF Catalog!Shift

\* What is asked for is a sequence.
LEMMA AskedIsSeq ==
  ASSUME NEW w \in Catalog!Asked
  PROVE  Len(w) \in Nat \ {0} /\ DOMAIN w = 1 .. Len(w) /\ w # <<>>
         /\ \A r \in 1 .. Len(w) : w[r] \in Catalog!Selections
<1>1. PICK n \in {1, 3} : w \in [1 .. n -> Catalog!Selections]
  BY DEF Catalog!Asked
<1>2. w \in Seq(Catalog!Selections)
  BY <1>1, SeqDef
<1>3. Len(w) = n /\ DOMAIN w = 1 .. n
  BY <1>1, <1>2, LenProperties
<1>4. QED
  BY <1>1, <1>2, <1>3

\* The preflight begins.
LEMMA PreflightStep ==
  ASSUME MaxModels \in Nat \ {0, 1}, CatalogInv, Catalog!Preflight
  PROVE  CatalogInv'
<1>1. CatalogTypes /\ PagingInv /\ FetchedInv /\ JudgedInv
  BY DEF CatalogInv
<1>2. PICK w \in Catalog!Asked : wanted' = [of |-> w, at |-> 1]
  BY DEF Catalog!Preflight
<1>3. /\ wanted.of = <<>> /\ ruling = "none" /\ wanted.at = 0
      /\ UNCHANGED <<listing, intact, paging, fetched, offered, still, ruling>>
  BY <1>1 DEF Catalog!Preflight, JudgedInv
<1>4. wanted'.of = w /\ wanted'.at = 1 /\ 1 \in 0 .. Len(w) /\ w # <<>>
  BY <1>2, AskedIsSeq
<1>5. CatalogTypes'
  BY <1>1, <1>2, <1>3, <1>4 DEF CatalogTypes
<1>6. ~Reads /\ paging = Catalog!NoPaging /\ \A p \in Catalog!Listed : fetched[p] = Catalog!NoCatalog
  BY <1>1, <1>3 DEF PagingInv, FetchedInv
<1>7. PagingInv' /\ FetchedInv'
  BY <1>3, <1>6 DEF PagingInv, FetchedInv, Reads
<1>8. JudgedInv'
  BY <1>3, <1>4 DEF JudgedInv
<1>9. QED
  BY <1>5, <1>7, <1>8 DEF CatalogInv

\* A ruling is of something that was asked for.
LEMMA NeedsIsAsked ==
  ASSUME CatalogInv, wanted.at > 0
  PROVE  /\ wanted.of \in Catalog!Asked /\ wanted.at \in 1 .. Len(wanted.of) /\ Len(wanted.of) \in Nat
         /\ wanted.of # <<>> /\ Catalog!Current \in Catalog!Selections /\ ruling = "none"
<1>1. wanted.of # <<>> /\ ruling = "none"
  BY DEF CatalogInv, CatalogTypes, JudgedInv
<1>2. wanted.of \in Catalog!Asked
  BY <1>1 DEF CatalogInv, CatalogTypes
<1>3. Len(wanted.of) \in Nat /\ wanted.at \in 1 .. Len(wanted.of)
  BY <1>2, AskedIsSeq DEF CatalogInv, CatalogTypes
<1>4. QED
  BY <1>1, <1>2, <1>3, AskedIsSeq DEF Catalog!Current

\* What was read of an account, at once.
LEMMA AtOnceStep ==
  ASSUME MaxModels \in Nat \ {0, 1}, CatalogInv, NEW p \in Catalog!Listed, p # "codex", Catalog!AtOnce(p)
  PROVE  CatalogInv'
<1>1. CatalogTypes /\ PagingInv /\ FetchedInv /\ JudgedInv
  BY DEF CatalogInv
<1>2. /\ wanted.at > 0 /\ fetched[p] = Catalog!NoCatalog /\ paging = Catalog!NoPaging /\ p \in intact
      /\ offered' = [offered EXCEPT ![p] = Catalog!Offer(p)] /\ still' = still \union {p}
      /\ fetched' = [fetched EXCEPT ![p] = listing[p]]
      /\ UNCHANGED <<listing, intact, wanted, paging, ruling>>
  BY DEF Catalog!AtOnce, Catalog!Fresh, Catalog!Needs, Catalog!Discovers
<1>3. listing[p] \in [Models -> Catalog!Levels] /\ Catalog!Offer(p) \subseteq Entries
      /\ \A m \in Models : <<m, listing[p][m]>> \in Catalog!Offer(p)
  BY <1>1 DEF CatalogTypes, Catalog!Offer, Entries, Models
<1>4. CatalogTypes'
  <2>1. fetched' \in [Catalog!Listed -> [Models -> Catalog!Levels \union {"unread"}]]
    <3>1. listing[p] \in [Models -> Catalog!Levels \union {"unread"}]
      BY <1>3
    <3>2. QED
      BY <1>1, <1>2, <3>1 DEF CatalogTypes
  <2>2. offered' \in [Catalog!Listed -> SUBSET Entries]
    BY <1>1, <1>2, <1>3 DEF CatalogTypes
  <2>3. QED
    BY <1>1, <1>2, <2>1, <2>2 DEF CatalogTypes
<1>5. PagingInv'
  BY <1>2 DEF PagingInv, Reads, Catalog!NoPaging
<1>6. \A q \in Catalog!Listed : q # p => offered'[q] = offered[q] /\ fetched'[q] = fetched[q]
  BY <1>1, <1>2 DEF CatalogTypes
<1>7. offered'[p] = Catalog!Offer(p) /\ fetched'[p] = listing[p]
  BY <1>1, <1>2 DEF CatalogTypes
<1>8. FetchedInv'
  <2> SUFFICES ASSUME NEW q \in Catalog!Listed
               PROVE  /\ fetched'[q] # Catalog!NoCatalog =>
                           /\ wanted'.at > 0 /\ fetched'[q] \in [Models -> Catalog!Levels]
                           /\ \A m \in Models : fetched'[q][m] # "absent"
                                => <<m, fetched'[q][m]>> \in offered'[q]
                      /\ q \in still' => fetched'[q] = Catalog!NoCatalog \/ fetched'[q] = listing'[q]
    BY DEF FetchedInv
  <2>1. CASE q = p
    BY <1>2, <1>3, <1>7, <2>1
  <2>2. CASE q # p
    BY <1>1, <1>2, <1>6, <2>2 DEF FetchedInv
  <2>3. QED
    BY <2>1, <2>2
<1>9. JudgedInv'
  <2>1. ruling = "none"
    BY <1>2, NeedsIsAsked
  <2>2. \A r \in 1 .. Len(wanted.of) : r < wanted.at => wanted.of[r].provider # p
    BY <1>1, <1>2 DEF JudgedInv
  <2>3. ASSUME NEW r \in 1 .. Len(wanted.of), r < wanted.at
        PROVE  Backed(wanted.of[r])'
    <3>1. Backed(wanted.of[r]) /\ wanted.of[r].provider # p
      BY <1>1, <2>2, <2>3 DEF JudgedInv
    <3>2. wanted.of[r].provider \in Catalog!Listed
            => offered'[wanted.of[r].provider] = offered[wanted.of[r].provider]
      BY <1>6, <3>1
    <3>3. UNCHANGED wanted
      BY <1>2
    <3>4. QED
      BY <3>1, <3>2, <3>3 DEF Backed
  <2>4. QED
    BY <1>1, <1>2, <1>6, <2>1, <2>2, <2>3 DEF JudgedInv
<1>10. QED
  BY <1>4, <1>5, <1>8, <1>9 DEF CatalogInv

\* The first page of Codex's models is asked for.
LEMMA OpenListingStep ==
  ASSUME MaxModels \in Nat \ {0, 1}, CatalogInv, Catalog!OpenListing
  PROVE  CatalogInv'
<1>1. CatalogTypes /\ PagingInv /\ FetchedInv /\ JudgedInv
  BY DEF CatalogInv
<1>2. /\ wanted.at > 0 /\ fetched["codex"] = Catalog!NoCatalog /\ paging = Catalog!NoPaging
      /\ offered' = [offered EXCEPT !["codex"] = Catalog!Offer("codex")]
           /\ still' = still \union {"codex"}
      /\ paging' = [Catalog!NoPaging EXCEPT !.cursor = 1]
      /\ UNCHANGED <<listing, intact, wanted, fetched, ruling>>
  BY DEF Catalog!OpenListing, Catalog!Fresh, Catalog!Needs, Catalog!Discovers
<1>3. "codex" \in Catalog!Listed
  BY DEF Catalog!Listed
<1>4. /\ Catalog!Offer("codex") \subseteq Entries
      /\ \A m \in Models : <<m, listing["codex"][m]>> \in Catalog!Offer("codex")
  BY <1>1, <1>3 DEF CatalogTypes, Catalog!Offer, Entries, Models
<1>5. paging' = [cursor |-> 1, seen |-> {}, found |-> <<>>]
  BY <1>2 DEF Catalog!NoPaging
<1>6. paging'.cursor = 1 /\ paging'.found = <<>> /\ paging'.seen = {} /\ Reads'
  BY <1>5 DEF Reads
<1>7. CatalogTypes'
  <2>1. offered' \in [Catalog!Listed -> SUBSET Entries]
    BY <1>1, <1>2, <1>4 DEF CatalogTypes
  <2>2. still' \subseteq Catalog!Listed
    BY <1>1, <1>2, <1>3 DEF CatalogTypes
  <2>3. QED
    BY <1>1, <1>2, <1>5, <1>6, <2>1, <2>2 DEF CatalogTypes
<1>8. offered'["codex"] = Catalog!Offer("codex") /\
        \A q \in Catalog!Listed : q # "codex" => offered'[q] = offered[q]
  BY <1>1, <1>2, <1>3 DEF CatalogTypes
<1>9. PagingInv'
  <2>1. \A m \in Models : <<m, listing["codex"][m]>> \in offered'["codex"]
    BY <1>4, <1>8
  <2>2. \A m \in Catalog!Present : ~(Catalog!Place(m) < 1)
    BY Places
  <2>3. Catalog!Present' = Catalog!Present /\ \A m : Catalog!Place(m)' = Catalog!Place(m)
    BY <1>2 DEF Catalog!Present, Catalog!Place
  <2>4. \A i \in 1 .. Len(paging'.found) : FALSE
    BY <1>6
  <2>5. QED
    BY <1>2, <1>6, <2>1, <2>2, <2>3, <2>4 DEF PagingInv
<1>10. FetchedInv'
  BY <1>1, <1>2, <1>8 DEF FetchedInv
<1>11. JudgedInv'
  <2>1. ruling = "none"
    BY <1>1, <1>2, NeedsIsAsked
  <2>2. \A r \in 1 .. Len(wanted.of) : r < wanted.at => wanted.of[r].provider # "codex"
    BY <1>1, <1>2, <1>3 DEF JudgedInv
  <2>3. \A r \in 1 .. Len(wanted.of) : r < wanted.at => Backed(wanted.of[r])'
    BY <1>1, <1>2, <1>8, <2>2 DEF JudgedInv, Backed
  <2>4. QED
    BY <1>1, <1>2, <2>1, <2>3 DEF JudgedInv
<1>12. QED
  BY <1>7, <1>9, <1>10, <1>11 DEF CatalogInv

\* A page is what is listed at its cursor, and the next cursor is one further.
LEMMA PageStep ==
  ASSUME MaxModels \in Nat \ {0, 1}, CatalogInv, Catalog!Page
  PROVE  CatalogInv'
<1>1. CatalogTypes /\ PagingInv /\ FetchedInv /\ JudgedInv
  BY DEF CatalogInv
<1> DEFINE c == paging.cursor
           page == {m \in Catalog!Present : Catalog!Place(m) = c}
<1>2. PICK read \in IF page = {} THEN {<<>>} ELSE {<<<<m, listing["codex"][m]>>>> : m \in page} :
        paging' = [cursor |-> IF c < Cardinality(Catalog!Present) THEN c + 1 ELSE 0,
                   seen |-> paging.seen \union {c}, found |-> paging.found \o read]
  <2>1. Catalog!Cardinality(Catalog!Present) = Cardinality(Catalog!Present)
    BY SameCardinality
  <2>2. QED
    BY <2>1, Zenon DEF Catalog!Page
<1>3. c > 0 /\ c \in Nat /\ Reads
        /\ UNCHANGED <<listing, intact, wanted, fetched, offered, still, ruling>>
  BY <1>1 DEF Catalog!Page, Reads, CatalogTypes
<1>4. /\ paging'.cursor = IF c < Cardinality(Catalog!Present) THEN c + 1 ELSE 0
      /\ c \in paging'.seen /\ Reads' /\ paging'.found = paging.found \o read
  BY <1>2 DEF Reads
<1>5. "codex" \in Catalog!Listed /\ listing["codex"] \in [Models -> Catalog!Levels]
        /\ Catalog!Present \subseteq Models
  BY <1>1 DEF Catalog!Listed, CatalogTypes, Catalog!Present, Models
<1>6. Catalog!Present' = Catalog!Present /\ \A m : Catalog!Place(m)' = Catalog!Place(m)
  BY <1>3 DEF Catalog!Present, Catalog!Place
\* What the page adds: nothing, or the one model of its place.
<1>7. /\ (read = <<>> /\ page = {}) \/ \E m \in page : read = <<<<m, listing["codex"][m]>>>>
      /\ read \in Seq(Entries) /\ Len(read) \in {0, 1}
  <2>1. CASE page = {}
    BY <1>2, <2>1
  <2>2. CASE page # {}
    <3>1. PICK m \in page : read = <<<<m, listing["codex"][m]>>>>
      BY <1>2, <2>2
    <3>2. <<m, listing["codex"][m]>> \in Entries
      BY <1>5 DEF Entries
    <3>3. QED
      BY <3>1, <3>2
  <2>3. QED
    BY <2>1, <2>2
<1> DEFINE F == paging.found
           G == F \o read
<1>8. F \in Seq(Entries) /\ Len(F) \in Nat
  BY <1>1 DEF CatalogTypes
<1>9. /\ G \in Seq(Entries) /\ Len(G) = Len(F) + Len(read)
      /\ \A i \in 1 .. Len(F) : G[i] = F[i]
      /\ \A i \in 1 .. Len(G) : i \in 1 .. Len(F) \/ (Len(read) = 1 /\ G[i] = read[1])
      /\ Len(read) = 1 => G[Len(F) + 1] = read[1] /\ Len(F) + 1 \in 1 .. Len(G)
  <2>1. G \in Seq(Entries) /\ Len(G) = Len(F) + Len(read)
    BY <1>7, <1>8, ConcatProperties
  <2>2. \A i \in 1 .. Len(F) + Len(read) : G[i] = IF i <= Len(F) THEN F[i] ELSE read[i - Len(F)]
    BY <1>7, <1>8, ConcatProperties
  <2>3. \A i \in 1 .. Len(F) : G[i] = F[i]
    BY <1>7, <1>8, <2>2
  <2>4. \A i \in 1 .. Len(G) : i \in 1 .. Len(F) \/ (Len(read) = 1 /\ G[i] = read[1])
    <3> SUFFICES ASSUME NEW i \in 1 .. Len(G), i \notin 1 .. Len(F)
                 PROVE  Len(read) = 1 /\ G[i] = read[1]
      OBVIOUS
    <3>1. i \in 1 .. Len(F) + Len(read) /\ ~(i <= Len(F))
      BY <1>8, <2>1
    <3>2. Len(read) = 1 /\ i - Len(F) = 1
      <4>1. Len(read) = 0 \/ Len(read) = 1
        BY <1>7
      <4>2. Len(F) \in Nat
        BY <1>8
      <4>3. \A f, k \in Nat : k \in {0, 1} /\ i \in 1 .. f + k /\ ~(i <= f) => k = 1 /\ i - f = 1
        OBVIOUS
      <4> HIDE DEF F
      <4>4. QED
        BY <3>1, <4>1, <4>2, <4>3
    <3>3. QED
      BY <2>2, <3>1, <3>2
  <2>5. Len(read) = 1 => G[Len(F) + 1] = read[1] /\ Len(F) + 1 \in 1 .. Len(G)
    BY <1>7, <1>8, <2>1, <2>2
  <2>6. QED
    BY <2>1, <2>3, <2>4, <2>5
<1>10. CatalogTypes'
  <2>1. Cardinality(Catalog!Present) \in Nat
    BY Places
  <2>2. paging'.cursor \in Nat
    BY <1>3, <1>4, <2>1
  <2>3. paging'.found \in Seq(Entries)
    BY <1>4, <1>9
  <2>4. paging' = [cursor |-> paging'.cursor, seen |-> paging'.seen, found |-> paging'.found]
    BY <1>2
  <2>5. QED
    BY <1>1, <1>3, <2>2, <2>3, <2>4 DEF CatalogTypes
<1> HIDE DEF page, G, F
<1>11. Len(read) = 1 => \E m \in page : read[1] = <<m, listing["codex"][m]>>
  BY <1>7
<1>12. \A m \in page : m \in Catalog!Present /\ Catalog!Place(m) = c /\ m \in Models
  BY <1>5 DEF page
<1>13. PagingInv'
  <2>1. \A m \in Models : <<m, listing["codex"][m]>> \in offered["codex"]
    BY <1>1, <1>3 DEF PagingInv
  <2>2. \A i \in 1 .. Len(G) : G[i] \in offered["codex"]
    <3>1. \A i \in 1 .. Len(F) : F[i] \in offered["codex"]
      BY <1>1, <1>3 DEF PagingInv, F
    <3>2. QED
      BY <1>9, <1>11, <1>12, <2>1, <3>1
  <2>3. ASSUME "codex" \in still
        PROVE  /\ \A i \in 1 .. Len(G) : \E m \in Catalog!Present : G[i] = <<m, listing["codex"][m]>>
               /\ \A m \in Catalog!Present : paging'.cursor = 0 \/ Catalog!Place(m) < paging'.cursor =>
                    \E i \in 1 .. Len(G) : G[i] = <<m, listing["codex"][m]>>
    <3>1. /\ \A i \in 1 .. Len(F) : \E m \in Catalog!Present : F[i] = <<m, listing["codex"][m]>>
          /\ \A m \in Catalog!Present : Catalog!Place(m) < c =>
               \E i \in 1 .. Len(F) : F[i] = <<m, listing["codex"][m]>>
      BY <1>1, <1>3, <2>3 DEF PagingInv, F
    <3>2. \A i \in 1 .. Len(G) : \E m \in Catalog!Present : G[i] = <<m, listing["codex"][m]>>
      BY <1>9, <1>11, <1>12, <3>1
    <3>3. ASSUME NEW m \in Catalog!Present, paging'.cursor = 0 \/ Catalog!Place(m) < paging'.cursor
          PROVE  \E i \in 1 .. Len(G) : G[i] = <<m, listing["codex"][m]>>
      <4>1. Catalog!Place(m) \in 1 .. Cardinality(Catalog!Present)
              /\ Cardinality(Catalog!Present) \in Nat
        BY Places
      <4>2. Catalog!Place(m) < c \/ Catalog!Place(m) = c
        <5>1. CASE c < Cardinality(Catalog!Present)
          <6>1. paging'.cursor = c + 1
            BY <1>4, <5>1
          <6>2. QED
            BY <1>3, <3>3, <4>1, <6>1
        <5>2. CASE ~(c < Cardinality(Catalog!Present))
          BY <1>3, <4>1, <5>2
        <5>3. QED
          BY <5>1, <5>2
      <4>3. CASE Catalog!Place(m) < c
        <5>1. PICK i \in 1 .. Len(F) : F[i] = <<m, listing["codex"][m]>>
          BY <3>1, <4>3
        <5>2. i \in 1 .. Len(G) /\ G[i] = F[i]
          BY <1>7, <1>8, <1>9, <5>1
        <5>3. QED
          BY <5>1, <5>2
      <4>4. CASE Catalog!Place(m) = c
        <5>1. m \in page
          BY <4>4 DEF page
        <5>2. PICK n \in page : read = <<<<n, listing["codex"][n]>>>>
          BY <1>7, <5>1
        <5>3. n = m
          BY <1>12, <4>4, <5>2, Places
        <5>4. Len(read) = 1 /\ read[1] = <<m, listing["codex"][m]>>
          BY <5>2, <5>3
        <5>5. QED
          BY <1>9, <5>4
      <4>5. QED
        BY <4>2, <4>3, <4>4
    <3>4. QED
      BY <3>2, <3>3
  <2>4. paging'.found = G
    BY <1>4 DEF G, F
  <2>5. wanted.at > 0 /\ fetched["codex"] = Catalog!NoCatalog
    BY <1>1, <1>3 DEF PagingInv
  <2>6. QED
    BY <1>3, <1>4, <1>6, <2>1, <2>2, <2>3, <2>4, <2>5 DEF PagingInv
<1>14. FetchedInv'
  BY <1>1, <1>3 DEF FetchedInv
<1>15. JudgedInv'
  BY <1>1, <1>3 DEF JudgedInv, Backed
<1>16. QED
  BY <1>10, <1>13, <1>14, <1>15 DEF CatalogInv

\* The listing ends: what was read is the catalog, or the preflight is refused.
LEMMA CloseListingStep ==
  ASSUME MaxModels \in Nat \ {0, 1}, CatalogInv, Catalog!CloseListing
  PROVE  CatalogInv'
<1>1. CatalogTypes /\ PagingInv /\ FetchedInv /\ JudgedInv
  BY DEF CatalogInv
<1>2. /\ paging.seen # {} /\ Reads /\ UNCHANGED <<listing, intact, offered, still>>
  BY DEF Catalog!CloseListing, Reads
<1>3. wanted.at > 0 /\ fetched["codex"] = Catalog!NoCatalog
  BY <1>1, <1>2 DEF PagingInv
<1>4. wanted.of # <<>> /\ ruling = "none"
  BY <1>3, NeedsIsAsked
<1>5. CASE Catalog!Rules("refused")
  BY <1>2, <1>4, <1>5, RulesStep
<1>6. CASE Catalog!ReadAll /\ Catalog!Unique /\ ~Catalog!Rules("refused")
  <2> DEFINE F == paging.found
             E == Catalog!ToSet(F)
             Level(m) == IF \E e \in E : Catalog!ModelOf(e) = m
                         THEN (CHOOSE e \in E : Catalog!ModelOf(e) = m)[2] ELSE "absent"
  <2>1. /\ fetched' = [fetched EXCEPT !["codex"] = [m \in Models |-> Level(m)]]
        /\ paging' = Catalog!NoPaging /\ UNCHANGED <<wanted, ruling>>
    BY <1>6 DEF Catalog!CloseListing, Models
  <2>2. "codex" \in Catalog!Listed /\ listing["codex"] \in [Models -> Catalog!Levels]
    BY <1>1 DEF Catalog!Listed, CatalogTypes
  <2>3. F \in Seq(Entries) /\ E = {F[i] : i \in 1 .. Len(F)}
    <3>1. F \in Seq(Entries) /\ DOMAIN F = 1 .. Len(F)
      BY <1>1 DEF CatalogTypes
    <3>2. QED
      BY <3>1 DEF Catalog!ToSet
  <2>4. \A e \in E : e \in Entries /\ e \in offered["codex"]
    <3>1. \A i \in 1 .. Len(F) : F[i] \in Entries
      BY <2>3
    <3>2. \A i \in 1 .. Len(F) : F[i] \in offered["codex"]
      BY <1>1, <1>2 DEF PagingInv
    <3>3. QED
      BY <2>3, <3>1, <3>2
  <2> HIDE DEF E
  <2>5. \A m \in Models :
          \/ Level(m) = "absent" /\ ~\E e \in E : Catalog!ModelOf(e) = m
          \/ <<m, Level(m)>> \in E /\ Level(m) \in Catalog!Levels
    <3> SUFFICES ASSUME NEW m \in Models, \E e \in E : Catalog!ModelOf(e) = m
                 PROVE  <<m, Level(m)>> \in E /\ Level(m) \in Catalog!Levels
      OBVIOUS
    <3> DEFINE e == CHOOSE e \in E : Catalog!ModelOf(e) = m
    <3>1. e \in E /\ Catalog!ModelOf(e) = m
      OBVIOUS
    <3>2. Level(m) = e[2]
      OBVIOUS
    <3> HIDE DEF e
    <3>3. e \in Entries
      BY <2>4, <3>1
    <3>4. e = <<e[1], e[2]>> /\ e[2] \in Catalog!Levels
      BY <3>3 DEF Entries
    <3>5. QED
      BY <3>1, <3>2, <3>4 DEF Catalog!ModelOf
  <2> HIDE DEF Level
  <2>6. /\ fetched'["codex"] = [m \in Models |-> Level(m)]
        /\ \A p \in Catalog!Listed : p # "codex" => fetched'[p] = fetched[p]
    BY <1>1, <2>1, <2>2 DEF CatalogTypes
  <2>7. \A m \in Models : Level(m) \in Catalog!Levels
    BY <2>5 DEF Catalog!Levels
  <2>8. fetched'["codex"] \in [Models -> Catalog!Levels]
    BY <2>6, <2>7
  <2>9. CatalogTypes'
    <3>1. fetched'["codex"] \in [Models -> Catalog!Levels \union {"unread"}]
      BY <2>8
    <3>2. fetched' \in [Catalog!Listed -> [Models -> Catalog!Levels \union {"unread"}]]
      BY <1>1, <2>1, <2>6, <3>1 DEF CatalogTypes
    <3>3. paging'.cursor = 0 /\ paging'.found = <<>> /\ paging'.seen = {}
      BY <2>1 DEF Catalog!NoPaging
    <3>4. QED
      BY <1>1, <1>2, <2>1, <3>2, <3>3 DEF CatalogTypes, Catalog!NoPaging
  <2>10. PagingInv'
    BY <2>1 DEF PagingInv, Reads, Catalog!NoPaging
  \* An offer that has not changed was read whole.
  <2>11. ASSUME "codex" \in still
         PROVE  fetched'["codex"] = listing["codex"]
    <3>1. paging.cursor = 0
      BY <1>6 DEF Catalog!ReadAll
    <3>2. /\ \A i \in 1 .. Len(F) : \E m \in Catalog!Present : F[i] = <<m, listing["codex"][m]>>
          /\ \A m \in Catalog!Present : \E i \in 1 .. Len(F) : F[i] = <<m, listing["codex"][m]>>
      BY <1>1, <1>2, <2>11, <3>1 DEF PagingInv
    <3>3. ASSUME NEW m \in Models
          PROVE  Level(m) = listing["codex"][m]
      <4>1. CASE m \in Catalog!Present
        <5>1. PICK i \in 1 .. Len(F) : F[i] = <<m, listing["codex"][m]>>
          BY <3>2, <4>1
        <5>2. F[i] \in E /\ Catalog!ModelOf(F[i]) = m
          BY <2>3, <5>1 DEF Catalog!ModelOf
        <5>3. <<m, Level(m)>> \in E
          BY <2>5, <5>2
        <5>4. PICK j \in 1 .. Len(F) : F[j] = <<m, Level(m)>>
          BY <2>3, <5>3
        <5>5. PICK n \in Catalog!Present : F[j] = <<n, listing["codex"][n]>>
          BY <3>2
        <5>6. QED
          BY <5>4, <5>5
      <4>2. CASE m \notin Catalog!Present
        <5>1. listing["codex"][m] = "absent"
          BY <4>2 DEF Catalog!Present, Models
        <5>2. ASSUME <<m, Level(m)>> \in E
              PROVE  FALSE
          <6>1. PICK j \in 1 .. Len(F) : F[j] = <<m, Level(m)>>
            BY <2>3, <5>2
          <6>2. PICK n \in Catalog!Present : F[j] = <<n, listing["codex"][n]>>
            BY <3>2
          <6>3. QED
            BY <4>2, <6>1, <6>2
        <5>3. QED
          BY <2>5, <5>1, <5>2
      <4>3. QED
        BY <4>1, <4>2
    <3>4. QED
      BY <2>2, <2>6, <3>3
  <2>12. FetchedInv'
    <3> SUFFICES ASSUME NEW p \in Catalog!Listed
                 PROVE  /\ fetched'[p] # Catalog!NoCatalog =>
                             /\ wanted'.at > 0 /\ fetched'[p] \in [Models -> Catalog!Levels]
                             /\ \A m \in Models : fetched'[p][m] # "absent"
                                  => <<m, fetched'[p][m]>> \in offered'[p]
                        /\ p \in still' => fetched'[p] = Catalog!NoCatalog \/ fetched'[p] = listing'[p]
      BY DEF FetchedInv
    <3>1. CASE p = "codex"
      <4>1. \A m \in Models : fetched'[p][m] # "absent" => <<m, fetched'[p][m]>> \in offered'[p]
        <5> SUFFICES ASSUME NEW m \in Models, fetched'[p][m] # "absent"
                     PROVE  <<m, fetched'[p][m]>> \in offered'[p]
          OBVIOUS
        <5>1. fetched'[p][m] = Level(m)
          BY <2>6, <3>1
        <5>2. QED
          BY <1>2, <2>4, <2>5, <3>1, <5>1
      <4>2. QED
        BY <1>2, <1>3, <2>1, <2>8, <2>11, <3>1, <4>1
    <3>2. CASE p # "codex"
      <4>1. fetched'[p] = fetched[p]
        BY <2>6, <3>2
      <4>2. QED
        BY <1>1, <1>2, <2>1, <4>1 DEF FetchedInv
    <3>3. QED
      BY <3>1, <3>2
  <2>13. JudgedInv'
    <3>1. \A r \in 1 .. Len(wanted.of) : r < wanted.at => wanted.of[r].provider # "codex"
      BY <1>1, <1>3, <2>2 DEF JudgedInv
    <3>2. \A s : Backed(s) => Backed(s)'
      BY <1>2 DEF Backed
    <3>3. QED
      BY <1>1, <1>2, <2>1, <2>6, <3>1, <3>2 DEF JudgedInv
  <2>14. QED
    BY <2>9, <2>10, <2>12, <2>13 DEF CatalogInv
<1>7. QED
  BY <1>5, <1>6, Zenon DEF Catalog!CloseListing

\* One selection after the other is found on offer, or the preflight is refused.
LEMMA JudgeStep ==
  ASSUME MaxModels \in Nat \ {0, 1}, CatalogInv, Catalog!Judge
  PROVE  CatalogInv'
<1>1. CatalogTypes /\ PagingInv /\ FetchedInv /\ JudgedInv
  BY DEF CatalogInv
<1>2. wanted.at > 0 /\ \A p \in Catalog!Listed : ~Catalog!Needs(p)
  BY DEF Catalog!Judge
<1>3. /\ wanted.of \in Catalog!Asked /\ wanted.at \in 1 .. Len(wanted.of) /\ Len(wanted.of) \in Nat
      /\ wanted.of # <<>> /\ Catalog!Current \in Catalog!Selections /\ ruling = "none"
  BY <1>2, NeedsIsAsked
<1>4. UNCHANGED <<listing, intact, offered, still>>
  BY DEF Catalog!Judge
<1> DEFINE p == Catalog!Current.provider
           Refused == p \in Catalog!Listed /\ ~Catalog!OfferedNow(Catalog!Current, fetched[p])
<1>5. p \in Catalog!Listed => fetched[p] # Catalog!NoCatalog
  BY <1>2 DEF Catalog!Needs
<1>6. ASSUME ~Refused
      PROVE  Backed(Catalog!Current)
  <2> SUFFICES ASSUME p \in Catalog!Listed, Catalog!Current.model # 0
               PROVE  \E l \in Catalog!Levels \ {"absent"} :
                        <<Catalog!Current.model, l>> \in offered[p]
                          /\ (Catalog!Current.effort => l = "effort")
    BY DEF Backed
  <2>1. Catalog!OfferedNow(Catalog!Current, fetched[p])
    BY <1>6
  <2>2. Catalog!Current.model \in Models
    <3>1. Catalog!Current.model \in 0 .. 2
      <4>1. CASE Catalog!Current \in [provider : {"codex", "omp"}, model : 0 .. 2, effort : BOOLEAN]
        BY <4>1
      <4>2. CASE Catalog!Current \in [provider : {"claude", "api"}, model : {1}, effort : {FALSE}]
        BY <4>2
      <4>3. QED
        BY <1>3, <4>1, <4>2 DEF Catalog!Selections
    <3>2. QED
      BY <3>1 DEF Models
  <2>3. /\ fetched[p][Catalog!Current.model] # "absent"
             /\ fetched[p][Catalog!Current.model] \in Catalog!Levels
        /\ Catalog!Current.effort => fetched[p][Catalog!Current.model] = "effort"
        /\ <<Catalog!Current.model, fetched[p][Catalog!Current.model]>> \in offered[p]
    BY <1>1, <1>5, <2>1, <2>2 DEF FetchedInv, Catalog!OfferedNow
  <2>4. QED
    BY <2>3
<1>7. ASSUME ~Refused
      PROVE  \A r \in 1 .. Len(wanted.of) : r <= wanted.at => Backed(wanted.of[r])
  <2> SUFFICES ASSUME NEW r \in 1 .. Len(wanted.of), r <= wanted.at PROVE Backed(wanted.of[r])
    OBVIOUS
  <2>1. r < wanted.at \/ r = wanted.at
    BY <1>3
  <2>2. CASE r < wanted.at
    BY <1>1, <2>2 DEF JudgedInv
  <2>3. CASE r = wanted.at
    BY <1>6, <1>7, <2>3 DEF Catalog!Current
  <2>4. QED
    BY <2>1, <2>2, <2>3
<1>8. CASE Catalog!Rules("refused")
  BY <1>3, <1>4, <1>8, RulesStep
<1>9. CASE Catalog!Rules("allowed") /\ ~Refused /\ wanted.at = Len(wanted.of)
  <2>1. \A k \in 1 .. Len(wanted.of) : Backed(wanted.of[k])
    BY <1>3, <1>7, <1>9
  <2>2. QED
    BY <1>3, <1>4, <1>9, <2>1, RulesStep
<1>10. CASE ~Refused /\ wanted.at # Len(wanted.of) /\ wanted' = [wanted EXCEPT !.at = @ + 1]
            /\ UNCHANGED <<paging, fetched, ruling>>
  <2>1. /\ wanted' = [of |-> wanted.of, at |-> wanted.at + 1]
        /\ wanted'.of = wanted.of /\ wanted'.at = wanted.at + 1
    <3>1. wanted = [of |-> wanted.of, at |-> wanted.at]
      BY <1>1 DEF CatalogTypes
    <3>2. wanted' = [of |-> wanted.of, at |-> wanted.at + 1]
      BY <1>10, <3>1
    <3>3. QED
      BY <3>2
  <2>2. wanted.at + 1 \in 0 .. Len(wanted.of) /\ wanted.at + 1 > 0
    BY <1>3, <1>10
  <2>3. CatalogTypes'
    BY <1>1, <1>4, <1>10, <2>1, <2>2 DEF CatalogTypes
  <2>4. PagingInv'
    <3>1. Catalog!Present' = Catalog!Present /\ \A m : Catalog!Place(m)' = Catalog!Place(m)
      BY <1>4 DEF Catalog!Present, Catalog!Place
    <3>2. QED
      BY <1>1, <1>4, <1>10, <2>1, <2>2, <3>1 DEF PagingInv, Reads
  <2>5. FetchedInv'
    BY <1>1, <1>4, <1>10, <2>1, <2>2 DEF FetchedInv
  <2>6. JudgedInv'
    <3>1. \A r \in 1 .. Len(wanted.of) : r < wanted.at + 1 => r <= wanted.at
      BY <1>3
    <3>2. \A r \in 1 .. Len(wanted.of) : r < wanted.at + 1 => Backed(wanted.of[r])
      BY <1>7, <1>10, <3>1
    <3>3. \A s : Backed(s) => Backed(s)'
      BY <1>4 DEF Backed
    <3>4. \A r \in 1 .. Len(wanted.of) : r < wanted.at + 1 =>
            (wanted.of[r].provider \in Catalog!Listed
              => fetched[wanted.of[r].provider] # Catalog!NoCatalog)
      <4> SUFFICES ASSUME NEW r \in 1 .. Len(wanted.of), r <= wanted.at, wanted.of[r].provider \in Catalog!Listed
                   PROVE  fetched[wanted.of[r].provider] # Catalog!NoCatalog
        BY <3>1
      <4>1. r < wanted.at \/ r = wanted.at
        BY <1>3
      <4>2. CASE r < wanted.at
        BY <1>1, <4>2 DEF JudgedInv
      <4>3. CASE r = wanted.at
        BY <1>5, <4>3 DEF Catalog!Current
      <4>4. QED
        BY <4>1, <4>2, <4>3
    <3>5. QED
      BY <1>3, <1>10, <2>1, <3>2, <3>3, <3>4 DEF JudgedInv
  <2>7. QED
    BY <2>3, <2>4, <2>5, <2>6 DEF CatalogInv
<1>11. QED
  BY <1>8, <1>9, <1>10, Zenon DEF Catalog!Judge

\* Every step of the preflight keeps the invariant.
LEMMA CatalogStep ==
  ASSUME MaxModels \in Nat \ {0, 1}, CatalogInv, Catalog!CatalogNext
  PROVE  CatalogInv'
<1>1. CASE Catalog!Shift
  BY <1>1, ShiftStep
<1>2. CASE Catalog!Preflight
  BY <1>2, PreflightStep
<1>3. CASE Catalog!DiscoveryFails
  <2>1. wanted.at > 0
    BY <1>3 DEF Catalog!DiscoveryFails, Catalog!Needs
  <2>2. wanted.of # <<>>
    BY <2>1, NeedsIsAsked
  <2>3. Catalog!Rules("refused") /\ UNCHANGED <<listing, intact, offered, still>>
    BY <1>3 DEF Catalog!DiscoveryFails
  <2>4. QED
    BY <2>2, <2>3, RulesStep
<1>4. CASE Catalog!ListOmp
  BY <1>4, AtOnceStep DEF Catalog!ListOmp, Catalog!Listed
<1>5. CASE Catalog!ClaudeStatus
  BY <1>5, AtOnceStep DEF Catalog!ClaudeStatus, Catalog!Listed
<1>6. CASE Catalog!OpenListing
  BY <1>6, OpenListingStep
<1>7. CASE Catalog!Page
  BY <1>7, PageStep
<1>8. CASE Catalog!Repeats
  <2>1. wanted.at > 0
    <3>1. paging.cursor \in Nat /\ paging.cursor > 1
      BY <1>8 DEF Catalog!Repeats, CatalogInv, CatalogTypes
    <3>2. Reads
      BY <3>1 DEF Reads
    <3>3. QED
      BY <3>2 DEF CatalogInv, PagingInv
  <2>2. wanted.of # <<>>
    BY <2>1, NeedsIsAsked
  <2>3. Catalog!Rules("refused") /\ UNCHANGED <<listing, intact, offered, still>>
    BY <1>8 DEF Catalog!Repeats
  <2>4. QED
    BY <2>2, <2>3, RulesStep
<1>9. CASE Catalog!CloseListing
  BY <1>9, CloseListingStep
<1>10. CASE Catalog!Judge
  BY <1>10, JudgeStep
<1>11. QED
  BY <1>1, <1>2, <1>3, <1>4, <1>5, <1>6, <1>7, <1>8, <1>9, <1>10 DEF Catalog!CatalogNext

\* A preflight that stands still keeps the invariant.
LEMMA CatalogRests ==
  ASSUME CatalogInv, UNCHANGED catalogVars
  PROVE  CatalogInv'
<1>1. CatalogTypes'
  BY DEF CatalogInv, CatalogTypes, catalogVars
<1>2. PagingInv'
  BY DEF CatalogInv, PagingInv, Reads, Catalog!Present, Catalog!Place, catalogVars
<1>3. FetchedInv'
  BY DEF CatalogInv, FetchedInv, catalogVars
<1>4. JudgedInv'
  BY DEF CatalogInv, JudgedInv, Backed, catalogVars
<1>5. QED
  BY <1>1, <1>2, <1>3, <1>4 DEF CatalogInv

\* What a task starts with is on offer.
LEMMA CatalogHolds ==
  ASSUME CatalogInv
  PROVE  Catalog!CatalogIsFresh
<1>1. ASSUME ruling = "allowed", NEW r \in DOMAIN wanted.of
      PROVE  Backed(wanted.of[r])
  <2>1. wanted.of # <<>>
    BY <1>1 DEF CatalogInv, JudgedInv
  <2>2. wanted.of \in Catalog!Asked
    BY <2>1 DEF CatalogInv, CatalogTypes
  <2>3. r \in 1 .. Len(wanted.of)
    BY <1>1, <2>2, AskedIsSeq
  <2>4. QED
    BY <1>1, <2>3 DEF CatalogInv, JudgedInv
<1>2. \A p \in still : fetched[p] \in {Catalog!NoCatalog, listing[p]}
  BY DEF CatalogInv, CatalogTypes, FetchedInv
<1>3. QED
  BY <1>1, <1>2 DEF Catalog!CatalogIsFresh, Backed

-------------------------------------------------------------------------------
(* All of them together.                                                   *)

ProvidersInv == CliInv /\ SettingsInv /\ CatalogInv

\* A process that has not started, one that runs already and those that were never there.
LEMMA CliBegins ==
  ASSUME ProvidersAssumption, Cli!CliStart, Alone \/ Running
  PROVE  CliInv
<1>1. /\ First \in Sessions /\ Lines \in Nat \ {0}
      /\ kind \in [Sessions -> {"claude", "resume", "omp"}]
      /\ output = [s \in Sessions |-> <<>>] /\ line = [s \in Sessions |-> "none"]
      /\ lock = [s \in Sessions |-> "free"] /\ prompt = [s \in Sessions |-> "none"]
      /\ completed = {} /\ cancelling = {} /\ lost = {} /\ overlapped = {}
  BY DEF ProvidersAssumption, Cli!CliStart
<1>2. \A then, else : \A s \in Sessions : OnlyFirst(then, else)[s] = IF s = First THEN then ELSE else
  BY DEF OnlyFirst
<1>3. \A n, m \in Nat : OnlyFirst(n, m) \in [Sessions -> Nat]
  BY DEF OnlyFirst
<1>4. /\ process \in [Sessions -> {"none", "running", "good", "bad"}]
      /\ owner \in [Sessions -> CliOwners] /\ rd \in [Sessions -> CliReaders]
  <2>1. process \in [Sessions -> {"none", "running", "good", "bad"}]
    BY DEF Alone, Running, OnlyFirst
  <2>2. owner \in [Sessions -> CliOwners]
    BY DEF Alone, Running, OnlyFirst, CliOwners
  <2>3. rd \in [Sessions -> CliReaders]
    BY DEF Alone, Running, OnlyFirst, CliReaders
  <2>4. QED
    BY <2>1, <2>2, <2>3
<1>5. /\ written \in [Sessions -> Nat] /\ rows \in [Sessions -> Rows] /\ count \in [Sessions -> Nat]
  <2>1. Lines - 1 \in Nat /\ 0 \in Nat /\ 1 \in Nat
    BY <1>1
  <2>2. written = OnlyFirst(0, 0) \/ written = OnlyFirst(Lines - 1, Lines - 1)
    BY DEF Alone, Running
  <2>3. rows \in [Sessions -> Rows]
    BY <2>1 DEF Alone, Running, Rows
  <2>4. count = OnlyFirst(0, 0) \/ count = OnlyFirst(1, 0)
    BY DEF Alone, Running
  <2>5. QED
    BY <1>3, <2>1, <2>2, <2>3, <2>4
<1>6. events = <<>> \/ events = <<[seq |-> 1, event |-> [s |-> First, what |-> "started"]]>>
  BY DEF Alone, Running
<1>7. events \in Seq(CliEvents) /\ Len(events) \in {0, 1}
      /\ \A i \in 1 .. Len(events) : events[i].event.what = "started" /\ events[i].seq = 1
  <2>1. [seq |-> 1, event |-> [s |-> First, what |-> "started"]] \in CliEvents
    BY <1>1 DEF CliEvents, Told
  <2>2. CASE events = <<>>
    BY <2>2
  <2>3. CASE events = <<[seq |-> 1, event |-> [s |-> First, what |-> "started"]]>>
    BY <2>1, <2>3
  <2>4. QED
    BY <1>6, <2>2, <2>3
<1>8. CliTypes
  <2>1. /\ output \in [Sessions -> Seq(Said)] /\ line \in [Sessions -> Said \union {"none"}]
        /\ lock \in [Sessions -> {"free", "caller", "reader"}]
        /\ prompt \in [Sessions -> {"none", "pending", "yes", "no", "exit"}]
    BY <1>1
  <2>2. ready \subseteq Sessions /\ record \in [Sessions -> {"none", "own", "other"}]
    BY <1>1 DEF Alone, Running, OnlyFirst
  <2>3. QED
    BY <1>1, <1>4, <1>5, <1>7, <2>1, <2>2 DEF CliTypes
<1>9. \A s \in Sessions : lock[s] = "free" /\ output[s] = <<>> /\ line[s] = "none"
  BY <1>1
\* What each of them is at.
<1>10. \A s \in Sessions :
         \/ /\ owner[s] = "none" /\ rd[s] = "none" /\ process[s] = "none"
            /\ s \notin ready /\ record[s] = "none" /\ (\A m \in Cli!Names : rows[s][m] = 0) /\ count[s] = 0
         \/ /\ owner[s] = "running" /\ rd[s] = "reading" /\ s = First
            /\ s \in ready /\ record[s] = "own" /\ count[s] = 1
            /\ \A m \in Cli!Names : rows[s][m] <= 1
         \/ /\ owner[s] = "over" /\ rd[s] = "stopped" /\ kind[s] = "claude" /\ s # First
            /\ s \notin ready /\ record[s] = "none" /\ (\A m \in Cli!Names : rows[s][m] = 0) /\ count[s] = 0
  <2> SUFFICES ASSUME NEW s \in Sessions
               PROVE  \/ /\ owner[s] = "none" /\ rd[s] = "none" /\ process[s] = "none"
                         /\ s \notin ready /\ record[s] = "none" /\ (\A m \in Cli!Names : rows[s][m] = 0) /\ count[s] = 0
                      \/ /\ owner[s] = "running" /\ rd[s] = "reading" /\ s = First
                         /\ s \in ready /\ record[s] = "own" /\ count[s] = 1
                         /\ \A m \in Cli!Names : rows[s][m] <= 1
                      \/ /\ owner[s] = "over" /\ rd[s] = "stopped" /\ kind[s] = "claude" /\ s # First
                         /\ s \notin ready /\ record[s] = "none" /\ (\A m \in Cli!Names : rows[s][m] = 0) /\ count[s] = 0
    OBVIOUS
  <2>1. CASE Alone
    BY <1>2, <2>1 DEF Alone
  <2>2. CASE Running
    BY <1>2, <2>2 DEF Running
  <2>3. QED
    BY <2>1, <2>2
<1>11. \A s \in Sessions : SessionInv(s)
  BY <1>9, <1>10 DEF SessionInv
<1>12. \A s \in Sessions : ReaderInv(s)
  BY <1>1, <1>9, <1>10 DEF ReaderInv, Cli!IsOmp
<1>13. CountInv
  <2>1. ASSUME NEW s \in Sessions, Cli!Live(s)
        PROVE  s = First
    BY <1>10, <2>1 DEF Cli!Live, Cli!Over
  <2>2. ASSUME NEW s \in Sessions, Cli!Live(s)
        PROVE  count[s] = 1 \/ events = <<>>
    BY <1>1, <1>2, <2>1, <2>2 DEF Alone, Running
  <2>3. Cli!LastNumber(events) = 0 \/ (Cli!LastNumber(events) = 1 /\ events # <<>>)
    BY <1>6 DEF Cli!LastNumber
  <2>4. events = <<>> => Cli!LastNumber(events) = 0
    BY DEF Cli!LastNumber
  <2>5. ASSUME NEW s \in Sessions, Cli!Live(s)
        PROVE  Cli!LastNumber(events) <= count[s]
    <3>1. count[s] \in Nat
      BY <1>5
    <3>2. QED
      BY <2>2, <2>3, <2>4, <2>5, <3>1
  <2>6. QED
    BY <1>1, <2>1, <2>5 DEF CountInv
<1>14. OverInv
  BY <1>7 DEF OverInv
<1>15. Cli!OutcomeHasEvidence
  BY <1>7 DEF Cli!OutcomeHasEvidence
<1>16. QED
  BY <1>8, <1>11, <1>12, <1>13, <1>14, <1>15 DEF CliInv

\* Processes that stand still keep the invariant.
LEMMA CliRests == ASSUME CliInv, UNCHANGED cliVars PROVE CliInv'
<1> USE DEF cliVars
<1>1. CliTypes'
  BY DEF CliInv, CliTypes
<1>2. \A s \in Sessions : SessionInv(s)' /\ ReaderInv(s)'
  BY DEF CliInv, SessionInv, ReaderInv, HasEvent, Cli!IsOmp, Cli!Gone
<1>3. CountInv'
  BY DEF CliInv, CountInv, Cli!Live, Cli!LastNumber
<1>4. OverInv'
  BY DEF CliInv, OverInv
<1>5. Cli!OutcomeHasEvidence'
  BY DEF CliInv, Cli!OutcomeHasEvidence, Cli!Succeeded, Cli!IsOmp
<1>6. QED
  BY <1>1, <1>2, <1>3, <1>4, <1>5 DEF CliInv

\* So do settings that stand still.
LEMMA SettingsRest == ASSUME SettingsInv, UNCHANGED settingsVars PROVE SettingsInv'
BY DEF SettingsInv, settingsVars

\* Nothing has happened yet.
LEMMA ProvidersBegin == ASSUME Init PROVE ProvidersInv
<1>1. CliInv
  BY CliBegins, ProvidersAssumption DEF Init
<1>2. SettingsInv
  BY SettingsInit DEF Init
<1>3. CatalogInv
  BY CatalogInit, ProvidersAssumption DEF Init, ProvidersAssumption
<1>4. QED
  BY <1>1, <1>2, <1>3 DEF ProvidersInv

\* One of them moves, the others rest.
LEMMA ProvidersStep ==
  ASSUME ProvidersInv,
         [Next]_<<focus, appVars, cliVars, apiVars, chatVars, settingsVars, catalogVars>>
  PROVE  ProvidersInv'
<1>1. Cli!CliNext \/ UNCHANGED cliVars
  BY DEF Next
<1>2. Settings!SettingsNext \/ UNCHANGED settingsVars
  BY DEF Next
<1>3. Catalog!CatalogNext \/ UNCHANGED catalogVars
  BY DEF Next
<1>4. CliInv'
  BY <1>1, CliStep, CliRests DEF ProvidersInv
<1>5. SettingsInv'
  BY <1>2, SettingsStep, SettingsRest DEF ProvidersInv
<1>6. CatalogInv'
  BY <1>3, CatalogStep, CatalogRests, ProvidersAssumption DEF ProvidersInv, ProvidersAssumption
<1>7. QED
  BY <1>4, <1>5, <1>6 DEF ProvidersInv

\* The invariants hold in every state, whichever of the components moves.
THEOREM ProvidersInvariance == Spec => []ProvidersInv
<1>1. Init => ProvidersInv
  BY ProvidersBegin
<1>2. ProvidersInv /\ [Next]_<<focus, appVars, cliVars, apiVars, chatVars, settingsVars, catalogVars>>
        => ProvidersInv'
  BY ProvidersStep
<1>3. QED
  BY <1>1, <1>2, PTL DEF Spec

\* An outcome that is stored is what was read of the process (wait_for_exit, cancel), and the
\* store refuses an event (append_task_event) of a process only if another one of the task
\* could store events while it ran.
THEOREM ProcessesAreAccountedFor == Spec => []ProcessIsAccountedFor
<1>1. ProvidersInv => ProcessIsAccountedFor
  BY CliHolds DEF ProvidersInv, ProcessIsAccountedFor
<1>2. QED
  BY <1>1, ProvidersInvariance, PTL

\* What a task starts with is what was saved (save_provider_settings and the runtime it
\* replaces) and what its providers offer (preflight_workflow_configuration).
THEOREM SettingsStayAgreed == Spec => []SettingsAgree
<1>1. ProvidersInv => SettingsAgree
  BY SettingsHold, CatalogHolds DEF ProvidersInv, SettingsAgree
<1>2. QED
  BY <1>1, ProvidersInvariance, PTL

===============================================================================
