----------------------------- MODULE AppServer_proof ---------------------------
(***************************************************************************)
(* What is said of a turn follows its start in the log and its end is not  *)
(* lost, and a request is settled with what was said and forgotten: for    *)
(* any number of turns, requests and frames, any room in the channel and   *)
(* in the map, and any writes the store refuses.                           *)
(*                                                                         *)
(* The caller and the worker share nothing but the channel, so that the    *)
(* invariant is about the commands on their way: from the moment a turn is *)
(* asked for to the moment its start is stored and what was held back is   *)
(* handled, either the worker holds the thread's notifications back and    *)
(* only harmless commands are on their way, or it will hold them back      *)
(* before it meets the first one of that turn.                             *)
(***************************************************************************)
EXTENDS AppServer, FiniteSetTheorems, SequenceTheorems,
        WellFoundedInduction, TLAPS

\* A connection that is being initialized, or one that resumes a thread with
\* turns behind it, some of the child's frames written and some failures had.
AppBegin ==
  /\ AppStart
  /\ turn \in 0..Turns /\ wrote \in 0..Frames /\ failures \in 0..Faults
  /\ \/ caller = "ask" /\ asking = "initialize"
     \/ caller = "idle" /\ asking = "none"

AppSpec == AppBegin /\ [][AppNext]_appVars

\* What the sequences hold.
FrameSet == [type : {"answer", "note", "bad"}, id : Nat, ok : BOOLEAN,
             note : Notes \union {Diagnostic}]
Requests == [id : Nat, kind : {"initialize", "turn", "interrupt"}, turn : Nat]
Replies  == {"none", "ok", "error", "exit", "capacity"}
Commands == [op : {"event", "diagnostic", "activate", "clear", "flush"},
             note : Notes \union {Diagnostic}]
Rows     == [seq : Nat,
             event : [thread : {"thread", "none"},
                      method : Methods \union {"account", "turn_started",
                                               "cancelled", "diagnostic"},
                      turn : Nat]]

WireTypes ==
  /\ server \in {"running", "gone"} /\ wrote \in 0..Frames
  /\ eof \in {"reading", "drained", "done"}
  /\ watch \in {"waiting", "drained", "done"}
  /\ pipe \in Seq(FrameSet) /\ heard \subseteq Requests
  /\ told \subseteq [id : Nat, ok : BOOLEAN]
  /\ \A i \in 1..Len(pipe) : pipe[i].id \in 0..lastId
  /\ \A i \in 1..Len(pipe) : pipe[i].type = "note" => pipe[i].note \in Notes
  /\ \A r \in heard : r.id \in 1..lastId
  /\ \A a \in told : a.id \in 1..lastId

CallTypes ==
  /\ lastId \in Nat /\ turn \in 0..Turns /\ started \subseteq 1..turn
  /\ caller \in {"idle", "ask", "write", "wait", "record", "failed", "flush",
                 "flushing", "stopping", "closed"}
  /\ asking \in {"none", "initialize", "turn", "interrupt"}
  /\ caller \in {"ask", "write", "wait", "record"} => asking # "none"
  /\ pending \subseteq 1..lastId /\ Cardinality(pending) <= MaxPending
  /\ reply \in Seq(Replies) /\ Len(reply) = lastId
  /\ caller \in {"write", "wait"} => lastId # 0

QueueTypes ==
  /\ queue \in Seq(Commands) /\ Len(queue) <= QueueLimit
  /\ \A i \in 1..Len(queue) : queue[i].op = "event" => queue[i].note \in Notes

WorkTypes ==
  /\ held \in {"none", "thread"} /\ buffered \in Seq(Notes)
  /\ seen \subseteq Notes /\ passed \subseteq Notes
  /\ seq \in Nat /\ failures \in 0..Faults
  /\ log \in Seq(Rows) /\ \A i \in 1..Len(log) : log[i].seq \in 1..seq

\* One flush is on its way at most, and the caller waits for it.
FlushInv ==
  /\ \A i \in 1..Len(queue) : queue[i].op = "flush" => caller = "flushing"
  /\ \A i, j \in 1..Len(queue) :
       queue[i].op = "flush" /\ queue[j].op = "flush" => i = j
  /\ caller \in {"flush", "flushing"} => asking = "turn"
  /\ asking = "turn" => turn # 0

Types == WireTypes /\ CallTypes /\ QueueTypes /\ WorkTypes /\ FlushInv

-------------------------------------------------------------------------------
\* What the assumption on the constants says, one by one.
LEMMA AppBounds ==
  /\ Turns \in Nat /\ Calls \in Nat /\ Frames \in Nat /\ Faults \in Nat
  /\ QueueLimit \in Nat /\ MaxPending \in Nat /\ MaxPending # 0
BY AppAssumption DEF AppAssumption

\* A sequence after its first element is gone, or one more has come.
LEMMA TailOf ==
  ASSUME NEW S, NEW s \in Seq(S), s # << >>
  PROVE  /\ Head(s) = s[1] /\ Head(s) \in S /\ Len(s) \in Nat /\ Len(s) >= 1
         /\ Tail(s) \in Seq(S) /\ Len(Tail(s)) = Len(s) - 1
         /\ \A i \in 1..Len(s) - 1 : Tail(s)[i] = s[i + 1]
<1>1. Len(s) \in Nat \ {0}
  BY EmptySeq
<1>2. Head(s) = s[1]
  BY DEF Head
<1>3. QED
  BY <1>1, <1>2, HeadTailProperties

LEMMA AppendOf ==
  ASSUME NEW S, NEW s \in Seq(S), NEW e \in S
  PROVE  /\ Append(s, e) \in Seq(S) /\ Len(s) \in Nat
         /\ Len(Append(s, e)) = Len(s) + 1
         /\ \A i \in 1..Len(s) : Append(s, e)[i] = s[i]
         /\ Append(s, e)[Len(s) + 1] = e
BY AppendProperties, LenProperties

\* The channel after a command was sent, and after one was taken.
LEMMA Sends ==
  ASSUME QueueTypes, NEW op \in {"diagnostic", "activate", "clear", "flush"},
         Send(Command(op))
  PROVE  /\ QueueTypes' /\ Len(queue') = Len(queue) + 1 /\ Len(queue) \in Nat
         /\ \A i \in 1..Len(queue) : queue'[i] = queue[i]
         /\ queue'[Len(queue) + 1].op = op
<1>1. Command(op) \in Commands /\ Command(op).op = op
  BY DEF Command, Commands
<1> HIDE DEF Commands
<1>2. /\ queue' \in Seq(Commands) /\ Len(queue) \in Nat
      /\ Len(queue') = Len(queue) + 1
      /\ \A i \in 1..Len(queue) : queue'[i] = queue[i]
      /\ queue'[Len(queue) + 1] = Command(op)
  BY <1>1, AppendOf DEF Send, QueueTypes
<1>3. QED
  BY <1>1, <1>2, AppBounds DEF QueueTypes, Send, Room

LEMMA SendsNote ==
  ASSUME QueueTypes, NEW note \in Notes, Send(Event(note))
  PROVE  /\ QueueTypes' /\ Len(queue') = Len(queue) + 1 /\ Len(queue) \in Nat
         /\ \A i \in 1..Len(queue) : queue'[i] = queue[i]
         /\ queue'[Len(queue) + 1] = Event(note)
<1>1. Event(note) \in Commands /\ Event(note).note = note
  BY DEF Event, Commands
<1> HIDE DEF Commands
<1>2. /\ queue' \in Seq(Commands) /\ Len(queue) \in Nat
      /\ Len(queue') = Len(queue) + 1
      /\ \A i \in 1..Len(queue) : queue'[i] = queue[i]
      /\ queue'[Len(queue) + 1] = Event(note)
  BY <1>1, AppendOf DEF Send, QueueTypes
<1>3. QED
  BY <1>1, <1>2, AppBounds DEF QueueTypes, Send, Room

LEMMA Takes ==
  ASSUME QueueTypes, queue # << >>, queue' = Tail(queue)
  PROVE  /\ QueueTypes' /\ Len(queue') = Len(queue) - 1
         /\ Len(queue) \in Nat /\ Len(queue) >= 1
         /\ \A i \in 1..Len(queue) - 1 : queue'[i] = queue[i + 1]
         /\ Head(queue) = queue[1]
<1>1. /\ queue' \in Seq(Commands) /\ Len(queue') = Len(queue) - 1
      /\ Len(queue) \in Nat /\ Len(queue) >= 1
      /\ \A i \in 1..Len(queue) - 1 : queue'[i] = queue[i + 1]
      /\ Head(queue) = queue[1]
  BY TailOf DEF QueueTypes
<1>2. \A i \in 1..Len(queue') : i + 1 \in 1..Len(queue) /\ queue'[i] = queue[i + 1]
  BY <1>1
<1>3. Len(queue') <= QueueLimit
  BY <1>1, AppBounds DEF QueueTypes
<1>4. QED
  BY <1>1, <1>2, <1>3 DEF QueueTypes

\* The channel is sent to, taken from or left alone.
LEMMA QueueTypesStep ==
  ASSUME Types, [AppNext]_appVars
  PROVE  QueueTypes'
<1> USE DEF Types
<1>1. CASE queue' = queue
  BY <1>1 DEF QueueTypes
<1>2. CASE Complain \/ ReadEndClear \/ ExitClear \/ StartTurn \/ Shutdown
           \/ AskFlush \/ (GiveUp /\ queue' # queue)
  BY <1>2, Sends
  DEF Complain, ReadEndClear, ExitClear, StartTurn, Shutdown, AskFlush, GiveUp
<1>3. CASE PassNote
  <2>1. Head(pipe) = pipe[1] /\ Len(pipe) \in Nat /\ Len(pipe) >= 1
    BY <1>3, TailOf DEF PassNote, WireTypes
  <2>2. Frame.note \in Notes
    BY <1>3, <2>1 DEF PassNote, Frame, WireTypes
  <2>3. QED
    BY <1>3, <2>2, SendsNote DEF PassNote
<1>4. CASE WorkNote \/ WorkDiagnostic \/ WorkActivate \/ WorkClear \/ WorkFlush
  BY <1>4, Takes
  DEF WorkNote, WorkDiagnostic, WorkActivate, WorkClear, WorkFlush, Is
<1>5. CASE UNCHANGED appVars
  BY <1>5, <1>1 DEF appVars
<1>6. CASE ChildWrites \/ ChildDies \/ Settle \/ ReadEnd \/ ExitSeen
           \/ Interrupt \/ Register \/ Write \/ TimesOut \/ Hears \/ Closed
           \/ Record
  BY <1>6, <1>1
  DEF ChildWrites, ChildDies, Settle, ReadEnd, ExitSeen, Interrupt, Register,
      Write, TimesOut, Hears, Closed, Record
<1>7. QED
  BY <1>1, <1>2, <1>3, <1>4, <1>5, <1>6 DEF AppNext

-------------------------------------------------------------------------------
\* The log after an event was offered: it is numbered above what is there, so
\* that only a failing store keeps it out.
Happening == [thread : {"thread", "none"},
              method : Methods \union {"account", "turn_started", "cancelled",
                                       "diagnostic"},
              turn : Nat]

LEMMA Happenings ==
  /\ Notes \subseteq Happening /\ Diagnostic \in Happening
  /\ \A t \in Nat : TurnStarted(t) \in Happening /\ Cancelled(t) \in Happening
  /\ \A t \in Nat : TurnStarted(t) \notin Notes /\ Cancelled(t) \notin Notes
  /\ Diagnostic \notin Notes
BY AppBounds
DEF Happening, Notes, Methods, Diagnostic, TurnStarted, Cancelled

LEMMA Emits ==
  ASSUME WorkTypes, NEW e \in Happening, Emit(e)
  PROVE  /\ seq' \in Nat /\ failures' \in 0..Faults
         /\ log' \in Seq(Rows) /\ \A i \in 1..Len(log') : log'[i].seq \in 1..seq'
         /\ Len(log) \in Nat
         /\ \/ /\ failures' = failures /\ Len(log') = Len(log) + 1
               /\ \A i \in 1..Len(log) : log'[i] = log[i]
               /\ log'[Len(log) + 1].event = e
            \/ failures' = failures + 1 /\ log' = log
<1> DEFINE row == [seq |-> seq + 1, event |-> e]
<1>1. Len(log) \in Nat /\ seq \in Nat /\ failures \in 0..Faults /\ Faults \in Nat
  BY LenProperties, AppBounds DEF WorkTypes
<1>2. row \in Rows /\ row.event = e /\ row.seq = seq + 1
  BY <1>1 DEF Rows, Happening
<1>3. seq' = seq + 1
  BY DEF Emit
<1>4. CASE failures' = failures + 1 /\ log' = log /\ failures < Faults
  BY <1>1, <1>3, <1>4 DEF WorkTypes
<1>5. CASE log' = Offer(log, seq + 1, e) /\ failures' = failures
  <2>1. Fits(log, seq + 1)
    <3>1. CASE log = << >>
      BY <1>1, <3>1 DEF Fits, LastNumber
    <3>2. CASE log # << >>
      <4>1. Len(log) \in 1..Len(log)
        BY <3>2, EmptySeq DEF WorkTypes
      <4>2. QED
        BY <1>1, <3>2, <4>1 DEF Fits, LastNumber, WorkTypes
    <3>3. QED
      BY <3>1, <3>2
  <2>2. log' = Append(log, row)
    BY <1>5, <2>1 DEF Offer
  <2> HIDE DEF row, Rows
  <2>3. /\ log' \in Seq(Rows) /\ Len(log') = Len(log) + 1
        /\ \A i \in 1..Len(log) : log'[i] = log[i]
        /\ log'[Len(log) + 1] = row
    BY <1>2, <2>2, AppendOf DEF WorkTypes
  <2>4. \A i \in 1..Len(log') : log'[i].seq \in 1..seq'
    <3>1. \A i \in 1..Len(log') : i \in 1..Len(log) \/ i = Len(log) + 1
      BY <1>1, <2>3
    <3>2. \A i \in 1..Len(log) : log'[i].seq \in 1..seq'
      BY <1>1, <1>3, <2>3 DEF WorkTypes
    <3>3. log'[Len(log) + 1].seq \in 1..seq'
      BY <1>1, <1>2, <1>3, <2>3
    <3>4. QED
      BY <3>1, <3>2, <3>3
  <2>5. QED
    BY <1>1, <1>2, <1>3, <1>5, <2>3, <2>4
<1>6. QED
  BY <1>4, <1>5 DEF Emit

\* What that means for the events: nothing goes, and nothing slips in before
\* what is there.
LEMMA Adds ==
  ASSUME WorkTypes, NEW e \in Happening, Emit(e)
  PROVE  /\ failures' = failures => Stored' = Stored \union {e}
         /\ failures' # failures => Stored' = Stored
         /\ failures' # failures => failures' # 0
         /\ \A a, b \in Happening :
              Before(a, b)' => Before(a, b) \/ (a \in Stored /\ b = e)
<1>1. Len(log) \in Nat /\ failures \in Nat
  BY LenProperties, AppBounds DEF WorkTypes
<1>2. CASE /\ failures' = failures /\ Len(log') = Len(log) + 1
           /\ \A i \in 1..Len(log) : log'[i] = log[i]
           /\ log'[Len(log) + 1].event = e
  <2>1. \A i \in 1..Len(log') : i \in 1..Len(log) \/ i = Len(log) + 1
    BY <1>1, <1>2
  <2>2. Len(log) + 1 \in 1..Len(log') /\ 1..Len(log) \subseteq 1..Len(log')
    BY <1>1, <1>2
  <2>3. Stored' = Stored \union {e}
    BY <1>2, <2>1, <2>2 DEF Stored
  <2>4. ASSUME NEW a \in Happening, NEW b \in Happening, Before(a, b)'
        PROVE  Before(a, b) \/ (a \in Stored /\ b = e)
    <3>1. PICK i \in 1..Len(log'), j \in 1..Len(log') :
            i < j /\ log'[i].event = a /\ log'[j].event = b
      BY <2>4 DEF Before
    <3>2. i \in 1..Len(log)
      BY <1>1, <1>2, <3>1
    <3>3. CASE j \in 1..Len(log)
      BY <1>2, <3>1, <3>2, <3>3 DEF Before
    <3>4. CASE j = Len(log) + 1
      BY <1>2, <3>1, <3>2, <3>4 DEF Stored
    <3>5. QED
      BY <2>1, <3>3, <3>4
  <2>5. QED
    BY <1>2, <2>3, <2>4
<1>3. CASE failures' = failures + 1 /\ log' = log
  BY <1>1, <1>3 DEF Stored, Before
<1>4. QED
  BY <1>2, <1>3, Emits

\* An element of a sequence has a first place in it.
LEMMA FirstPlace ==
  ASSUME NEW S, NEW s \in Seq(S), NEW n \in 1..Len(s)
  PROVE  \E m \in 1..Len(s) : s[m] = s[n] /\ \A j \in 1..m - 1 : s[j] # s[n]
<1> DEFINE T == {m \in 1..Len(s) : s[m] = s[n]}
           R == {ss \in Nat \X Nat : ss[1] < ss[2]}
<1>1. Len(s) \in Nat
  BY LenProperties
<1>2. IsWellFoundedOn(R, Nat)
  BY NatLessThanWellFounded DEF OpToRel
<1>3. T \subseteq Nat /\ T # {}
  BY <1>1
<1>4. PICK m \in T : \A y \in T : ~(<<y, m>> \in R)
  <2> HIDE DEF R, T
  <2>1. QED
    BY <1>2, <1>3, WFMin
<1>5. \A j \in 1..m - 1 : j \in 1..Len(s) /\ <<j, m>> \in R
  BY <1>1, <1>4
<1>6. QED
  BY <1>4, <1>5

\* What the worker was holding back is handled in order, as far as the store
\* takes it: all of it is stored unless an event is lost.
LEMMA Replays ==
  ASSUME WorkTypes, Replay
  PROVE  /\ held' = "none" /\ buffered' \in Seq(Notes) /\ caller' = "idle"
         /\ seen \subseteq seen' /\ seen' \subseteq Notes /\ seq' \in Nat
         /\ failures' \in 0..Faults
         /\ log' \in Seq(Rows) /\ \A i \in 1..Len(log') : log'[i].seq \in 1..seq'
         /\ \A i \in 1..Len(buffered') : \E j \in 1..Len(buffered) : buffered'[i] = buffered[j]
         /\ \A n \in seen' : n \in seen \/ \E j \in 1..Len(buffered) : buffered[j] = n
         /\ \A e \in Stored' : e \in Stored \/ \E j \in 1..Len(buffered) : buffered[j] = e
         /\ Stored \subseteq Stored'
         /\ \A a \in Happening, b \in Happening \ Notes : Before(a, b)' => Before(a, b)
         /\ \/ started' = started \union {turn} /\ failures' = failures
            \/ started' = started /\ failures' = failures + 1
         /\ failures' = failures =>
              /\ \A n \in seen' : n \in seen \/ n \in Stored'
              /\ held = "thread" =>
                   \A i \in 1..Len(buffered) : buffered[i] \in seen \/ buffered[i] \in Stored'
<1> DEFINE mine  == IF held = "thread" THEN buffered ELSE << >>
           fresh == {i \in 1..Len(mine) : /\ mine[i] \notin seen
                                          /\ \A j \in 1..i - 1 : mine[j] # mine[i]}
           size  == Cardinality(fresh)
<1>1. /\ mine \in Seq(Notes) /\ Len(mine) \in Nat /\ Len(log) \in Nat
      /\ seq \in Nat /\ failures \in Nat /\ Faults \in Nat /\ failures <= Faults
      /\ \A i \in 1..Len(mine) : mine[i] \in Notes
      /\ \A i \in 1..Len(mine) : i \in 1..Len(buffered) /\ mine[i] = buffered[i]
      /\ held = "thread" => mine = buffered
  BY LenProperties, ElementOfSeq, EmptySeq, AppBounds DEF WorkTypes
<1>2. IsFiniteSet(fresh) /\ size \in Nat
  <2>1. IsFiniteSet(1..Len(mine))
    BY <1>1, FS_Interval
  <2>2. QED
    BY <2>1, FS_Subset, FS_CardinalityType
<1>3. PICK order \in Bijection(1..size, fresh), k \in 0..size :
        /\ k < size => failures < Faults
        /\ failures' = IF k < size THEN failures + 1 ELSE failures
        /\ seen' = seen \union {mine[order[i]] : i \in 1..(IF k < size THEN k + 1 ELSE k)}
        /\ seq' = seq + (IF k < size THEN k + 1 ELSE k)
        /\ log' = log \o [i \in 1..k |-> [seq |-> seq + i, event |-> mine[order[i]]]]
        /\ started' = IF k < size THEN started ELSE started \union {turn}
  BY DEF Replay
<1> DEFINE handled == IF k < size THEN k + 1 ELSE k
           new == [i \in 1..k |-> [seq |-> seq + i, event |-> mine[order[i]]]]
<1>4. /\ order \in [1..size -> fresh]
      /\ \A i \in fresh : \E j \in 1..size : order[j] = i
  BY DEF Bijection, Surjection
<1>5. /\ held' = "none" /\ caller' = "idle"
      /\ buffered' = IF held = "thread" THEN << >> ELSE buffered
  BY DEF Replay
<1>6. buffered' \in Seq(Notes)
      /\ \A i \in 1..Len(buffered') : \E j \in 1..Len(buffered) : buffered'[i] = buffered[j]
  BY <1>5, EmptySeq DEF WorkTypes
<1>7. k \in Nat /\ handled \in Nat /\ k <= handled /\ handled <= size /\ handled <= k + 1
  BY <1>2
<1> HIDE DEF size, handled, mine
<1>8. \A i \in 1..size : order[i] \in 1..Len(mine) /\ mine[order[i]] \notin seen
                         /\ mine[order[i]] \in Notes
  BY <1>1, <1>4
<1>9. new \in Seq(Rows) /\ Len(new) = k
      /\ \A i \in 1..k : new[i] = [seq |-> seq + i, event |-> mine[order[i]]]
  <2>1. \A i \in 1..k : [seq |-> seq + i, event |-> mine[order[i]]] \in Rows
    <3>1. \A i \in 1..k : i \in 1..size /\ seq + i \in Nat
      BY <1>1, <1>2, <1>7
    <3>2. \A i \in 1..k : mine[order[i]] \in Happening
      BY <3>1, <1>8, Happenings
    <3>3. QED
      BY <3>1, <3>2 DEF Rows, Happening
  <2> HIDE DEF Rows
  <2>2. new \in [1..k -> Rows]
    BY <2>1
  <2>3. new \in Seq(Rows)
    BY <1>7, <2>2, SeqDef
  <2>4. Len(new) \in Nat /\ 1..k = 1..Len(new)
    BY <2>2, <2>3, LenProperties
  <2>5. QED
    BY <1>7, <2>3, <2>4
<1>10. /\ log' \in Seq(Rows) /\ Len(log') = Len(log) + k
       /\ \A i \in 1..Len(log) : log'[i] = log[i]
       /\ \A i \in 1..k : log'[Len(log) + i] = new[i]
  <2> DEFINE N == new
  <2>1. N \in Seq(Rows) /\ Len(N) = k /\ log \in Seq(Rows) /\ log' = log \o N
    BY <1>3, <1>9 DEF WorkTypes
  <2> HIDE DEF N, Rows
  <2>2. /\ log \o N \in Seq(Rows) /\ Len(log \o N) = Len(log) + k
        /\ \A i \in 1..Len(log) + k : (log \o N)[i] = IF i <= Len(log) THEN log[i] ELSE N[i - Len(log)]
    BY <2>1, ConcatProperties
  <2>3. \A i \in 1..Len(log) : i \in 1..Len(log) + k /\ i <= Len(log)
    BY <1>1, <1>7
  <2>4. \A i \in 1..k : /\ Len(log) + i \in 1..Len(log) + k
                        /\ ~(Len(log) + i <= Len(log))
                        /\ Len(log) + i - Len(log) = i
    BY <1>1, <1>7
  <2>5. QED
    BY <2>1, <2>2, <2>3, <2>4 DEF N
<1> HIDE DEF new
<1>11. \A i \in 1..Len(log') : i \in 1..Len(log) \/ \E j \in 1..k : i = Len(log) + j
  <2>1. ASSUME NEW i \in 1..Len(log'), i \notin 1..Len(log)
        PROVE  i - Len(log) \in 1..k /\ i = Len(log) + (i - Len(log))
    BY <1>1, <1>7, <1>10, <2>1
  <2>2. QED
    BY <2>1
<1>12. seq' = seq + handled
  BY <1>3 DEF handled
<1>13. \A i \in 1..Len(log') : log'[i].seq \in 1..seq'
  <2>1. \A i \in 1..Len(log) : log'[i].seq \in 1..seq'
    <3>1. \A x \in 1..seq : x \in 1..seq'
      BY <1>1, <1>7, <1>12
    <3>2. QED
      BY <1>10, <3>1 DEF WorkTypes
  <2>2. \A j \in 1..k : log'[Len(log) + j].seq = seq + j
    BY <1>9, <1>10
  <2>3. \A j \in 1..k : seq + j \in 1..seq'
    BY <1>1, <1>7, <1>12
  <2>4. QED
    BY <1>11, <2>1, <2>2, <2>3
<1>14. \A e \in Stored' : e \in Stored \/ \E i \in 1..k : e = mine[order[i]]
  <2>1. \A j \in 1..k : log'[Len(log) + j].event = mine[order[j]]
    BY <1>9, <1>10
  <2>2. ASSUME NEW e \in Stored'
        PROVE  e \in Stored \/ \E i \in 1..k : e = mine[order[i]]
    <3>1. PICK i \in 1..Len(log') : e = log'[i].event
      BY <2>2 DEF Stored
    <3>2. CASE i \in 1..Len(log)
      BY <1>10, <3>1, <3>2 DEF Stored
    <3>3. CASE \E j \in 1..k : i = Len(log) + j
      BY <2>1, <3>1, <3>3
    <3>4. QED
      BY <1>11, <3>2, <3>3
  <2>3. QED
    BY <2>2
<1>15. \A i \in 1..k : mine[order[i]] \in Stored'
  <2>1. \A i \in 1..k : Len(log) + i \in 1..Len(log')
    BY <1>1, <1>7, <1>10
  <2>2. \A i \in 1..k : log'[Len(log) + i].event = mine[order[i]]
    BY <1>9, <1>10
  <2>3. QED
    BY <2>1, <2>2 DEF Stored
<1>16. Stored \subseteq Stored'
  <2>1. 1..Len(log) \subseteq 1..Len(log')
    BY <1>1, <1>7, <1>10
  <2>2. QED
    BY <1>10, <2>1 DEF Stored
<1>17. \A i \in 1..handled : i \in 1..size
  BY <1>2, <1>7
<1>18. \A n \in seen' : n \in seen \/ \E i \in 1..handled : n = mine[order[i]]
  BY <1>3 DEF handled
<1>b. /\ seen \subseteq seen' /\ seen' \subseteq Notes
      /\ \A n \in seen' : n \in seen \/ \E j \in 1..Len(buffered) : buffered[j] = n
  <2>1. \A i \in 1..handled : /\ mine[order[i]] \in Notes
                              /\ \E j \in 1..Len(buffered) : buffered[j] = mine[order[i]]
    BY <1>1, <1>8, <1>17
  <2>2. seen \subseteq seen'
    BY <1>3
  <2>3. QED
    BY <1>18, <2>1, <2>2 DEF WorkTypes
<1>19. \A a \in Happening, b \in Happening \ Notes : Before(a, b)' => Before(a, b)
  <2>1. SUFFICES ASSUME NEW a \in Happening, NEW b \in Happening \ Notes, Before(a, b)'
                 PROVE  Before(a, b)
    OBVIOUS
  <2>2. PICK i \in 1..Len(log'), j \in 1..Len(log') :
          i < j /\ log'[i].event = a /\ log'[j].event = b
    BY <2>1 DEF Before
  <2>3. j \in 1..Len(log)
    <3>1. \A x \in 1..k : log'[Len(log) + x].event = mine[order[x]] /\ x \in 1..size
      BY <1>2, <1>7, <1>9, <1>10
    <3>2. QED
      BY <1>8, <1>11, <2>2, <3>1
  <2>4. i \in 1..Len(log)
    BY <1>1, <2>2, <2>3
  <2>5. QED
    BY <1>10, <2>2, <2>3, <2>4 DEF Before
<1>20. CASE k < size
  <2>1. started' = started /\ failures' = failures + 1 /\ failures' \in 0..Faults
        /\ failures' # failures
    BY <1>1, <1>3, <1>20
  <2>2. seq' \in Nat
    BY <1>1, <1>7, <1>12
  <2>4. \A e \in Stored' : e \in Stored \/ \E j \in 1..Len(buffered) : buffered[j] = e
    BY <1>1, <1>7, <1>8, <1>14, <1>17
  <2>5. QED
    BY <1>5, <1>6, <1>10, <1>13, <1>16, <1>b, <1>19, <2>1, <2>2, <2>4
<1>21. CASE ~(k < size)
  <2>1. /\ started' = started \union {turn} /\ failures' = failures
        /\ failures' \in 0..Faults /\ k = size /\ handled = k
    BY <1>1, <1>2, <1>3, <1>7, <1>21 DEF handled
  <2>2. seq' \in Nat
    BY <1>1, <1>7, <1>12
  <2>4. \A e \in Stored' : e \in Stored \/ \E j \in 1..Len(buffered) : buffered[j] = e
    BY <1>1, <1>7, <1>8, <1>14, <1>17
  <2>5. \A n \in seen' : n \in seen \/ n \in Stored'
    BY <1>15, <1>18, <2>1
  <2>6. ASSUME held = "thread", NEW i \in 1..Len(buffered), buffered[i] \notin seen
        PROVE  buffered[i] \in Stored'
    <3>1. PICK m \in 1..Len(buffered) :
            buffered[m] = buffered[i] /\ \A j \in 1..m - 1 : buffered[j] # buffered[i]
      BY FirstPlace DEF WorkTypes
    <3>2. m \in fresh
      BY <1>1, <2>6, <3>1
    <3>3. PICK j \in 1..size : order[j] = m
      BY <1>4, <3>2
    <3>4. QED
      BY <1>1, <1>15, <2>1, <2>6, <3>1, <3>3
  <2>7. QED
    BY <1>5, <1>6, <1>10, <1>13, <1>16, <1>b, <1>19, <2>1, <2>2, <2>4, <2>5, <2>6
<1>22. QED
  BY <1>20, <1>21

-------------------------------------------------------------------------------
\* The child's output after a frame was read, and after one was written.
LEMMA Reads ==
  ASSUME WireTypes, pipe # << >>, pipe' = Tail(pipe)
  PROVE  /\ Frame = pipe[1] /\ Frame \in FrameSet /\ Len(pipe) \in Nat
         /\ Len(pipe) >= 1 /\ pipe' \in Seq(FrameSet)
         /\ \A i \in 1..Len(pipe') : i + 1 \in 1..Len(pipe) /\ pipe'[i] = pipe[i + 1]
<1> HIDE DEF FrameSet
<1>1. /\ Head(pipe) = pipe[1] /\ Head(pipe) \in FrameSet /\ Len(pipe) \in Nat
      /\ Len(pipe) >= 1 /\ pipe' \in Seq(FrameSet) /\ Len(pipe') = Len(pipe) - 1
      /\ \A i \in 1..Len(pipe) - 1 : pipe'[i] = pipe[i + 1]
  BY TailOf DEF WireTypes
<1>2. \A i \in 1..Len(pipe') : i + 1 \in 1..Len(pipe) /\ pipe'[i] = pipe[i + 1]
  BY <1>1
<1>3. QED
  BY <1>1, <1>2 DEF Frame

LEMMA Wires ==
  ASSUME WireTypes, NEW f \in FrameSet, pipe' = Append(pipe, f)
  PROVE  /\ pipe' \in Seq(FrameSet)
         /\ \A i \in 1..Len(pipe') : \/ i \in 1..Len(pipe) /\ pipe'[i] = pipe[i]
                                     \/ pipe'[i] = f
<1> HIDE DEF FrameSet
<1>1. /\ pipe' \in Seq(FrameSet) /\ Len(pipe) \in Nat
      /\ Len(pipe') = Len(pipe) + 1 /\ pipe'[Len(pipe) + 1] = f
      /\ \A i \in 1..Len(pipe) : pipe'[i] = pipe[i]
  BY AppendOf DEF WireTypes
<1>2. \A i \in 1..Len(pipe') : i \in 1..Len(pipe) \/ i = Len(pipe) + 1
  BY <1>1
<1>3. QED
  BY <1>1, <1>2

\* What the child writes next.
LEMMA Writings ==
  ASSUME WireTypes, CallTypes, ChildWrites
  PROVE  \E f \in FrameSet :
           /\ pipe' = Append(pipe, f) /\ f.id \in 0..lastId
           /\ f.type = "note" =>
                f.note \in Notes /\ f.note.turn \in Asked \union {0}
           /\ f.type = "answer" => [id |-> f.id, ok |-> f.ok] \in told'
           /\ told \subseteq told'
           /\ \A a \in told' : a \in told \/
                \E r \in heard : a.id = r.id /\ a.ok \in BOOLEAN
                                 /\ a \in [id : Nat, ok : BOOLEAN]
<1>1. Diagnostic \in Notes \union {Diagnostic} /\ lastId \in Nat
  BY DEF CallTypes
<1>2. \A r \in heard : r.id \in Nat /\ r.id \in 0..lastId
  BY DEF WireTypes, CallTypes
<1>3. CASE \E r \in heard, ok \in BOOLEAN :
          /\ pipe' = Append(pipe, [type |-> "answer", id |-> r.id, ok |-> ok,
                                   note |-> Diagnostic])
          /\ told' = told \union {[id |-> r.id, ok |-> ok]}
  BY <1>1, <1>2, <1>3 DEF FrameSet
<1>4. CASE \E note \in Notes :
          /\ note.turn \in Asked \union {0}
          /\ pipe' = Append(pipe, [type |-> "note", id |-> 0, ok |-> TRUE,
                                   note |-> note])
          /\ UNCHANGED told
  <2>1. PICK note \in Notes :
          /\ note.turn \in Asked \union {0}
          /\ pipe' = Append(pipe, [type |-> "note", id |-> 0, ok |-> TRUE,
                                   note |-> note])
          /\ told' = told
    BY <1>4
  <2> DEFINE f == [type |-> "note", id |-> 0, ok |-> TRUE, note |-> note]
  <2>2. f \in FrameSet /\ f.id = 0 /\ f.note = note /\ f.type = "note"
    BY DEF FrameSet
  <2> HIDE DEF f
  <2>3. pipe' = Append(pipe, f)
    BY <2>1 DEF f
  <2>4. f.id \in 0..lastId
    BY <1>1, <2>2
  <2>5. QED
    BY <2>1, <2>2, <2>3, <2>4
<1>5. CASE /\ pipe' = Append(pipe, [type |-> "bad", id |-> 0, ok |-> TRUE,
                                   note |-> Diagnostic])
           /\ UNCHANGED told
  <2> DEFINE f == [type |-> "bad", id |-> 0, ok |-> TRUE, note |-> Diagnostic]
  <2>2. f \in FrameSet /\ f.id = 0 /\ f.type = "bad"
    BY DEF FrameSet
  <2> HIDE DEF f
  <2>3. pipe' = Append(pipe, f) /\ told' = told
    BY <1>5 DEF f
  <2>4. f.id \in 0..lastId
    BY <1>1, <2>2
  <2>5. QED
    BY <2>2, <2>3, <2>4
<1>6. QED
  BY <1>3, <1>4, <1>5 DEF ChildWrites

\* The ids that were given only become more.
LEMMA IdsGrow ==
  ASSUME CallTypes, [AppNext]_appVars
  PROVE  lastId' \in Nat /\ lastId <= lastId'
         /\ 0..lastId \subseteq 0..lastId' /\ 1..lastId \subseteq 1..lastId'
<1>1. lastId \in Nat
  BY DEF CallTypes
<1>2. lastId' = lastId \/ lastId' = lastId + 1
  BY DEF AppNext, appVars, callVars, serverVars, ChildWrites, ChildDies, PassNote,
     Settle, Complain, ReadEnd, ReadEndClear, ExitSeen, ExitClear, StartTurn,
     Interrupt, Register, Write, TimesOut, Hears, GiveUp, Shutdown, Closed,
     Record, AskFlush, WorkNote, WorkDiagnostic, WorkActivate, WorkClear,
     WorkFlush
<1>3. QED
  BY <1>1, <1>2

LEMMA WireTypesStep ==
  ASSUME Types, [AppNext]_appVars
  PROVE  WireTypes'
<1> USE DEF Types
<1>1. /\ lastId' \in Nat /\ 0..lastId \subseteq 0..lastId'
      /\ 1..lastId \subseteq 1..lastId'
  BY IdsGrow
<1> HIDE DEF FrameSet
<1>2. CASE ChildWrites
  <2>1. PICK f \in FrameSet :
           /\ pipe' = Append(pipe, f) /\ f.id \in 0..lastId
           /\ f.type = "note" => f.note \in Notes
           /\ \A a \in told' : a \in told \/
                \E r \in heard : a.id = r.id /\ a \in [id : Nat, ok : BOOLEAN]
    BY <1>2, Writings
  <2>2. wrote' \in 0..Frames
    BY <1>2, AppBounds DEF ChildWrites, WireTypes
  <2>3. UNCHANGED <<server, heard, eof, watch, lastId>>
    BY <1>2 DEF ChildWrites, callVars
  <2>4. /\ pipe' \in Seq(FrameSet)
        /\ \A i \in 1..Len(pipe') : pipe'[i].id \in 0..lastId
        /\ \A i \in 1..Len(pipe') : pipe'[i].type = "note" => pipe'[i].note \in Notes
    BY <2>1, Wires DEF WireTypes
  <2>5. /\ told' \subseteq [id : Nat, ok : BOOLEAN]
        /\ \A a \in told' : a.id \in 1..lastId
    BY <2>1 DEF WireTypes
  <2>6. QED
    BY <2>2, <2>3, <2>4, <2>5 DEF WireTypes
<1>3. CASE PassNote \/ Settle \/ Complain
  <2>1. pipe # << >> /\ pipe' = Tail(pipe)
    BY <1>3 DEF PassNote, Settle, Complain
  <2>2. UNCHANGED <<server, heard, told, wrote, eof, watch, lastId>>
    BY <1>3 DEF PassNote, Settle, Complain, callVars
  <2>3. QED
    BY <2>1, <2>2, Reads DEF WireTypes
<1>4. CASE Register
  BY <1>1, <1>4 DEF Register, WireTypes, serverVars
<1>5. CASE Write
  <2>1. lastId \in Nat /\ lastId # 0 /\ turn \in Nat
        /\ asking \in {"initialize", "turn", "interrupt"}
    BY <1>5, AppBounds DEF Write, CallTypes
  <2>2. /\ [id |-> lastId, kind |-> asking, turn |-> turn] \in Requests
        /\ lastId \in 1..lastId
    BY <2>1 DEF Requests
  <2>3. heard' \subseteq heard \union {[id |-> lastId, kind |-> asking, turn |-> turn]}
    BY <1>5 DEF Write
  <2>4. /\ UNCHANGED <<server, wrote, eof, watch, pipe, told, lastId>>
    BY <1>5 DEF Write
  <2> HIDE DEF Requests
  <2>5. QED
    BY <2>2, <2>3, <2>4 DEF WireTypes
<1>6. CASE ChildDies \/ ReadEnd \/ ReadEndClear \/ ExitSeen \/ ExitClear
  BY <1>6
  DEF ChildDies, ReadEnd, ReadEndClear, ExitSeen, ExitClear, WireTypes,
      callVars, serverVars
<1>7. CASE StartTurn \/ Interrupt \/ TimesOut \/ Hears \/ GiveUp \/ Shutdown
           \/ Closed \/ Record \/ AskFlush \/ WorkNote \/ WorkDiagnostic
           \/ WorkActivate \/ WorkClear \/ WorkFlush \/ UNCHANGED appVars
  <2>1. UNCHANGED <<serverVars, eof, watch, lastId>>
    BY <1>7
    DEF StartTurn, Interrupt, TimesOut, Hears, GiveUp, Shutdown, Closed,
        Record, AskFlush, WorkNote, WorkDiagnostic, WorkActivate, WorkClear,
        WorkFlush, appVars, callVars
  <2>2. QED
    BY <2>1 DEF WireTypes, serverVars
<1>8. QED
  BY <1>2, <1>3, <1>4, <1>5, <1>6, <1>7 DEF AppNext

\* The map of requests keeps its bound.
LEMMA PendingKept ==
  ASSUME CallTypes, NEW S \in SUBSET pending
  PROVE  S \subseteq 1..lastId /\ Cardinality(S) <= MaxPending
<1>1. IsFiniteSet(1..lastId)
  BY FS_Interval DEF CallTypes
<1>2. IsFiniteSet(pending) /\ Cardinality(pending) \in Nat
  BY <1>1, FS_Subset, FS_CardinalityType DEF CallTypes
<1>3. Cardinality(S) <= Cardinality(pending) /\ Cardinality(S) \in Nat
  BY <1>2, FS_Subset, FS_CardinalityType
<1>4. QED
  BY <1>2, <1>3, AppBounds DEF CallTypes

LEMMA PendingAdded ==
  ASSUME CallTypes, Cardinality(pending) < MaxPending
  PROVE  /\ pending \union {lastId + 1} \subseteq 1..lastId + 1
         /\ Cardinality(pending \union {lastId + 1}) <= MaxPending
<1>1. IsFiniteSet(1..lastId) /\ lastId \in Nat
  BY FS_Interval DEF CallTypes
<1>2. IsFiniteSet(pending) /\ Cardinality(pending) \in Nat
  BY <1>1, FS_Subset, FS_CardinalityType DEF CallTypes
<1>3. lastId + 1 \notin pending /\ pending \union {lastId + 1} \subseteq 1..lastId + 1
  BY <1>1 DEF CallTypes
<1>4. Cardinality(pending \union {lastId + 1}) = Cardinality(pending) + 1
  BY <1>2, <1>3, FS_AddElement
<1>5. QED
  BY <1>2, <1>3, <1>4, AppBounds

\* What the requests were settled with stays one reply a request.
LEMMA RepliesKept ==
  ASSUME CallTypes
  PROVE  /\ DOMAIN reply = 1..lastId /\ \A i \in 1..lastId : reply[i] \in Replies
         /\ \A r \in [1..lastId -> Replies] :
              r \in Seq(Replies) /\ Len(r) = lastId
<1> HIDE DEF Replies
<1>1. reply \in [1..lastId -> Replies] /\ lastId \in Nat
  BY LenProperties DEF CallTypes
<1>2. \A r \in [1..lastId -> Replies] : r \in Seq(Replies)
  BY <1>1, SeqDef
<1>3. \A r \in [1..lastId -> Replies] : Len(r) = lastId
  <2>1. SUFFICES ASSUME NEW r \in [1..lastId -> Replies] PROVE Len(r) = lastId
    OBVIOUS
  <2>2. Len(r) \in Nat /\ 1..Len(r) = 1..lastId
    BY <1>2, LenProperties
  <2>3. QED
    BY <1>1, <2>2
<1>4. QED
  BY <1>1, <1>2, <1>3

LEMMA CallTypesStep ==
  ASSUME Types, [AppNext]_appVars
  PROVE  CallTypes'
<1> USE DEF Types
<1>1. lastId \in Nat /\ turn \in Nat /\ turn <= Turns /\ started \subseteq 1..turn
  BY AppBounds DEF CallTypes
<1>2. CASE \/ ChildWrites \/ ChildDies \/ PassNote \/ Complain \/ ReadEndClear
           \/ ExitClear \/ WorkNote \/ WorkDiagnostic \/ WorkActivate
           \/ WorkClear \/ UNCHANGED appVars
  <2>1. UNCHANGED callVars
    BY <1>2
    DEF ChildWrites, ChildDies, PassNote, Complain, ReadEndClear, ExitClear,
        WorkNote, WorkDiagnostic, WorkActivate, WorkClear, appVars
  <2>2. QED
    BY <2>1 DEF CallTypes, callVars
<1>3. CASE Settle
  <2>1. Frame.id \in 1..lastId
    BY <1>3 DEF Settle, CallTypes
  <2>2. reply' \in [1..lastId -> Replies]
    BY <1>3, <2>1, RepliesKept DEF Settle, Replies
  <2>3. reply' \in Seq(Replies) /\ Len(reply') = lastId
    BY <2>2, RepliesKept
  <2>4. pending' \in SUBSET pending
    BY <1>3 DEF Settle
  <2>5. pending' \subseteq 1..lastId /\ Cardinality(pending') <= MaxPending
    BY <2>4, PendingKept
  <2>6. QED
    BY <1>3, <2>3, <2>5 DEF Settle, CallTypes
<1>4. CASE ReadEnd \/ ExitSeen
  <2>1. pending' = {} /\ CompleteAll
    BY <1>4 DEF ReadEnd, ExitSeen, CompleteAll
  <2>2. reply' \in [1..lastId -> Replies]
    BY <2>1, RepliesKept DEF CompleteAll, Replies
  <2>3. reply' \in Seq(Replies) /\ Len(reply') = lastId
    BY <2>2, RepliesKept
  <2>4. pending' \subseteq 1..lastId /\ Cardinality(pending') <= MaxPending
    BY <2>1, PendingKept
  <2>5. QED
    BY <1>4, <2>3, <2>4 DEF ReadEnd, ExitSeen, CallTypes
<1>5. CASE StartTurn
  <2>1. turn' \in 0..Turns /\ 1..turn \subseteq 1..turn'
    BY <1>1, <1>5, AppBounds DEF StartTurn
  <2>2. QED
    BY <1>5, <2>1 DEF StartTurn, CallTypes
<1>6. CASE Register
  <2>1. /\ lastId' = lastId + 1 /\ asking' = asking /\ asking # "none"
        /\ turn' = turn /\ started' = started
        /\ caller' \in {"write", "failed"}
    BY <1>6 DEF Register, CallTypes
  <2>2. \E r \in Replies : reply' = Append(reply, r)
    BY <1>6 DEF Register, Replies
  <2>3. reply' \in Seq(Replies) /\ Len(reply') = lastId'
    <3> HIDE DEF Replies
    <3>1. QED
      BY <2>1, <2>2, AppendOf DEF CallTypes
  <2>4. pending' \subseteq 1..lastId' /\ Cardinality(pending') <= MaxPending
    <3>1. CASE Cardinality(pending) < MaxPending
      BY <1>6, <2>1, <3>1, PendingAdded DEF Register
    <3>2. CASE ~(Cardinality(pending) < MaxPending)
      <4>1. pending' = pending
        BY <1>6, <3>2 DEF Register
      <4>2. 1..lastId \subseteq 1..lastId'
        BY <1>1, <2>1
      <4>3. QED
        BY <4>1, <4>2 DEF CallTypes
    <3>3. QED
      BY <3>1, <3>2
  <2>5. QED
    BY <1>1, <2>1, <2>3, <2>4 DEF CallTypes
<1>7. CASE Write \/ TimesOut
  <2>1. pending' \in SUBSET pending
    BY <1>7 DEF Write, TimesOut, Forget
  <2>2. pending' \subseteq 1..lastId /\ Cardinality(pending') <= MaxPending
    BY <2>1, PendingKept
  <2>3. QED
    BY <1>7, <2>2 DEF Write, TimesOut, CallTypes
<1>8. CASE WorkFlush
  <2>1. caller' = "idle" /\ (started' = started \/ started' = started \union {turn})
    BY <1>8, Replays DEF WorkFlush
  <2>2. turn \in 1..turn
    <3>1. queue[1].op = "flush" /\ Len(queue) \in Nat /\ Len(queue) >= 1
      BY <1>8, Takes DEF WorkFlush, Is
    <3>2. turn # 0
      BY <3>1 DEF FlushInv
    <3>3. QED
      BY <1>1, <3>2
  <2>3. QED
    BY <1>8, <2>1, <2>2 DEF WorkFlush, CallTypes
<1>9. CASE Interrupt \/ Hears \/ GiveUp \/ Shutdown \/ Closed \/ Record \/ AskFlush
  BY <1>9
  DEF Interrupt, Hears, GiveUp, Shutdown, Closed, Record, AskFlush, CallTypes
<1>10. QED
  BY <1>2, <1>3, <1>4, <1>5, <1>6, <1>7, <1>8, <1>9 DEF AppNext

LEMMA WorkTypesStep ==
  ASSUME Types, [AppNext]_appVars
  PROVE  WorkTypes'
<1> USE DEF Types
<1>1. CASE WorkNote
  <2>1. /\ Head(queue) = queue[1] /\ Len(queue) \in Nat /\ Len(queue) >= 1
    BY <1>1, Takes DEF WorkNote, Is
  <2>2. Note \in Notes
    BY <1>1, <2>1 DEF WorkNote, Is, Note, QueueTypes
  <2>3. CASE buffered' = Append(buffered, Note) /\ UNCHANGED <<seen, seq, log, failures>>
    <3>1. buffered' \in Seq(Notes)
      BY <2>2, <2>3, AppendOf DEF WorkTypes
    <3>2. QED
      BY <1>1, <2>3, <3>1 DEF WorkNote, WorkTypes
  <2>4. CASE Handle(Note) /\ UNCHANGED buffered
    <3>1. CASE UNCHANGED <<seen, seq, log, failures>>
      BY <1>1, <2>4, <3>1 DEF WorkNote, WorkTypes
    <3>2. CASE seen' = seen \union {Note} /\ Emit(Note)
      BY <1>1, <2>2, <2>4, <3>2, Emits, Happenings DEF WorkNote, WorkTypes
    <3>3. QED
      BY <2>4, <3>1, <3>2 DEF Handle
  <2>5. QED
    BY <1>1, <2>3, <2>4 DEF WorkNote
<1>2. CASE WorkDiagnostic
  BY <1>2, Emits, Happenings DEF WorkDiagnostic, WorkTypes
<1>3. CASE Record
  <2>1. turn \in Nat
    BY AppBounds DEF CallTypes
  <2>2. (IF asking = "turn" THEN TurnStarted(turn) ELSE Cancelled(turn)) \in Happening
    BY <2>1, Happenings
  <2>3. QED
    BY <1>3, <2>2, Emits DEF Record, WorkTypes
<1>4. CASE WorkActivate \/ WorkClear
  BY <1>4, EmptySeq DEF WorkActivate, WorkClear, WorkTypes
<1>5. CASE WorkFlush
  BY <1>5, Replays DEF WorkFlush, WorkTypes
<1>6. CASE PassNote
  <2>1. Frame.note \in Notes
    BY <1>6, Reads DEF PassNote, WireTypes
  <2>2. QED
    BY <1>6, <2>1 DEF PassNote, WorkTypes, workVars
<1>7. CASE UNCHANGED <<workVars, passed>>
  BY <1>7 DEF WorkTypes, workVars
<1>8. CASE \/ ChildWrites \/ ChildDies \/ Settle \/ Complain \/ ReadEnd
           \/ ReadEndClear \/ ExitSeen \/ ExitClear \/ StartTurn \/ Interrupt
           \/ Register \/ Write \/ TimesOut \/ Hears \/ GiveUp \/ Shutdown
           \/ Closed \/ AskFlush \/ UNCHANGED appVars
  BY <1>7, <1>8
  DEF ChildWrites, ChildDies, Settle, Complain, ReadEnd, ReadEndClear,
      ExitSeen, ExitClear, StartTurn, Interrupt, Register, Write, TimesOut,
      Hears, GiveUp, Shutdown, Closed, AskFlush, appVars
<1>9. QED
  BY <1>1, <1>2, <1>3, <1>4, <1>5, <1>6, <1>8 DEF AppNext

\* A command of another kind than a flush came, or the first one went.
LEMMA FlushInvStep ==
  ASSUME Types, [AppNext]_appVars
  PROVE  FlushInv'
<1> USE DEF Types
<1>0. turn \in Nat
  BY AppBounds DEF CallTypes
<1>1. CASE Complain \/ ReadEndClear \/ ExitClear \/ StartTurn \/ Shutdown
           \/ (GiveUp /\ queue' # queue)
  <2>1. PICK op \in {"diagnostic", "activate", "clear"} : Send(Command(op))
    BY <1>1
    DEF Complain, ReadEndClear, ExitClear, StartTurn, Shutdown, GiveUp
  <2>2. /\ \A i \in 1..Len(queue) : queue'[i] = queue[i]
        /\ queue'[Len(queue) + 1].op # "flush"
        /\ Len(queue) \in Nat /\ Len(queue') = Len(queue) + 1
    BY <2>1, Sends
  <2>3. \A i \in 1..Len(queue') : queue'[i].op = "flush" =>
          i \in 1..Len(queue) /\ queue[i].op = "flush"
    BY <2>2
  <2>4. caller = "flushing" => caller' = "flushing"
    BY <1>1
    DEF Complain, ReadEndClear, ExitClear, StartTurn, Shutdown, GiveUp, callVars
  <2>5. /\ caller' \in {"flush", "flushing"} => caller' = caller /\ asking' = asking
        /\ asking' = "turn" =>
             (asking' = asking /\ turn' = turn) \/ turn' = turn + 1
    BY <1>1
    DEF Complain, ReadEndClear, ExitClear, StartTurn, Shutdown, GiveUp, callVars
  <2>6. QED
    BY <1>0, <2>3, <2>4, <2>5 DEF FlushInv
<1>2. CASE AskFlush
  <2>1. /\ \A i \in 1..Len(queue) : queue'[i] = queue[i]
        /\ Len(queue) \in Nat /\ Len(queue') = Len(queue) + 1
    BY <1>2, Sends DEF AskFlush
  <2>2. caller = "flush" /\ caller' = "flushing" /\ asking' = asking /\ turn' = turn
    BY <1>2 DEF AskFlush
  <2>3. \A i \in 1..Len(queue') : queue'[i].op = "flush" => i = Len(queue) + 1
    BY <2>1, <2>2 DEF FlushInv
  <2>4. QED
    BY <2>2, <2>3 DEF FlushInv
<1>3. CASE PassNote
  <2>1. Frame.note \in Notes
    BY <1>3, Reads DEF PassNote, WireTypes
  <2>2. /\ \A i \in 1..Len(queue) : queue'[i] = queue[i]
        /\ queue'[Len(queue) + 1] = Event(Frame.note)
        /\ Len(queue) \in Nat /\ Len(queue') = Len(queue) + 1
    BY <1>3, <2>1, SendsNote DEF PassNote
  <2>3. \A i \in 1..Len(queue') : queue'[i].op = "flush" =>
          i \in 1..Len(queue) /\ queue[i].op = "flush"
    BY <2>2 DEF Event
  <2>4. UNCHANGED callVars
    BY <1>3 DEF PassNote
  <2>5. QED
    BY <2>3, <2>4 DEF FlushInv, callVars
<1>4. CASE WorkNote \/ WorkDiagnostic \/ WorkActivate \/ WorkClear \/ WorkFlush
  <2>1. /\ \A i \in 1..Len(queue') : i + 1 \in 1..Len(queue) /\ queue'[i] = queue[i + 1]
        /\ Head(queue) = queue[1] /\ 1 \in 1..Len(queue) /\ Len(queue) \in Nat
        /\ \A i \in 1..Len(queue') : i + 1 # 1
    BY <1>4, Takes
    DEF WorkNote, WorkDiagnostic, WorkActivate, WorkClear, WorkFlush, Is
  <2>2. CASE WorkFlush
    <3>1. queue[1].op = "flush"
      BY <2>1, <2>2 DEF WorkFlush, Is
    <3>2. \A i \in 1..Len(queue') : queue'[i].op # "flush"
      BY <2>1, <3>1 DEF FlushInv
    <3>3. caller' = "idle" /\ asking' = asking /\ turn' = turn
      BY <2>2 DEF WorkFlush, Replay
    <3>4. QED
      BY <3>2, <3>3 DEF FlushInv
  <2>3. CASE ~WorkFlush
    <3>1. UNCHANGED callVars
      BY <1>4, <2>3 DEF WorkNote, WorkDiagnostic, WorkActivate, WorkClear
    <3>2. \A i, j \in 1..Len(queue') : i + 1 = j + 1 => i = j
      OBVIOUS
    <3>3. QED
      BY <2>1, <3>1, <3>2 DEF FlushInv, callVars
  <2>4. QED
    BY <2>2, <2>3
<1>5. CASE queue' = queue /\ UNCHANGED <<turn, asking>> /\
           (caller' = caller \/ (caller # "flushing" /\ caller' # "flushing"
                                 /\ (caller' = "flush" => asking = "turn")))
  BY <1>5 DEF FlushInv
<1>6. CASE Interrupt
  BY <1>6 DEF FlushInv, Interrupt
<1>7. CASE GiveUp /\ queue' = queue
  BY <1>7 DEF FlushInv, GiveUp
<1>8. CASE ChildWrites \/ ChildDies \/ Settle \/ ReadEnd \/ ExitSeen \/ Register
           \/ Write \/ TimesOut \/ Hears \/ Closed \/ Record \/ UNCHANGED appVars
  BY <1>5, <1>8
  DEF ChildWrites, ChildDies, Settle, ReadEnd, ExitSeen, Register, Write,
      TimesOut, Hears, Closed, Record, callVars, appVars
<1>9. QED
  BY <1>1, <1>2, <1>3, <1>4, <1>6, <1>7, <1>8 DEF AppNext

LEMMA TypesStep ==
  ASSUME Types, [AppNext]_appVars
  PROVE  Types'
BY WireTypesStep, CallTypesStep, QueueTypesStep, WorkTypesStep, FlushInvStep
DEF Types

LEMMA TypesInit == AppBegin => Types
<1> SUFFICES ASSUME AppBegin PROVE Types
  OBVIOUS
<1>1. WireTypes /\ QueueTypes /\ FlushInv
  BY EmptySeq, AppBounds
  DEF AppBegin, AppStart, WireTypes, QueueTypes, FlushInv
<1>2. WorkTypes
  BY EmptySeq, AppBounds DEF AppBegin, AppStart, WorkTypes
<1>3. Cardinality({}) = 0
  BY FS_EmptySet
<1>4. CallTypes
  BY <1>3, EmptySeq, AppBounds DEF AppBegin, AppStart, CallTypes
<1>5. QED
  BY <1>1, <1>2, <1>4 DEF Types

\* Both tasks that may end the connection are at work.
Live == watch = "waiting" /\ eof = "reading"

\* What a request was settled with was said; who waits has been read by the
\* child; a request in the map is not settled, and the caller waits for it or
\* gave up on it under a limit of its own; the end of the child empties the map.
SettledInv ==
  /\ \A i \in 1..Len(pipe) : pipe[i].type = "answer" =>
       [id |-> pipe[i].id, ok |-> pipe[i].ok] \in told
  /\ \A i \in 1..lastId : reply[i] \in {"ok", "error"} =>
       [id |-> i, ok |-> reply[i] = "ok"] \in told
  /\ \A i \in pending :
       /\ reply[i] = "none"
       /\ \/ i = lastId /\ caller \in {"write", "wait"}
          \/ \E r \in heard : r.id = i /\ r.kind # "turn"
  /\ caller = "wait" =>
       [id |-> lastId, kind |-> asking, turn |-> turn] \in heard
  /\ ~Live => /\ server = "gone"
              /\ pending = {} \/ (caller = "write" /\ pending = {lastId})
  /\ caller = "closed" => pending = {}

LEMMA SettledInit == AppBegin => SettledInv
BY DEF AppBegin, AppStart, SettledInv, Live

\* The steps of the child and of the tasks that read what it says.
LEMMA SettledByTasks ==
  ASSUME Types, SettledInv,
         \/ ChildWrites \/ ChildDies \/ PassNote \/ Settle \/ Complain
         \/ ReadEnd \/ ReadEndClear \/ ExitSeen \/ ExitClear
  PROVE  SettledInv'
<1> USE DEF Types
<1> HIDE DEF FrameSet
<1>0. lastId \in Nat /\ pending \subseteq 1..lastId /\ DOMAIN reply = 1..lastId
  BY RepliesKept DEF CallTypes
<1>1. CASE ChildWrites
  <2>1. PICK f \in FrameSet :
           /\ pipe' = Append(pipe, f)
           /\ f.type = "answer" => [id |-> f.id, ok |-> f.ok] \in told'
           /\ told \subseteq told'
    BY <1>1, Writings
  <2>2. \A i \in 1..Len(pipe') :
          (i \in 1..Len(pipe) /\ pipe'[i] = pipe[i]) \/ pipe'[i] = f
    BY <2>1, Wires
  <2>3. UNCHANGED <<server, heard, eof, watch, callVars>>
    BY <1>1 DEF ChildWrites
  <2>4. \A i \in 1..Len(pipe') : pipe'[i].type = "answer" =>
          [id |-> pipe'[i].id, ok |-> pipe'[i].ok] \in told'
    BY <2>1, <2>2 DEF SettledInv
  <2>5. QED
    BY <2>1, <2>3, <2>4 DEF SettledInv, Live, callVars
<1>2. CASE ChildDies
  BY <1>2 DEF ChildDies, SettledInv, Live, callVars
<1>3. CASE PassNote \/ Complain
  <2>1. pipe # << >> /\ pipe' = Tail(pipe)
        /\ UNCHANGED <<server, heard, told, eof, watch, callVars>>
    BY <1>3 DEF PassNote, Complain
  <2>2. \A i \in 1..Len(pipe') : pipe'[i].type = "answer" =>
          [id |-> pipe'[i].id, ok |-> pipe'[i].ok] \in told
    BY <2>1, Reads DEF SettledInv
  <2>3. QED
    BY <2>1, <2>2 DEF SettledInv, Live, callVars
<1>4. CASE Settle
  <2> DEFINE n == Frame.id
  <2>1. /\ pipe # << >> /\ pipe' = Tail(pipe) /\ n \in pending
        /\ UNCHANGED <<server, heard, told, eof, watch, lastId, caller, asking, turn>>
        /\ pending' = pending \ {n}
        /\ reply' = [reply EXCEPT ![n] = IF Frame.ok THEN "ok" ELSE "error"]
    BY <1>4 DEF Settle
  <2>2. \A i \in 1..Len(pipe') : pipe'[i].type = "answer" =>
          [id |-> pipe'[i].id, ok |-> pipe'[i].ok] \in told
    BY <2>1, Reads DEF SettledInv
  <2>3. [id |-> n, ok |-> Frame.ok] \in told /\ Frame.ok \in BOOLEAN
    <3>1. 1 \in 1..Len(pipe) /\ Frame = pipe[1] /\ Frame.type = "answer"
      BY <1>4, <2>1, Reads DEF Settle
    <3>2. Frame.ok \in BOOLEAN
      BY <2>1, Reads DEF FrameSet
    <3>3. QED
      BY <3>1, <3>2 DEF SettledInv
  <2> HIDE DEF n
  <2>4. /\ \A i \in 1..lastId : i # n => reply'[i] = reply[i]
        /\ reply'[n] = IF Frame.ok THEN "ok" ELSE "error"
    BY <1>0, <2>1
  <2>5. [id |-> n, ok |-> reply'[n] = "ok"] \in told
    <3>1. (reply'[n] = "ok") = Frame.ok
      BY <2>3, <2>4
    <3>2. QED
      BY <2>3, <3>1
  <2>6. \A i \in 1..lastId : reply'[i] \in {"ok", "error"} =>
          [id |-> i, ok |-> reply'[i] = "ok"] \in told
    <3>1. ASSUME NEW i \in 1..lastId, i # n, reply'[i] \in {"ok", "error"}
          PROVE  [id |-> i, ok |-> reply'[i] = "ok"] \in told
      BY <2>4, <3>1 DEF SettledInv
    <3>2. QED
      BY <2>5, <3>1
  <2>7. \A i \in pending' : i \in pending /\ reply'[i] = reply[i]
    BY <1>0, <2>1, <2>4
  <2>8. ~Live => pending' = {} \/ (caller = "write" /\ pending' = {lastId})
    BY <2>1 DEF SettledInv
  <2>9. caller = "closed" => pending' = {}
    BY <2>1 DEF SettledInv
  <2>10. QED
    BY <2>1, <2>2, <2>6, <2>7, <2>8, <2>9 DEF SettledInv, Live
<1>5. CASE ReadEnd \/ ExitSeen
  <2>1. /\ pending' = {} /\ server = "gone"
        /\ UNCHANGED <<server, pipe, heard, told, lastId, caller, asking, turn>>
        /\ reply' = [i \in DOMAIN reply |-> IF i \in pending THEN "exit" ELSE reply[i]]
    BY <1>5 DEF ReadEnd, ExitSeen, CompleteAll, serverVars
  <2>2. \A i \in 1..lastId : reply'[i] = "exit" \/ reply'[i] = reply[i]
    BY <1>0, <2>1
  <2>3. \A i \in 1..lastId : reply'[i] \in {"ok", "error"} =>
          [id |-> i, ok |-> reply'[i] = "ok"] \in told
    BY <2>2 DEF SettledInv
  <2>4. QED
    BY <2>1, <2>3 DEF SettledInv, Live
<1>6. CASE ReadEndClear \/ ExitClear
  BY <1>6
  DEF ReadEndClear, ExitClear, SettledInv, Live, callVars, serverVars
<1>7. QED
  BY <1>1, <1>2, <1>3, <1>4, <1>5, <1>6

\* The steps of the caller and of the worker.
LEMMA SettledByCaller ==
  ASSUME Types, SettledInv,
         \/ StartTurn \/ Interrupt \/ Register \/ Write \/ TimesOut \/ Hears
         \/ GiveUp \/ Shutdown \/ Closed \/ Record \/ AskFlush
         \/ WorkNote \/ WorkDiagnostic \/ WorkActivate \/ WorkClear
         \/ WorkFlush \/ UNCHANGED appVars
  PROVE  SettledInv'
<1> USE DEF Types
<1> HIDE DEF FrameSet
<1>0. lastId \in Nat /\ pending \subseteq 1..lastId /\ DOMAIN reply = 1..lastId
  BY RepliesKept DEF CallTypes
<1>1. CASE Register
  <2>1. /\ lastId' = lastId + 1 /\ caller = "ask"
        /\ UNCHANGED <<serverVars, eof, watch, asking, turn>>
    BY <1>1 DEF Register
  <2>2. PICK r \in {"none", "capacity"} :
          /\ reply' = Append(reply, r)
          /\ \/ r = "none" /\ caller' = "write" /\ pending' = pending \union {lastId'}
             \/ r = "capacity" /\ caller' = "failed" /\ pending' = pending
    BY <1>1 DEF Register
  <2>3. /\ \A i \in 1..lastId : reply'[i] = reply[i]
        /\ reply'[lastId + 1] = r
    <3>1. r \in Replies
      BY DEF Replies
    <3> HIDE DEF Replies
    <3>2. QED
      BY <2>2, <3>1, AppendOf DEF CallTypes
  <2>4. \A i \in 1..lastId' : i \in 1..lastId \/ i = lastId + 1
    BY <1>0, <2>1
  <2>5. \A i \in 1..lastId' : reply'[i] \in {"ok", "error"} =>
          [id |-> i, ok |-> reply'[i] = "ok"] \in told
    BY <2>3, <2>4 DEF SettledInv
  <2>6. \A i \in pending : reply'[i] = "none" /\
          \E q \in heard : q.id = i /\ q.kind # "turn"
    BY <1>0, <2>1, <2>3 DEF SettledInv
  <2>7. ~Live => server = "gone" /\ pending = {}
    BY <2>1 DEF SettledInv
  <2>8. QED
    BY <2>1, <2>2, <2>3, <2>5, <2>6, <2>7 DEF SettledInv, Live, serverVars
<1>2. CASE Write
  <2>1. /\ UNCHANGED <<server, pipe, told, eof, watch, reply, lastId, asking, turn>>
        /\ caller = "write"
    BY <1>2 DEF Write
  <2>2. CASE /\ caller' = "wait" /\ pending' = pending /\ server = "running"
             /\ heard' = heard \union {[id |-> lastId, kind |-> asking, turn |-> turn]}
    BY <2>1, <2>2 DEF SettledInv, Live
  <2>3. CASE caller' = "failed" /\ pending' = pending \ {lastId} /\ heard' = heard
    BY <2>1, <2>3 DEF SettledInv, Live
  <2>4. QED
    BY <1>2, <2>2, <2>3 DEF Write
<1>3. CASE TimesOut
  <2>1. /\ UNCHANGED <<serverVars, eof, watch, reply, lastId, asking, turn>>
        /\ caller = "wait" /\ caller' = "failed"
        /\ pending' = pending \ {lastId} \/ (asking # "turn" /\ pending' = pending)
    BY <1>3 DEF TimesOut, Forget
  <2>2. \E r \in heard : r.id = lastId /\ r.kind = asking
    BY <2>1 DEF SettledInv
  <2>3. QED
    BY <2>1, <2>2 DEF SettledInv, Live, serverVars
<1>4. CASE Hears
  BY <1>4 DEF Hears, SettledInv, Live, serverVars
<1>5. CASE StartTurn \/ Interrupt \/ GiveUp \/ Shutdown \/ Closed \/ Record \/ AskFlush
  BY <1>5
  DEF StartTurn, Interrupt, GiveUp, Shutdown, Closed, Record, AskFlush,
      SettledInv, Live, serverVars
<1>6. CASE WorkNote \/ WorkDiagnostic \/ WorkActivate \/ WorkClear \/ UNCHANGED appVars
  BY <1>6
  DEF WorkNote, WorkDiagnostic, WorkActivate, WorkClear, appVars, SettledInv,
      Live, serverVars, callVars
<1>7. CASE WorkFlush
  <2>1. queue[1].op = "flush" /\ 1 \in 1..Len(queue)
    BY <1>7, Takes DEF WorkFlush, Is
  <2>2. caller = "flushing" /\ caller' = "idle"
    BY <1>7, <2>1 DEF FlushInv, WorkFlush, Replay
  <2>3. QED
    BY <1>7, <2>2 DEF WorkFlush, SettledInv, Live, serverVars
<1>8. QED
  BY <1>1, <1>2, <1>3, <1>4, <1>5, <1>6, <1>7

LEMMA SettledStep ==
  ASSUME Types, SettledInv, [AppNext]_appVars
  PROVE  SettledInv'
BY SettledByTasks, SettledByCaller DEF AppNext

-------------------------------------------------------------------------------
\* Nothing speaks of a turn that was not asked for yet.
SpokenInv ==
  /\ \A r \in heard : r.turn <= turn
  /\ \A i \in 1..Len(pipe) : pipe[i].type = "note" => pipe[i].note.turn <= turn
  /\ \A i \in 1..Len(queue) : queue[i].op = "event" => queue[i].note.turn <= turn
  /\ \A i \in 1..Len(buffered) : buffered[i].turn <= turn
  /\ \A n \in seen \union passed \union Stored : n.turn <= turn

\* What the caller knows is in the log.
CallerInv ==
  /\ caller \in {"flush", "flushing"} => TurnStarted(turn) \in Stored
  /\ \A t \in started : TurnStarted(t) \in Stored
  /\ \A t \in started : t < turn => Completion(t) \in Stored
  /\ asking = "turn" /\ caller \in {"ask", "write", "wait", "record", "flush", "flushing"} =>
       turn \notin started

\* A turn is asked for, and its start is not stored yet.
Starting == asking = "turn" /\ caller \in {"ask", "write", "wait", "record"}

\* A command that leaves it alone what the worker holds back.
Passive(i) == queue[i].op \in {"event", "diagnostic"}

\* The worker has what the child says of the turn held back by the time it has
\* taken the first n commands.
Guarded(n) ==
  \/ held = "thread" /\ \A i \in 1..n : Passive(i)
  \/ \E k \in 1..n :
       /\ queue[k].op = "activate" /\ \A i \in k + 1..n : Passive(i)
       /\ \A i \in 1..k - 1 : queue[i].op = "event" => queue[i].note.turn # turn
       /\ \A i \in 1..Len(buffered) : buffered[i].turn # turn

HoldInv ==
  Live =>
    /\ Starting \/ caller = "flush" => Guarded(Len(queue))
    /\ caller = "flushing" =>
         \E m \in 1..Len(queue) :
           /\ queue[m].op = "flush" /\ Guarded(m - 1)
           /\ \A i \in m + 1..Len(queue) : Passive(i)
    /\ turn \in started =>
         /\ held = "none"
         /\ \A i \in 1..Len(queue) : queue[i].op \notin {"activate", "flush"}

\* What the child said of a turn that is in the log before the turn's start.
Premature ==
  {n \in Notes : n.method # "turn/started" /\ Before(n, TurnStarted(n.turn))}

OrderInv ==
  Live =>
    /\ Premature = {}
    /\ Starting => \A n \in Stored \intersect Notes :
                     n.turn = turn => n.method = "turn/started"

\* Where the end of the turn is until it is stored.
OnItsWay(note) ==
  \/ note \in Stored
  \/ \E i \in 1..Len(queue) : queue[i] = Event(note)
  \/ held = "thread" /\ \E i \in 1..Len(buffered) : buffered[i] = note

KeptInv ==
  failures = 0 =>
    /\ seen \subseteq Stored
    /\ /\ Live /\ Completion(turn) \in passed
       /\ turn \in started \/ Starting \/ caller \in {"flush", "flushing"}
       => OnItsWay(Completion(turn))

AppInv == Types /\ SettledInv /\ SpokenInv /\ CallerInv /\ HoldInv /\ OrderInv
            /\ KeptInv

-------------------------------------------------------------------------------
\* A connection that is ending does not come back.
LEMMA LiveStays ==
  ASSUME [AppNext]_appVars, Live'
  PROVE  Live
BY DEF Live, AppNext, appVars, ChildWrites, ChildDies, PassNote,
   Settle, Complain, ReadEnd, ReadEndClear, ExitSeen, ExitClear, StartTurn,
   Interrupt, Register, Write, TimesOut, Hears, GiveUp, Shutdown, Closed,
   Record, AskFlush, WorkNote, WorkDiagnostic, WorkActivate, WorkClear,
   WorkFlush

\* Who is asked to flush is the caller that waits for it.
LEMMA FlushFound ==
  ASSUME Types, WorkFlush
  PROVE  /\ 1 \in 1..Len(queue) /\ queue[1].op = "flush" /\ caller = "flushing"
         /\ \A i \in 1..Len(queue) : queue[i].op = "flush" => i = 1
         /\ asking = "turn" /\ caller' = "idle" /\ turn' = turn /\ turn \in 1..turn
<1>1. queue[1].op = "flush" /\ Len(queue) \in Nat /\ Len(queue) >= 1
  BY Takes DEF Types, WorkFlush, Is
<1>2. turn # 0 /\ turn \in Nat
  BY <1>1, AppBounds DEF Types, FlushInv, CallTypes
<1>3. QED
  BY <1>1, <1>2 DEF Types, FlushInv, WorkFlush, Replay

\* What an event of the log may be after a step.
LEMMA StoredStep ==
  ASSUME Types, [AppNext]_appVars
  PROVE  /\ Stored \subseteq Stored'
         /\ \A e \in Stored' :
              \/ e \in Stored \/ e = Diagnostic
              \/ Record /\ e \in {TurnStarted(turn), Cancelled(turn)}
              \/ WorkNote /\ e = queue[1].note /\ queue[1].op = "event"
                          /\ ~HeldBack(queue[1].note)
              \/ WorkFlush /\ \E j \in 1..Len(buffered) : buffered[j] = e
<1> USE DEF Types
<1>1. CASE Record
  <2>1. (IF asking = "turn" THEN TurnStarted(turn) ELSE Cancelled(turn)) \in Happening
    BY Happenings, AppBounds DEF CallTypes
  <2>2. QED
    BY <1>1, <2>1, Adds DEF Record
<1>2. CASE WorkNote
  <2>1. Head(queue) = queue[1] /\ Len(queue) \in Nat /\ Len(queue) >= 1
    BY <1>2, Takes DEF WorkNote, Is
  <2>2. Note = queue[1].note /\ Note \in Happening /\ queue[1].op = "event"
    BY <1>2, <2>1, Happenings DEF WorkNote, Is, Note, QueueTypes
  <2>3. CASE log' = log
    BY <2>3 DEF Stored
  <2>4. CASE ~HeldBack(Note) /\ Emit(Note)
    BY <1>2, <2>2, <2>4, Adds
  <2>5. QED
    BY <1>2, <2>3, <2>4 DEF WorkNote, Handle
<1>3. CASE WorkDiagnostic
  BY <1>3, Adds, Happenings DEF WorkDiagnostic
<1>4. CASE WorkFlush
  BY <1>4, Replays DEF WorkFlush
<1>5. CASE log' = log
  BY <1>5 DEF Stored
<1>6. CASE ~(Record \/ WorkNote \/ WorkDiagnostic \/ WorkFlush)
  <2>1. log' = log
    BY <1>6
    DEF AppNext, appVars, workVars, ChildWrites, ChildDies, PassNote, Settle,
        Complain, ReadEnd, ReadEndClear, ExitSeen, ExitClear, StartTurn,
        Interrupt, Register, Write, TimesOut, Hears, GiveUp, Shutdown, Closed,
        AskFlush, WorkActivate, WorkClear
  <2>2. QED
    BY <1>5, <2>1
<1>7. QED
  BY <1>1, <1>2, <1>3, <1>4, <1>6

\* What is new speaks of no later turn than the one that was asked for.
LEMMA SpokenStep ==
  ASSUME Types, SpokenInv, [AppNext]_appVars
  PROVE  SpokenInv'
<1> USE DEF Types
<1> HIDE DEF FrameSet
<1>0. turn \in Nat /\ turn' \in Nat /\ turn <= turn'
  <2>1. turn' = turn \/ turn' = turn + 1
    BY DEF AppNext, appVars, callVars, ChildWrites, ChildDies, PassNote, Settle,
       Complain, ReadEnd, ReadEndClear, ExitSeen, ExitClear, StartTurn,
       Interrupt, Register, Write, TimesOut, Hears, GiveUp, Shutdown, Closed,
       Record, AskFlush, WorkNote, WorkDiagnostic, WorkActivate, WorkClear,
       WorkFlush
  <2>2. QED
    BY <2>1, AppBounds DEF CallTypes
<1>a. \A x \in Nat : x <= turn => x <= turn'
  BY <1>0
<1>b. \A n \in Notes \union {Diagnostic} : n.turn \in Nat
  BY AppBounds DEF Notes, Diagnostic
<1>1. \A r \in heard' : r.turn <= turn'
  <2>1. CASE Write
    BY <1>0, <2>1 DEF Write, SpokenInv
  <2>2. CASE heard' = heard
    BY <1>a, <2>2 DEF SpokenInv, WireTypes, Requests
  <2>3. QED
    BY <2>1, <2>2
    DEF AppNext, appVars, serverVars, ChildWrites, ChildDies, PassNote, Settle,
        Complain, ReadEnd, ReadEndClear, ExitSeen, ExitClear, StartTurn,
        Interrupt, Register, TimesOut, Hears, GiveUp, Shutdown, Closed, Record,
        AskFlush, WorkNote, WorkDiagnostic, WorkActivate, WorkClear, WorkFlush
<1>2. \A i \in 1..Len(pipe') : pipe'[i].type = "note" => pipe'[i].note.turn <= turn'
  <2>1. CASE ChildWrites
    <3>1. PICK f \in FrameSet :
             /\ pipe' = Append(pipe, f)
             /\ f.type = "note" => f.note \in Notes /\ f.note.turn \in Asked \union {0}
      BY <2>1, Writings
    <3>2. \A t \in Asked \union {0} : t <= turn
      BY <1>0 DEF Asked, SpokenInv
    <3>3. turn' = turn
      BY <2>1 DEF ChildWrites, callVars
    <3>4. QED
      BY <3>1, <3>2, <3>3, Wires DEF SpokenInv
  <2>2. CASE pipe # << >> /\ pipe' = Tail(pipe) /\ turn' = turn
    BY <2>2, Reads DEF SpokenInv
  <2>3. CASE pipe' = pipe
    BY <1>a, <1>b, <2>3 DEF SpokenInv, WireTypes
  <2>4. QED
    BY <2>1, <2>2, <2>3
    DEF AppNext, appVars, serverVars, callVars, ChildDies, PassNote, Settle,
        Complain, ReadEnd, ReadEndClear, ExitSeen, ExitClear, StartTurn,
        Interrupt, Register, Write, TimesOut, Hears, GiveUp, Shutdown, Closed,
        Record, AskFlush, WorkNote, WorkDiagnostic, WorkActivate, WorkClear,
        WorkFlush
<1>3. PassNote => Frame.note \in Notes /\ Frame.note.turn <= turn
  <2>1. SUFFICES ASSUME PassNote PROVE Frame.note \in Notes /\ Frame.note.turn <= turn
    OBVIOUS
  <2>2. 1 \in 1..Len(pipe) /\ Frame = pipe[1] /\ Frame.type = "note"
    BY <2>1, Reads DEF PassNote
  <2>3. QED
    BY <2>2 DEF WireTypes, SpokenInv
<1>4. \A i \in 1..Len(queue') : queue'[i].op = "event" => queue'[i].note.turn <= turn'
  <2>1. CASE Complain \/ ReadEndClear \/ ExitClear \/ StartTurn \/ Shutdown
           \/ AskFlush \/ (GiveUp /\ queue' # queue)
    <3>1. PICK op \in {"diagnostic", "activate", "clear", "flush"} : Send(Command(op))
      BY <2>1
      DEF Complain, ReadEndClear, ExitClear, StartTurn, Shutdown, GiveUp, AskFlush
    <3>2. /\ \A i \in 1..Len(queue) : queue'[i] = queue[i]
          /\ queue'[Len(queue) + 1].op # "event"
          /\ Len(queue) \in Nat /\ Len(queue') = Len(queue) + 1
      BY <3>1, Sends
    <3>3. \A i \in 1..Len(queue') : queue'[i].op = "event" =>
            i \in 1..Len(queue) /\ queue'[i] = queue[i]
      BY <3>2
    <3>4. QED
      BY <1>a, <1>b, <3>3 DEF SpokenInv, QueueTypes
  <2>2. CASE PassNote
    <3>1. /\ \A i \in 1..Len(queue) : queue'[i] = queue[i]
          /\ queue'[Len(queue) + 1].note = Frame.note
          /\ Len(queue) \in Nat /\ Len(queue') = Len(queue) + 1
      BY <1>3, <2>2, SendsNote DEF PassNote, Event
    <3>2. \A i \in 1..Len(queue') : i \in 1..Len(queue) \/ i = Len(queue) + 1
      BY <3>1
    <3>3. turn' = turn
      BY <2>2 DEF PassNote, callVars
    <3>4. QED
      BY <1>3, <2>2, <3>1, <3>2, <3>3 DEF SpokenInv
  <2>3. CASE WorkNote \/ WorkDiagnostic \/ WorkActivate \/ WorkClear \/ WorkFlush
    <3>1. \A i \in 1..Len(queue') : i + 1 \in 1..Len(queue) /\ queue'[i] = queue[i + 1]
      BY <2>3, Takes
      DEF WorkNote, WorkDiagnostic, WorkActivate, WorkClear, WorkFlush, Is
    <3>2. turn' = turn
      BY <2>3
      DEF WorkNote, WorkDiagnostic, WorkActivate, WorkClear, WorkFlush, callVars
    <3>3. QED
      BY <3>1, <3>2 DEF SpokenInv
  <2>4. CASE queue' = queue
    BY <1>a, <1>b, <2>4 DEF SpokenInv, QueueTypes
  <2>5. QED
    BY <2>1, <2>2, <2>3, <2>4
    DEF AppNext, appVars, ChildWrites, ChildDies, Settle, ReadEnd, ExitSeen,
        Interrupt, Register, Write, TimesOut, Hears, GiveUp, Closed, Record
<1>5. WorkNote => /\ queue[1].note \in Notes /\ queue[1].note.turn <= turn /\ turn' = turn
                  /\ Note = queue[1].note
  <2>1. SUFFICES ASSUME WorkNote
                 PROVE  /\ queue[1].note \in Notes /\ queue[1].note.turn <= turn
                        /\ turn' = turn /\ Note = queue[1].note
    OBVIOUS
  <2>2. 1 \in 1..Len(queue) /\ Head(queue) = queue[1] /\ queue[1].op = "event"
    BY <2>1, Takes DEF WorkNote, Is
  <2>3. QED
    BY <2>1, <2>2 DEF QueueTypes, SpokenInv, WorkNote, callVars, Note
<1>c. Len(buffered) \in Nat /\ \A i \in 1..Len(buffered) : buffered[i] \in Notes
  BY LenProperties, ElementOfSeq DEF WorkTypes
<1>6. \A i \in 1..Len(buffered') : buffered'[i].turn <= turn'
  <2>1. CASE WorkNote
    <3>1. CASE buffered' = Append(buffered, Note)
      <4>1. /\ Len(buffered') = Len(buffered) + 1
            /\ \A i \in 1..Len(buffered) : buffered'[i] = buffered[i]
            /\ buffered'[Len(buffered) + 1] = queue[1].note
        BY <1>5, <2>1, <3>1, AppendOf DEF WorkTypes
      <4>2. \A i \in 1..Len(buffered') : i \in 1..Len(buffered) \/ i = Len(buffered) + 1
        BY <1>c, <4>1
      <4>3. QED
        BY <1>5, <2>1, <4>1, <4>2 DEF SpokenInv
    <3>2. CASE buffered' = buffered
      BY <1>5, <2>1, <3>2 DEF SpokenInv
    <3>3. QED
      BY <2>1, <3>1, <3>2 DEF WorkNote
  <2>2. CASE WorkActivate \/ WorkClear
    <3>1. Len(buffered') = 0
      BY <2>2, EmptySeq DEF WorkActivate, WorkClear
    <3>2. QED
      BY <3>1
  <2>3. CASE WorkFlush
    <3>1. \A i \in 1..Len(buffered') : \E j \in 1..Len(buffered) : buffered'[i] = buffered[j]
      BY <2>3, Replays DEF WorkFlush
    <3>2. turn' = turn
      BY <2>3 DEF WorkFlush
    <3>3. QED
      BY <3>1, <3>2 DEF SpokenInv
  <2>4. CASE buffered' = buffered
    BY <1>a, <1>b, <1>c, <2>4 DEF SpokenInv
  <2>5. QED
    BY <2>1, <2>2, <2>3, <2>4
    DEF AppNext, appVars, workVars, ChildWrites, ChildDies, PassNote, Settle,
        Complain, ReadEnd, ReadEndClear, ExitSeen, ExitClear, StartTurn,
        Interrupt, Register, Write, TimesOut, Hears, GiveUp, Shutdown, Closed,
        Record, AskFlush, WorkDiagnostic
<1>7. \A n \in seen' : n.turn <= turn'
  <2>1. CASE WorkNote
    <3>1. seen' \subseteq seen \union {queue[1].note}
      BY <1>5, <2>1 DEF WorkNote, Handle
    <3>2. QED
      BY <1>5, <2>1, <3>1 DEF SpokenInv
  <2>2. CASE WorkFlush
    <3>1. \A n \in seen' : n \in seen \/ \E j \in 1..Len(buffered) : buffered[j] = n
      BY <2>2, Replays DEF WorkFlush
    <3>2. turn' = turn
      BY <2>2 DEF WorkFlush
    <3>3. QED
      BY <3>1, <3>2 DEF SpokenInv
  <2>3. CASE seen' = seen
    BY <1>a, <1>b, <2>3 DEF SpokenInv, WorkTypes
  <2>4. QED
    BY <2>1, <2>2, <2>3
    DEF AppNext, appVars, workVars, ChildWrites, ChildDies, PassNote, Settle,
        Complain, ReadEnd, ReadEndClear, ExitSeen, ExitClear, StartTurn,
        Interrupt, Register, Write, TimesOut, Hears, GiveUp, Shutdown, Closed,
        Record, AskFlush, WorkDiagnostic, WorkActivate, WorkClear
<1>8. \A n \in passed' : n.turn <= turn'
  <2>1. CASE PassNote
    BY <1>3, <2>1 DEF PassNote, SpokenInv, callVars
  <2>2. CASE passed' = passed
    BY <1>a, <1>b, <2>2 DEF SpokenInv, WorkTypes
  <2>3. QED
    BY <2>1, <2>2
    DEF AppNext, appVars, ChildWrites, ChildDies, Settle,
        Complain, ReadEnd, ReadEndClear, ExitSeen, ExitClear, StartTurn,
        Interrupt, Register, Write, TimesOut, Hears, GiveUp, Shutdown, Closed,
        Record, AskFlush, WorkNote, WorkDiagnostic, WorkActivate, WorkClear,
        WorkFlush
<1>9. \A n \in Stored' : n.turn <= turn'
  <2>1. \A n \in Stored : n.turn \in Nat
    <3>1. \A i \in 1..Len(log) : log[i] \in Rows
      BY ElementOfSeq DEF WorkTypes
    <3>2. QED
      BY <3>1 DEF Stored, Rows
  <2>2. \A n \in Stored : n.turn <= turn'
    BY <1>a, <2>1 DEF SpokenInv
  <2>3. Diagnostic.turn <= turn'
    BY <1>0 DEF Diagnostic
  <2>4. \A n \in {TurnStarted(turn), Cancelled(turn)} : n.turn <= turn'
    BY <1>0 DEF TurnStarted, Cancelled
  <2>5. \A j \in 1..Len(buffered) : buffered[j].turn <= turn'
    BY <1>a, <1>b, <1>c DEF SpokenInv
  <2>6. QED
    BY <1>5, <2>2, <2>3, <2>4, <2>5, StoredStep
<1>10. QED
  BY <1>1, <1>2, <1>4, <1>6, <1>7, <1>8, <1>9 DEF SpokenInv

LEMMA CallerStep ==
  ASSUME Types, CallerInv, [AppNext]_appVars
  PROVE  CallerInv'
<1> USE DEF Types
<1>0. turn \in Nat /\ Stored \subseteq Stored'
  BY StoredStep, AppBounds DEF CallTypes
<1>1. CASE UNCHANGED <<caller, started, turn, asking>>
  BY <1>0, <1>1 DEF CallerInv
<1>2. CASE StartTurn
  <2>1. /\ turn' = turn + 1 /\ started' = started /\ caller' = "ask"
        /\ turn \in started => Completion(turn) \in Stored
        /\ Stored' = Stored
    BY <1>2 DEF StartTurn, workVars, Stored
  <2>2. \A t \in started : t \in 1..turn
    BY DEF CallTypes
  <2>3. turn' \notin started
    BY <1>0, <2>1, <2>2
  <2>4. \A t \in started : t < turn' => t = turn \/ t < turn
    BY <1>0, <2>1, <2>2
  <2>5. QED
    BY <2>1, <2>3, <2>4 DEF CallerInv
<1>3. CASE Interrupt \/ GiveUp
  BY <1>0, <1>3 DEF Interrupt, GiveUp, CallerInv
<1>4. CASE Register \/ Write \/ TimesOut \/ Hears \/ Shutdown \/ Closed \/ AskFlush
  BY <1>0, <1>4
  DEF Register, Write, TimesOut, Hears, Shutdown, Closed, AskFlush, CallerInv
<1>5. CASE Record
  <2>1. (IF asking = "turn" THEN TurnStarted(turn) ELSE Cancelled(turn)) \in Happening
    BY <1>0, Happenings
  <2>2. /\ caller' = IF asking = "turn" /\ failures' = failures THEN "flush" ELSE "idle"
        /\ UNCHANGED <<turn, asking, started>> /\ caller = "record"
    BY <1>5 DEF Record
  <2>3. asking = "turn" /\ failures' = failures => TurnStarted(turn) \in Stored'
    BY <1>5, <2>1, Adds DEF Record
  <2>4. QED
    BY <1>0, <2>2, <2>3 DEF CallerInv
<1>6. CASE WorkFlush
  <2>1. /\ caller = "flushing" /\ caller' = "idle" /\ asking' = asking /\ turn' = turn
        /\ started' = started \/ started' = started \union {turn}
    BY <1>6, FlushFound, Replays DEF WorkFlush
  <2>2. QED
    BY <1>0, <2>1 DEF CallerInv
<1>7. QED
  BY <1>1, <1>2, <1>3, <1>4, <1>5, <1>6
  DEF AppNext, appVars, callVars, ChildWrites, ChildDies, PassNote, Settle,
      Complain, ReadEnd, ReadEndClear, ExitSeen, ExitClear, WorkNote,
      WorkDiagnostic, WorkActivate, WorkClear

-------------------------------------------------------------------------------
\* Who guards the turn goes on to when commands come, and when one is taken.
LEMMA GuardKept ==
  ASSUME QueueTypes, NEW n \in 0..Len(queue), Guarded(n),
         \A i \in 1..Len(queue) : queue'[i] = queue[i],
         UNCHANGED <<held, buffered, turn>>
  PROVE  Guarded(n)'
<1>1. Len(queue) \in Nat
  BY LenProperties DEF QueueTypes
<1>2. \A i \in 1..n : i \in 1..Len(queue)
  BY <1>1
<1>3. CASE held = "thread" /\ \A i \in 1..n : Passive(i)
  BY <1>2, <1>3 DEF Guarded, Passive
<1>4. ASSUME NEW k \in 1..n, queue[k].op = "activate",
             \A i \in k + 1..n : Passive(i),
             \A i \in 1..k - 1 : queue[i].op = "event" => queue[i].note.turn # turn,
             \A i \in 1..Len(buffered) : buffered[i].turn # turn
      PROVE  Guarded(n)'
  <2>1. /\ \A i \in k + 1..n : i \in 1..Len(queue)
        /\ \A i \in 1..k - 1 : i \in 1..Len(queue)
    BY <1>1
  <2>2. QED
    BY <1>2, <1>4, <2>1 DEF Guarded, Passive
<1>5. QED
  BY <1>3, <1>4 DEF Guarded

LEMMA GuardGrows ==
  ASSUME QueueTypes, Guarded(Len(queue)),
         \A i \in 1..Len(queue) : queue'[i] = queue[i],
         Len(queue') = Len(queue) + 1,
         queue'[Len(queue) + 1].op \in {"event", "diagnostic"},
         UNCHANGED <<held, buffered, turn>>
  PROVE  Guarded(Len(queue))'
<1>1. Len(queue) \in Nat
  BY LenProperties DEF QueueTypes
<1>2. \A i \in 1..Len(queue') : i \in 1..Len(queue) \/ i = Len(queue) + 1
  BY <1>1
<1>3. CASE held = "thread" /\ \A i \in 1..Len(queue) : Passive(i)
  BY <1>2, <1>3 DEF Guarded, Passive
<1>4. ASSUME NEW k \in 1..Len(queue), queue[k].op = "activate",
             \A i \in k + 1..Len(queue) : Passive(i),
             \A i \in 1..k - 1 : queue[i].op = "event" => queue[i].note.turn # turn,
             \A i \in 1..Len(buffered) : buffered[i].turn # turn
      PROVE  Guarded(Len(queue))'
  <2>1. /\ k \in 1..Len(queue')
        /\ \A i \in k + 1..Len(queue') :
             (i \in k + 1..Len(queue) /\ i \in 1..Len(queue)) \/ i = Len(queue) + 1
        /\ \A i \in 1..k - 1 : i \in 1..Len(queue)
    BY <1>1
  <2>2. QED
    BY <1>4, <2>1 DEF Guarded, Passive
<1>5. QED
  BY <1>3, <1>4 DEF Guarded

LEMMA GuardTaken ==
  ASSUME QueueTypes, NEW n \in 1..Len(queue), Guarded(n), turn' = turn,
         \A i \in 1..Len(queue) - 1 : queue'[i] = queue[i + 1],
         \/ /\ queue[1].op \in {"event", "diagnostic"} /\ held' = held
            /\ \A i \in 1..Len(buffered') :
                 \/ i \in 1..Len(buffered) /\ buffered'[i] = buffered[i]
                 \/ buffered'[i] = queue[1].note /\ queue[1].op = "event"
         \/ queue[1].op = "activate" /\ held' = "thread" /\ Len(buffered') = 0
         \/ queue[1].op = "clear" /\ Len(buffered') = 0
  PROVE  Guarded(n - 1)'
<1>1. Len(queue) \in Nat /\ n \in Nat /\ 1 \in 1..n
  BY LenProperties DEF QueueTypes
<1>2. \A i \in 1..n - 1 : i + 1 \in 1..n /\ i \in 1..Len(queue) - 1 /\ i + 1 # 1
  BY <1>1
<1>3. CASE held = "thread" /\ \A i \in 1..n : Passive(i)
  <2>1. held' = "thread"
    BY <1>1, <1>3 DEF Passive
  <2>2. \A i \in 1..n - 1 : Passive(i)'
    BY <1>2, <1>3 DEF Passive
  <2>3. QED
    BY <2>1, <2>2 DEF Guarded
<1>4. ASSUME NEW k \in 1..n, queue[k].op = "activate",
             \A i \in k + 1..n : Passive(i),
             \A i \in 1..k - 1 : queue[i].op = "event" => queue[i].note.turn # turn,
             \A i \in 1..Len(buffered) : buffered[i].turn # turn
      PROVE  Guarded(n - 1)'
  <2>1. CASE k = 1
    <3>1. held' = "thread"
      BY <1>4, <2>1
    <3>2. \A i \in 1..n - 1 : i + 1 \in k + 1..n
      BY <1>1, <2>1
    <3>3. \A i \in 1..n - 1 : Passive(i)'
      BY <1>2, <1>4, <3>2 DEF Passive
    <3>4. QED
      BY <3>1, <3>3 DEF Guarded
  <2>2. CASE k # 1
    <3>1. /\ k - 1 \in 1..n - 1 /\ k - 1 \in 1..Len(queue) - 1 /\ k - 1 + 1 = k
          /\ 1 \in 1..k - 1
      BY <1>1, <2>2
    <3>2. /\ \A i \in (k - 1) + 1..n - 1 : i + 1 \in k + 1..n /\ i \in 1..Len(queue) - 1
          /\ \A i \in 1..(k - 1) - 1 : i + 1 \in 1..k - 1 /\ i \in 1..Len(queue) - 1
      BY <1>1, <3>1
    <3>3. queue'[k - 1].op = "activate"
      BY <1>4, <3>1
    <3>4. \A i \in (k - 1) + 1..n - 1 : Passive(i)'
      BY <1>4, <3>2 DEF Passive
    <3>5. \A i \in 1..(k - 1) - 1 : queue'[i].op = "event" => queue'[i].note.turn # turn'
      BY <1>4, <3>2
    <3>6. \A i \in 1..Len(buffered') : buffered'[i].turn # turn'
      BY <1>4, <3>1
    <3> DEFINE j == k - 1
    <3>7. j \in 1..n - 1
      BY <3>1
    <3> HIDE DEF j
    <3>8. /\ queue'[j].op = "activate" /\ \A i \in j + 1..n - 1 : Passive(i)'
          /\ \A i \in 1..j - 1 : queue'[i].op = "event" => queue'[i].note.turn # turn'
      BY <3>3, <3>4, <3>5 DEF j
    <3>9. QED
      BY <3>6, <3>7, <3>8 DEF Guarded
  <2>3. QED
    BY <2>1, <2>2
<1>5. QED
  BY <1>3, <1>4 DEF Guarded

\* What the head of a guarded channel can be.
LEMMA GuardedHead ==
  ASSUME QueueTypes, NEW n \in 1..Len(queue), Guarded(n)
  PROVE  /\ queue[1].op = "event" => held = "thread" \/ queue[1].note.turn # turn
         /\ queue[1].op \in {"activate", "clear", "flush"} =>
              \A i \in 1..Len(buffered) : buffered[i].turn # turn
<1>1. Len(queue) \in Nat /\ n \in Nat /\ 1 \in 1..n
  BY LenProperties DEF QueueTypes
<1>2. CASE held = "thread" /\ \A i \in 1..n : Passive(i)
  BY <1>1, <1>2 DEF Passive
<1>3. ASSUME NEW k \in 1..n, queue[k].op = "activate",
             \A i \in 1..k - 1 : queue[i].op = "event" => queue[i].note.turn # turn,
             \A i \in 1..Len(buffered) : buffered[i].turn # turn
      PROVE  queue[1].op = "event" => queue[1].note.turn # turn
  <2>1. k = 1 \/ 1 \in 1..k - 1
    BY <1>1
  <2>2. QED
    BY <1>3, <2>1
<1>4. QED
  BY <1>2, <1>3 DEF Guarded

\* What a taken command does to what the worker holds back.
LEMMA HeldStep ==
  ASSUME Types, WorkNote \/ WorkDiagnostic \/ WorkActivate \/ WorkClear
  PROVE  /\ \/ /\ queue[1].op \in {"event", "diagnostic"} /\ held' = held
               /\ \A i \in 1..Len(buffered') :
                    \/ i \in 1..Len(buffered) /\ buffered'[i] = buffered[i]
                    \/ buffered'[i] = queue[1].note /\ queue[1].op = "event"
            \/ queue[1].op = "activate" /\ held' = "thread" /\ Len(buffered') = 0
            \/ queue[1].op = "clear" /\ held' = "none" /\ Len(buffered') = 0
         /\ QueueTypes' /\ Len(queue') = Len(queue) - 1
         /\ Len(queue) \in Nat /\ 1 \in 1..Len(queue)
         /\ \A i \in 1..Len(queue) - 1 : queue'[i] = queue[i + 1]
         /\ Head(queue) = queue[1]
<1> USE DEF Types
<1>1. /\ QueueTypes' /\ Len(queue') = Len(queue) - 1
      /\ Len(queue) \in Nat /\ 1 \in 1..Len(queue)
      /\ \A i \in 1..Len(queue) - 1 : queue'[i] = queue[i + 1]
      /\ Head(queue) = queue[1]
  BY Takes DEF WorkNote, WorkDiagnostic, WorkActivate, WorkClear, Is
<1>2. CASE WorkNote
  <2>1. /\ queue[1].op = "event" /\ held' = held /\ Note = queue[1].note
        /\ queue[1].note \in Notes
    BY <1>1, <1>2 DEF WorkNote, Is, Note, QueueTypes
  <2>2. CASE buffered' = buffered
    BY <1>1, <2>1, <2>2
  <2>3. CASE buffered' = Append(buffered, Note)
    <3>1. /\ Len(buffered') = Len(buffered) + 1 /\ Len(buffered) \in Nat
          /\ \A i \in 1..Len(buffered) : buffered'[i] = buffered[i]
          /\ buffered'[Len(buffered) + 1] = queue[1].note
      BY <2>1, <2>3, AppendOf DEF WorkTypes
    <3>2. \A i \in 1..Len(buffered') : i \in 1..Len(buffered) \/ i = Len(buffered) + 1
      BY <3>1
    <3>3. QED
      BY <1>1, <2>1, <3>1, <3>2
  <2>4. QED
    BY <1>2, <2>2, <2>3 DEF WorkNote
<1>3. CASE WorkDiagnostic
  BY <1>1, <1>3 DEF WorkDiagnostic, Is
<1>4. CASE WorkActivate \/ WorkClear
  BY <1>1, <1>4, EmptySeq DEF WorkActivate, WorkClear, Is
<1>5. QED
  BY <1>2, <1>3, <1>4

\* The steps that leave the channel and what is held back alone.
LEMMA HoldApart ==
  ASSUME HoldInv, Live, UNCHANGED <<queue, held, buffered, turn, started>>,
         Starting' => Starting,
         caller' = "flush" => Starting \/ caller = "flush",
         caller' = "flushing" => caller = "flushing"
  PROVE  HoldInv'
<1>1. \A n : Guarded(n) => Guarded(n)'
  BY DEF Guarded, Passive
<1>2. Guarded(Len(queue)) => Guarded(Len(queue))'
  BY DEF Guarded, Passive
<1>3. Starting' \/ caller' = "flush" => Guarded(Len(queue))'
  BY <1>2 DEF HoldInv
<1>4. caller' = "flushing" => \E m \in 1..Len(queue') :
        /\ queue'[m].op = "flush" /\ Guarded(m - 1)'
        /\ \A i \in m + 1..Len(queue') : Passive(i)'
  BY <1>1 DEF HoldInv, Passive
<1>5. QED
  BY <1>3, <1>4 DEF HoldInv

\* A command comes that is no activation and no flush.
LEMMA HoldGrows ==
  ASSUME Types, HoldInv, Live,
         \A i \in 1..Len(queue) : queue'[i] = queue[i],
         Len(queue') = Len(queue) + 1,
         queue'[Len(queue) + 1].op \in {"event", "diagnostic"},
         UNCHANGED <<held, buffered, turn, started, caller, asking>>
  PROVE  HoldInv'
<1> USE DEF Types
<1>1. Len(queue) \in Nat
  BY LenProperties DEF QueueTypes
<1>2. \A i \in 1..Len(queue') : i \in 1..Len(queue) \/ i = Len(queue) + 1
  BY <1>1
<1>3. Starting' \/ caller' = "flush" => Guarded(Len(queue))'
  BY GuardGrows DEF HoldInv, Starting
<1>4. ASSUME caller = "flushing"
      PROVE  \E m \in 1..Len(queue') :
               /\ queue'[m].op = "flush" /\ Guarded(m - 1)'
               /\ \A i \in m + 1..Len(queue') : Passive(i)'
  <2>1. PICK m \in 1..Len(queue) :
          /\ queue[m].op = "flush" /\ Guarded(m - 1)
          /\ \A i \in m + 1..Len(queue) : Passive(i)
    BY <1>4 DEF HoldInv
  <2>2. m - 1 \in 0..Len(queue) /\ m \in 1..Len(queue')
    BY <1>1
  <2>3. Guarded(m - 1)'
    BY <2>1, <2>2, GuardKept
  <2>4. \A i \in m + 1..Len(queue') : Passive(i)'
    <3>1. \A i \in m + 1..Len(queue') : i \in m + 1..Len(queue) \/ i = Len(queue) + 1
      BY <1>1
    <3>2. \A i \in m + 1..Len(queue) : i \in 1..Len(queue)
      BY <1>1
    <3>3. QED
      BY <2>1, <3>1, <3>2 DEF Passive
  <2>5. QED
    BY <2>1, <2>2, <2>3, <2>4
<1>5. turn \in started => /\ held = "none"
        /\ \A i \in 1..Len(queue') : queue'[i].op \notin {"activate", "flush"}
  BY <1>2 DEF HoldInv
<1>6. QED
  BY <1>3, <1>4, <1>5 DEF HoldInv

\* The worker takes a command that is no flush.
LEMMA HoldTaken ==
  ASSUME Types, HoldInv, Live,
         WorkNote \/ WorkDiagnostic \/ WorkActivate \/ WorkClear
  PROVE  HoldInv'
<1> USE DEF Types
<1>1. UNCHANGED callVars
  BY DEF WorkNote, WorkDiagnostic, WorkActivate, WorkClear
<1>2. /\ Len(queue') = Len(queue) - 1 /\ Len(queue) \in Nat /\ 1 \in 1..Len(queue)
      /\ \A i \in 1..Len(queue) - 1 : queue'[i] = queue[i + 1]
      /\ queue[1].op # "flush"
      /\ held' = held \/ held' = "none" \/ queue[1].op = "activate"
  BY HeldStep
<1>3. ASSUME NEW n \in 1..Len(queue), Guarded(n)
      PROVE  Guarded(n - 1)'
  BY <1>1, <1>3, HeldStep, GuardTaken DEF callVars
<1>4. ASSUME Guarded(Len(queue)) PROVE Guarded(Len(queue))'
  <2>1. PICK n \in 1..Len(queue) : n = Len(queue)
    BY <1>2
  <2>2. Guarded(n - 1)'
    BY <1>3, <1>4, <2>1
  <2>3. QED
    BY <1>2, <2>1, <2>2 DEF Guarded
<1>5. Starting' \/ caller' = "flush" => Guarded(Len(queue))'
  BY <1>1, <1>4 DEF HoldInv, Starting, callVars
<1>6. ASSUME caller = "flushing"
      PROVE  \E m \in 1..Len(queue') :
               /\ queue'[m].op = "flush" /\ Guarded(m - 1)'
               /\ \A i \in m + 1..Len(queue') : Passive(i)'
  <2>1. PICK n \in 1..Len(queue) :
          /\ queue[n].op = "flush" /\ Guarded(n - 1)
          /\ \A i \in n + 1..Len(queue) : Passive(i)
    BY <1>6 DEF HoldInv
  <2>2. PICK m \in 1..Len(queue) - 1 : n = m + 1
    <3>1. n - 1 \in 1..Len(queue) - 1 /\ n = (n - 1) + 1
      BY <1>2, <2>1
    <3>2. QED
      BY <3>1
  <2>3. /\ m \in 1..Len(queue') /\ m \in 1..Len(queue) /\ n - 1 = m
        /\ \A i \in m + 1..Len(queue') : /\ i + 1 \in n + 1..Len(queue)
                                         /\ i \in 1..Len(queue) - 1
    BY <1>2, <2>2
  <2>4. Guarded(m - 1)'
    BY <1>3, <2>1, <2>3
  <2>5. queue'[m].op = "flush" /\ \A i \in m + 1..Len(queue') : Passive(i)'
    BY <1>2, <2>1, <2>2, <2>3 DEF Passive
  <2>6. QED
    BY <2>3, <2>4, <2>5
<1>7. turn \in started => /\ held' = "none"
        /\ \A i \in 1..Len(queue') : queue'[i].op \notin {"activate", "flush"}
  <2>1. \A i \in 1..Len(queue') : i + 1 \in 1..Len(queue) /\ queue'[i] = queue[i + 1]
    BY <1>2
  <2>2. QED
    BY <1>2, <2>1 DEF HoldInv
<1>8. QED
  BY <1>1, <1>5, <1>6, <1>7 DEF HoldInv, callVars

\* The caller, and the worker that answers it.
LEMMA HoldByCaller ==
  ASSUME Types, SpokenInv, CallerInv, HoldInv, Live,
         StartTurn \/ GiveUp \/ Shutdown \/ AskFlush \/ WorkFlush
  PROVE  HoldInv'
<1> USE DEF Types
<1>1. Len(queue) \in Nat /\ turn \in Nat
  BY LenProperties, AppBounds DEF QueueTypes, CallTypes
<1>2. CASE StartTurn
  <2>1. /\ \A i \in 1..Len(queue) : queue'[i] = queue[i]
        /\ Len(queue') = Len(queue) + 1 /\ queue'[Len(queue) + 1].op = "activate"
    BY <1>2, Sends DEF StartTurn
  <2>2. /\ turn' = turn + 1 /\ caller' = "ask" /\ started' = started
        /\ UNCHANGED <<held, buffered>>
    BY <1>2 DEF StartTurn, workVars
  <2>3. turn' \notin started'
    BY <1>1, <2>2 DEF CallTypes
  <2>4. Guarded(Len(queue))'
    <3> DEFINE k == Len(queue) + 1
    <3>1. /\ k \in 1..Len(queue') /\ \A i \in k + 1..Len(queue') : FALSE
          /\ \A i \in 1..k - 1 : i \in 1..Len(queue)
      BY <1>1, <2>1
    <3>2. \A i \in 1..k - 1 : queue'[i].op = "event" => queue'[i].note.turn # turn'
      <4>1. \A i \in 1..Len(queue) : queue[i].op = "event" =>
              queue[i].note.turn <= turn /\ queue[i].note.turn \in Nat
        BY AppBounds DEF SpokenInv, QueueTypes, Notes
      <4>2. QED
        BY <1>1, <2>1, <2>2, <3>1, <4>1
    <3>3. \A i \in 1..Len(buffered') : buffered'[i].turn # turn'
      <4>1. \A i \in 1..Len(buffered) : buffered[i] \in Notes
        BY ElementOfSeq DEF WorkTypes
      <4>2. \A i \in 1..Len(buffered) : buffered[i].turn <= turn /\ buffered[i].turn \in Nat
        BY <4>1, AppBounds DEF SpokenInv, Notes
      <4>3. QED
        BY <1>1, <2>2, <4>2
    <3> HIDE DEF k
    <3>4. queue'[k].op = "activate"
      BY <2>1 DEF k
    <3>5. QED
      BY <3>1, <3>2, <3>3, <3>4 DEF Guarded, Passive
  <2>5. QED
    BY <2>2, <2>3, <2>4 DEF HoldInv
<1>3. CASE GiveUp \/ Shutdown
  <2>1. /\ caller' \in {"idle", "stopping"} /\ UNCHANGED <<turn, started, held, buffered>>
        /\ queue' = queue \/ Send(Command("clear"))
    BY <1>3 DEF GiveUp, Shutdown, workVars
  <2>2. \A i \in 1..Len(queue') :
          (i \in 1..Len(queue) /\ queue'[i] = queue[i]) \/ queue'[i].op = "clear"
    <3>1. CASE Send(Command("clear"))
      <4>1. /\ \A i \in 1..Len(queue) : queue'[i] = queue[i]
            /\ Len(queue') = Len(queue) + 1 /\ queue'[Len(queue) + 1].op = "clear"
        BY <3>1, Sends
      <4>2. \A i \in 1..Len(queue') : i \in 1..Len(queue) \/ i = Len(queue) + 1
        BY <1>1, <4>1
      <4>3. QED
        BY <4>1, <4>2
    <3>2. QED
      BY <2>1, <3>1
  <2>3. QED
    BY <2>1, <2>2 DEF HoldInv, Starting
<1>4. CASE AskFlush
  <2>1. /\ \A i \in 1..Len(queue) : queue'[i] = queue[i]
        /\ Len(queue') = Len(queue) + 1 /\ queue'[Len(queue) + 1].op = "flush"
    BY <1>4, Sends DEF AskFlush
  <2>2. /\ caller = "flush" /\ caller' = "flushing"
        /\ UNCHANGED <<turn, started, asking, held, buffered>>
    BY <1>4 DEF AskFlush, workVars
  <2>3. turn \notin started /\ Guarded(Len(queue))
    BY <2>2 DEF CallerInv, FlushInv, HoldInv
  <2>4. PICK n \in 0..Len(queue) : n = Len(queue)
    BY <1>1
  <2>5. Guarded(n)'
    BY <2>1, <2>2, <2>3, <2>4, GuardKept
  <2>6. PICK m \in 1..Len(queue') : m = n + 1
    BY <1>1, <2>1, <2>4
  <2>7. m - 1 = n /\ \A i \in m + 1..Len(queue') : FALSE
    BY <1>1, <2>1, <2>4, <2>6
  <2>8. queue'[m].op = "flush" /\ Guarded(m - 1)'
    BY <2>1, <2>4, <2>5, <2>6, <2>7
  <2>9. QED
    BY <2>2, <2>3, <2>7, <2>8 DEF HoldInv, Starting
<1>5. CASE WorkFlush
  <2>1. /\ queue[1].op = "flush" /\ caller = "flushing" /\ caller' = "idle"
        /\ \A i \in 1..Len(queue) : queue[i].op = "flush" => i = 1
        /\ turn' = turn
    BY <1>5, FlushFound
  <2>2. held' = "none"
    BY <1>5 DEF WorkFlush, Replay
  <2>3. \A i \in 2..Len(queue) : Passive(i)
    <3>1. PICK m \in 1..Len(queue) :
            queue[m].op = "flush" /\ \A i \in m + 1..Len(queue) : Passive(i)
      BY <2>1 DEF HoldInv
    <3>2. m = 1
      BY <2>1, <3>1
    <3>3. QED
      BY <3>1, <3>2
  <2>4. /\ Len(queue') = Len(queue) - 1
        /\ \A i \in 1..Len(queue) - 1 : queue'[i] = queue[i + 1]
    BY <1>5, Takes DEF WorkFlush, Is
  <2>5. \A i \in 1..Len(queue') : queue'[i].op \in {"event", "diagnostic"}
    <3>1. \A i \in 1..Len(queue') : i + 1 \in 2..Len(queue) /\ i \in 1..Len(queue) - 1
      BY <1>1, <2>4
    <3>2. QED
      BY <2>3, <2>4, <3>1 DEF Passive
  <2>6. QED
    BY <2>1, <2>2, <2>5 DEF HoldInv, Starting
<1>6. QED
  BY <1>2, <1>3, <1>4, <1>5

LEMMA HoldStep ==
  ASSUME Types, SpokenInv, CallerInv, HoldInv, [AppNext]_appVars
  PROVE  HoldInv'
<1> USE DEF Types
<1>1. CASE ~Live'
  BY <1>1 DEF HoldInv
<1>2. CASE Live'
  <2>1. Live
    BY <1>2, LiveStays
  <2>2. CASE PassNote
    <3>1. Frame.note \in Notes
      BY <2>2, Reads DEF PassNote, WireTypes
    <3>2. /\ Len(queue') = Len(queue) + 1
          /\ \A i \in 1..Len(queue) : queue'[i] = queue[i]
          /\ queue'[Len(queue) + 1].op \in {"event", "diagnostic"}
      BY <2>2, <3>1, SendsNote DEF PassNote, Event
    <3>3. QED
      BY <2>1, <2>2, <3>2, HoldGrows DEF PassNote, callVars, workVars
  <2>3. CASE Complain
    <3>1. /\ Len(queue') = Len(queue) + 1
          /\ \A i \in 1..Len(queue) : queue'[i] = queue[i]
          /\ queue'[Len(queue) + 1].op \in {"event", "diagnostic"}
      BY <2>3, Sends DEF Complain
    <3>2. QED
      BY <2>1, <2>3, <3>1, HoldGrows DEF Complain, callVars, workVars
  <2>4. CASE WorkNote \/ WorkDiagnostic \/ WorkActivate \/ WorkClear
    BY <2>1, <2>4, HoldTaken
  <2>5. CASE StartTurn \/ GiveUp \/ Shutdown \/ AskFlush \/ WorkFlush
    BY <2>1, <2>5, HoldByCaller
  <2>6. CASE Interrupt \/ Register \/ Write \/ TimesOut \/ Hears \/ Closed \/ Record
    BY <2>1, <2>6, HoldApart
    DEF Interrupt, Register, Write, TimesOut, Hears, Closed, Record, workVars,
        Starting
  <2>7. CASE ChildWrites \/ ChildDies \/ Settle \/ UNCHANGED appVars
    BY <2>1, <2>7, HoldApart
    DEF ChildWrites, ChildDies, Settle, appVars, callVars, workVars, Starting
  <2>8. CASE ReadEnd \/ ReadEndClear \/ ExitSeen \/ ExitClear
    BY <1>2, <2>1, <2>8 DEF ReadEnd, ReadEndClear, ExitSeen, ExitClear, Live
  <2>9. QED
    BY <2>2, <2>3, <2>4, <2>5, <2>6, <2>7, <2>8 DEF AppNext
<1>3. QED
  BY <1>1, <1>2

-------------------------------------------------------------------------------
LEMMA NoteTurns ==
  ASSUME NEW n \in Notes
  PROVE  /\ n.turn \in Nat /\ n \in Happening
         /\ TurnStarted(n.turn) \in Happening \ Notes
         /\ n.turn # 0 => n.thread = "thread"
         /\ n # Diagnostic
<1>1. n.turn \in Nat /\ (n.turn # 0 => n.thread = "thread")
  BY AppBounds DEF Notes
<1>2. QED
  BY <1>1, Happenings

\* An event of the child's, or a complaint about it, is no turn's start.
LEMMA PrematureStep ==
  ASSUME Types, Live, OrderInv, [AppNext]_appVars
  PROVE  Premature' = {}
<1> USE DEF Types
<1> SUFFICES ASSUME NEW n \in Notes, n.method # "turn/started",
                    Before(n, TurnStarted(n.turn))'
             PROVE  FALSE
  BY DEF Premature
<1> DEFINE s == TurnStarted(n.turn)
<1>1. n \in Happening /\ s \in Happening /\ s \notin Notes /\ s # Diagnostic
  <2>1. TurnStarted(n.turn) # Diagnostic
    BY DEF TurnStarted, Diagnostic
  <2>2. QED
    BY <2>1, NoteTurns
<1>2. ~Before(n, s)
  BY DEF OrderInv, Premature
<1>3. Before(n, s)'
  BY DEF TurnStarted
<1>4. CASE Record
  <2>1. turn \in Nat /\ caller = "record"
    BY <1>4, AppBounds DEF CallTypes, Record
  <2>2. CASE asking = "turn"
    <3>1. TurnStarted(turn) \in Happening /\ Emit(TurnStarted(turn))
      BY <1>4, <2>1, <2>2, Happenings DEF Record
    <3> HIDE DEF s
    <3>2. n \in Stored /\ s = TurnStarted(turn)
      BY <1>1, <1>2, <1>3, <3>1, Adds
    <3>3. n.turn = turn
      BY <3>2 DEF s, TurnStarted
    <3>4. Starting
      BY <2>1, <2>2 DEF Starting
    <3>5. QED
      BY <3>2, <3>3, <3>4 DEF OrderInv
  <2>3. CASE asking # "turn"
    <3>1. Cancelled(turn) \in Happening /\ Emit(Cancelled(turn))
      BY <1>4, <2>1, <2>3, Happenings DEF Record
    <3>2. s # Cancelled(turn)
      BY DEF TurnStarted, Cancelled
    <3> HIDE DEF s
    <3>3. QED
      BY <1>1, <1>2, <1>3, <3>1, <3>2, Adds
  <2>4. QED
    BY <2>2, <2>3
<1> HIDE DEF s
<1>5. CASE log' = log
  BY <1>2, <1>3, <1>5 DEF Before
<1>6. CASE WorkNote
  <2>1. Note \in Notes
    <3>1. Head(queue) = queue[1] /\ 1 \in 1..Len(queue)
      BY <1>6, HeldStep
    <3>2. QED
      BY <1>6, <3>1 DEF WorkNote, Is, Note, QueueTypes
  <2>2. Emit(Note) => FALSE
    BY <1>1, <1>2, <1>3, <2>1, Adds, Happenings
  <2>3. QED
    BY <1>5, <1>6, <2>2 DEF WorkNote, Handle
<1>7. CASE WorkDiagnostic
  BY <1>1, <1>2, <1>3, <1>7, Adds, Happenings DEF WorkDiagnostic
<1>8. CASE WorkFlush
  BY <1>1, <1>2, <1>3, <1>8, Replays DEF WorkFlush
<1>9. CASE ~(Record \/ WorkNote \/ WorkDiagnostic \/ WorkFlush)
  <2>1. log' = log
    BY <1>9
    DEF AppNext, appVars, workVars, ChildWrites, ChildDies, PassNote, Settle,
        Complain, ReadEnd, ReadEndClear, ExitSeen, ExitClear, StartTurn,
        Interrupt, Register, Write, TimesOut, Hears, GiveUp, Shutdown, Closed,
        AskFlush, WorkActivate, WorkClear
  <2>2. QED
    BY <1>5, <2>1
<1>10. QED
  BY <1>4, <1>6, <1>7, <1>8, <1>9

\* A turn that is being started was being started, or is a new one.
LEMMA StartingStep ==
  ASSUME Types, [AppNext]_appVars, Starting'
  PROVE  \/ StartTurn /\ turn' = turn + 1 /\ Stored' = Stored
         \/ Starting /\ turn' = turn /\ ~Record /\ ~WorkFlush
<1> USE DEF Types
<1>1. CASE StartTurn
  BY <1>1 DEF StartTurn, workVars, Stored
<1>2. CASE WorkFlush \/ Record \/ Interrupt
  BY <1>2 DEF WorkFlush, Replay, Record, Interrupt, Starting
<1>3. CASE ~(StartTurn \/ WorkFlush \/ Record \/ Interrupt)
  BY <1>3
  DEF Starting, AppNext, appVars, callVars, ChildWrites, ChildDies, PassNote,
      Settle, Complain, ReadEnd, ReadEndClear, ExitSeen, ExitClear, Register,
      Write, TimesOut, Hears, GiveUp, Shutdown, Closed, AskFlush, WorkNote,
      WorkDiagnostic, WorkActivate, WorkClear
<1>4. QED
  BY <1>1, <1>2, <1>3

LEMMA OrderStep ==
  ASSUME Types, SpokenInv, HoldInv, OrderInv, [AppNext]_appVars
  PROVE  OrderInv'
<1> USE DEF Types
<1>1. SUFFICES ASSUME Live' PROVE OrderInv'
  BY DEF OrderInv
<1>2. Live
  BY <1>1, LiveStays
<1>3. Premature' = {}
  BY <1>2, PrematureStep
<1>4. SUFFICES ASSUME Starting', NEW n \in Stored', n \in Notes, n.turn = turn'
               PROVE  n.method = "turn/started"
  BY <1>3 DEF OrderInv, Notes
<1>5. turn \in Nat
  BY AppBounds DEF CallTypes
<1>6. CASE turn' = turn + 1 /\ Stored' = Stored
  BY <1>4, <1>5, <1>6 DEF SpokenInv
<1>7. CASE Starting /\ turn' = turn /\ ~Record /\ ~WorkFlush
  <2>1. n # Diagnostic
    BY <1>4, NoteTurns
  <2>2. CASE n \in Stored
    BY <1>2, <1>4, <1>7, <2>2 DEF OrderInv
  <2>3. CASE WorkNote /\ n = queue[1].note /\ queue[1].op = "event"
                      /\ ~HeldBack(queue[1].note)
    <3>1. Guarded(Len(queue)) /\ 1 \in 1..Len(queue) /\ Len(queue) \in Nat
      BY <1>2, <1>7, <2>3, HeldStep DEF HoldInv
    <3>2. PICK m \in 1..Len(queue) : m = Len(queue)
      BY <3>1
    <3>3. held = "thread"
      BY <1>4, <1>7, <2>3, <3>1, <3>2, GuardedHead
    <3>4. n.thread = "thread"
      <4>1. turn # 0
        BY <1>7 DEF Starting, FlushInv
      <4>2. QED
        BY <1>4, <1>7, <4>1, NoteTurns
    <3>5. QED
      BY <2>3, <3>3, <3>4 DEF HeldBack
  <2>4. QED
    BY <1>4, <1>7, <2>1, <2>2, <2>3, StoredStep
<1>8. QED
  BY <1>4, <1>6, <1>7, StartingStep

-------------------------------------------------------------------------------
\* The end of the turn matters from the moment the turn is asked for.
Awaited == turn \in started \/ Starting \/ caller \in {"flush", "flushing"}

LEMMA AwaitedStep ==
  ASSUME Types, [AppNext]_appVars, Awaited'
  PROVE  \/ StartTurn /\ turn' = turn + 1 /\ passed' = passed
         \/ Awaited /\ turn' = turn
<1> USE DEF Types
<1>1. CASE StartTurn
  BY <1>1 DEF StartTurn
<1>2. CASE WorkFlush
  BY <1>2, FlushFound DEF Awaited
<1>3. CASE Record
  BY <1>3 DEF Record, Awaited, Starting
<1>4. CASE ~(StartTurn \/ WorkFlush \/ Record)
  BY <1>4
  DEF Awaited, Starting, AppNext, appVars, callVars, ChildWrites, ChildDies, PassNote,
      Settle, Complain, ReadEnd, ReadEndClear, ExitSeen, ExitClear, Interrupt, Register,
      Write, TimesOut, Hears, GiveUp, Shutdown, Closed, AskFlush, WorkNote,
      WorkDiagnostic, WorkActivate, WorkClear
<1>5. QED
  BY <1>1, <1>2, <1>3, <1>4

\* Nothing of the turn is thrown away while its end is awaited.
LEMMA NotThrownAway ==
  ASSUME Types, HoldInv, Live, Awaited, WorkActivate \/ WorkClear, held = "thread"
  PROVE  \A i \in 1..Len(buffered) : buffered[i].turn # turn
<1> USE DEF Types
<1>1. /\ queue[1].op \in {"activate", "clear"} /\ 1 \in 1..Len(queue)
      /\ Len(queue) \in Nat
  <2>1. Head(queue) = queue[1] /\ 1 \in 1..Len(queue) /\ Len(queue) \in Nat
    BY HeldStep
  <2>2. QED
    BY <2>1 DEF WorkActivate, WorkClear, Is
<1>2. turn \notin started
  BY DEF HoldInv
<1>3. CASE Starting \/ caller = "flush"
  <2>1. PICK n \in 1..Len(queue) : n = Len(queue)
    BY <1>1
  <2>2. Guarded(n)
    BY <1>3, <2>1 DEF HoldInv
  <2>3. QED
    BY <1>1, <2>2, GuardedHead
<1>4. CASE caller = "flushing"
  <2>1. PICK m \in 1..Len(queue) : queue[m].op = "flush" /\ Guarded(m - 1)
    BY <1>4 DEF HoldInv
  <2>2. PICK n \in 1..Len(queue) : n = m - 1
    BY <1>1, <2>1
  <2>3. Guarded(n)
    BY <2>1, <2>2
  <2>4. QED
    BY <1>1, <2>3, GuardedHead
<1>5. QED
  BY <1>2, <1>3, <1>4 DEF Awaited

\* No failure is forgotten.
LEMMA FailuresStep ==
  ASSUME Types, [AppNext]_appVars, failures' = 0
  PROVE  failures = 0
<1> USE DEF Types
<1>1. failures \in Nat
  BY AppBounds DEF WorkTypes
<1>2. failures' = failures \/ failures' = failures + 1
  <2>1. CASE WorkFlush
    BY <2>1, Replays DEF WorkFlush
  <2>2. CASE ~WorkFlush
    BY <2>2
    DEF AppNext, appVars, workVars, Emit, Handle, ChildWrites, ChildDies,
        PassNote, Settle, Complain, ReadEnd, ReadEndClear, ExitSeen, ExitClear,
        StartTurn, Interrupt, Register, Write, TimesOut, Hears, GiveUp,
        Shutdown, Closed, Record, AskFlush, WorkNote, WorkDiagnostic,
        WorkActivate, WorkClear
  <2>3. QED
    BY <2>1, <2>2
<1>3. QED
  BY <1>1, <1>2

\* What was handled is stored as long as the store never failed.
LEMMA SeenStep ==
  ASSUME Types, seen \subseteq Stored, failures = 0, failures' = 0,
         [AppNext]_appVars
  PROVE  seen' \subseteq Stored'
<1> USE DEF Types
<1>1. Stored \subseteq Stored'
  BY StoredStep
<1>2. CASE WorkNote
  <2>1. Note \in Happening
    <3>1. Head(queue) = queue[1] /\ 1 \in 1..Len(queue)
      BY <1>2, HeldStep
    <3>2. QED
      BY <1>2, <3>1, Happenings DEF WorkNote, Is, Note, QueueTypes
  <2>2. CASE seen' = seen \union {Note} /\ Emit(Note)
    BY <1>1, <2>1, <2>2, Adds
  <2>3. CASE seen' = seen
    BY <1>1, <2>3
  <2>4. QED
    BY <1>2, <2>2, <2>3 DEF WorkNote, Handle
<1>3. CASE WorkFlush
  BY <1>1, <1>3, Replays DEF WorkFlush
<1>4. CASE ~(WorkNote \/ WorkFlush)
  <2>1. seen' = seen
    BY <1>4
    DEF AppNext, appVars, workVars, ChildWrites, ChildDies, PassNote, Settle,
        Complain, ReadEnd, ReadEndClear, ExitSeen, ExitClear, StartTurn,
        Interrupt, Register, Write, TimesOut, Hears, GiveUp, Shutdown, Closed,
        Record, AskFlush, WorkDiagnostic, WorkActivate, WorkClear
  <2>2. QED
    BY <1>1, <2>1
<1>5. QED
  BY <1>2, <1>3, <1>4

\* The end of the turn stays on its way until it is stored.
LEMMA WayStep ==
  ASSUME Types, HoldInv, Live, Awaited, seen \subseteq Stored, failures = 0,
         failures' = 0, [AppNext]_appVars, turn # 0,
         OnItsWay(Completion(turn))
  PROVE  OnItsWay(Completion(turn))' \/ turn' # turn
<1> USE DEF Types
<1> SUFFICES ASSUME turn' = turn PROVE OnItsWay(Completion(turn))'
  OBVIOUS
<1>1. turn \in 1..Turns
  BY AppBounds DEF CallTypes
<1>2. PICK c \in Notes :
        /\ c = Completion(turn) /\ c.thread = "thread" /\ c.turn = turn
        /\ c.method = "turn/completed" /\ Event(c).op = "event" /\ Event(c).note = c
  BY <1>1 DEF Completion, Notes, Methods, Event
<1>3. Stored \subseteq Stored'
  BY StoredStep
<1> DEFINE Goes == \/ c \in Stored'
                   \/ \E i \in 1..Len(queue') : queue'[i] = Event(c)
                   \/ held' = "thread" /\ \E i \in 1..Len(buffered') : buffered'[i] = c
<1>4. SUFFICES Goes
  BY <1>2 DEF OnItsWay, Completion, Event
<1>6. OnItsWay(c)
  BY <1>2
<1>7. CASE WorkNote \/ WorkDiagnostic \/ WorkActivate \/ WorkClear
  <2>1. /\ 1 \in 1..Len(queue) /\ Len(queue) \in Nat /\ Head(queue) = queue[1]
        /\ Len(queue') = Len(queue) - 1
        /\ \A i \in 1..Len(queue) - 1 : queue'[i] = queue[i + 1]
    BY <1>7, HeldStep
  <2>2. CASE c \in Stored
    BY <1>3, <2>2
  <2>3. ASSUME NEW i \in 1..Len(queue), i # 1, queue[i] = Event(c)
        PROVE  c \in Stored' \/ \E j \in 1..Len(queue') : queue'[j] = Event(c)
    <3>1. i - 1 \in 1..Len(queue') /\ i - 1 \in 1..Len(queue) - 1 /\ (i - 1) + 1 = i
      BY <2>1, <2>3
    <3>2. QED
      BY <2>1, <2>3, <3>1
  <2>4. CASE queue[1] = Event(c)
    <3>1. WorkNote /\ Note = c
      BY <1>2, <1>7, <2>1, <2>4 DEF WorkNote, WorkDiagnostic, WorkActivate, WorkClear, Is, Note
    <3>2. CASE held = "thread"
      <4>1. buffered' = Append(buffered, c) /\ held' = held
        BY <1>2, <3>1, <3>2 DEF WorkNote, HeldBack
      <4>2. /\ Len(buffered') = Len(buffered) + 1 /\ Len(buffered) \in Nat
            /\ buffered'[Len(buffered) + 1] = c
        BY <1>2, <4>1, AppendOf DEF WorkTypes
      <4>3. Len(buffered) + 1 \in 1..Len(buffered')
        BY <4>2
      <4>4. QED
        BY <3>2, <4>1, <4>2, <4>3
    <3>3. CASE held # "thread"
      <4>1. Handle(c)
        BY <1>2, <3>1, <3>3 DEF WorkNote, HeldBack
      <4>2. CASE c \in seen
        BY <1>3, <4>2
      <4>3. CASE c \notin seen
        <5>1. Emit(c) /\ c \in Happening
          BY <1>2, <4>1, <4>3, Happenings DEF Handle
        <5>2. c \in Stored'
          BY <5>1, Adds
        <5>3. QED
          BY <5>2
      <4>4. QED
        BY <4>2, <4>3
    <3>4. QED
      BY <3>2, <3>3
  <2>5. ASSUME held = "thread", NEW i \in 1..Len(buffered), buffered[i] = c
        PROVE  held' = "thread" /\ \E j \in 1..Len(buffered') : buffered'[j] = c
    <3>1. CASE WorkActivate \/ WorkClear
      BY <1>2, <2>5, <3>1, NotThrownAway
    <3>2. CASE WorkDiagnostic
      BY <2>5, <3>2 DEF WorkDiagnostic
    <3>3. CASE WorkNote
      <4>1. CASE buffered' = buffered
        BY <2>5, <3>3, <4>1 DEF WorkNote
      <4>2. CASE buffered' = Append(buffered, Note)
        <5>1. Note \in Notes
          BY <2>1, <3>3 DEF WorkNote, Is, Note, QueueTypes
        <5>2. /\ Len(buffered') = Len(buffered) + 1 /\ Len(buffered) \in Nat
              /\ \A j \in 1..Len(buffered) : buffered'[j] = buffered[j]
          BY <4>2, <5>1, AppendOf DEF WorkTypes
        <5>3. i \in 1..Len(buffered') /\ buffered'[i] = c
          BY <2>5, <5>2
        <5>4. QED
          BY <2>5, <3>3, <5>3 DEF WorkNote
      <4>3. QED
        BY <3>3, <4>1, <4>2 DEF WorkNote
    <3>4. QED
      BY <1>7, <3>1, <3>2, <3>3
  <2>6. QED
    BY <1>6, <2>2, <2>3, <2>4, <2>5 DEF OnItsWay
<1>8. CASE WorkFlush
  <2>1. /\ 1 \in 1..Len(queue) /\ Len(queue) \in Nat /\ queue[1].op = "flush"
        /\ Len(queue') = Len(queue) - 1
        /\ \A i \in 1..Len(queue) - 1 : queue'[i] = queue[i + 1]
    BY <1>8, FlushFound, Takes DEF WorkFlush, Is
  <2>2. CASE c \in Stored
    BY <1>3, <2>2
  <2>3. ASSUME NEW i \in 1..Len(queue), queue[i] = Event(c)
        PROVE  \E j \in 1..Len(queue') : queue'[j] = Event(c)
    <3>1. i # 1
      BY <1>2, <2>1, <2>3
    <3>2. i - 1 \in 1..Len(queue') /\ i - 1 \in 1..Len(queue) - 1 /\ (i - 1) + 1 = i
      BY <2>1, <3>1
    <3>3. QED
      BY <2>1, <2>3, <3>2
  <2>4. ASSUME held = "thread", NEW i \in 1..Len(buffered), buffered[i] = c
        PROVE  c \in Stored'
    BY <1>3, <1>8, <2>4, Replays DEF WorkFlush
  <2>5. QED
    BY <1>6, <2>2, <2>3, <2>4 DEF OnItsWay
<1>9. CASE \/ UNCHANGED queue
           \/ /\ Len(queue') = Len(queue) + 1 /\ Len(queue) \in Nat
              /\ \A i \in 1..Len(queue) : queue'[i] = queue[i]
  <2>1. SUFFICES ASSUME UNCHANGED <<held, buffered>>
                 PROVE  Goes
    BY <1>7, <1>8
    DEF AppNext, appVars, workVars, ChildWrites, ChildDies,
        PassNote, Settle, Complain, ReadEnd, ReadEndClear, ExitSeen, ExitClear,
        StartTurn, Interrupt, Register, Write, TimesOut, Hears, GiveUp,
        Shutdown, Closed, Record, AskFlush
  <2>2. \A i \in 1..Len(queue) : i \in 1..Len(queue') /\ queue'[i] = queue[i]
    BY <1>9
  <2>3. QED
    BY <1>3, <1>6, <2>1, <2>2 DEF OnItsWay
<1>10. CASE Complain \/ ReadEndClear \/ ExitClear \/ StartTurn \/ Shutdown
           \/ AskFlush \/ (GiveUp /\ queue' # queue)
  <2>1. PICK op \in {"diagnostic", "activate", "clear", "flush"} : Send(Command(op))
    BY <1>10
    DEF Complain, ReadEndClear, ExitClear, StartTurn, Shutdown, GiveUp, AskFlush
  <2>2. QED
    BY <1>9, <2>1, Sends
<1>11. CASE PassNote
  <2>1. Frame.note \in Notes
    BY <1>11, Reads DEF PassNote, WireTypes
  <2>2. QED
    BY <1>9, <1>11, <2>1, SendsNote DEF PassNote
<1>12. QED
  BY <1>7, <1>8, <1>9, <1>10, <1>11
  DEF AppNext, appVars, ChildWrites, ChildDies, Settle, ReadEnd, ExitSeen,
      Interrupt, Register, Write, TimesOut, Hears, GiveUp, Closed, Record

LEMMA KeptStep ==
  ASSUME Types, SpokenInv, CallerInv, HoldInv, KeptInv, [AppNext]_appVars
  PROVE  KeptInv'
<1> USE DEF Types
<1> SUFFICES ASSUME failures' = 0
             PROVE  /\ seen' \subseteq Stored'
                    /\ Live' /\ Completion(turn)' \in passed' /\ Awaited' =>
                         OnItsWay(Completion(turn))'
  BY DEF KeptInv, Awaited
<1>1. failures = 0 /\ seen \subseteq Stored
  BY FailuresStep DEF KeptInv
<1>2. seen' \subseteq Stored'
  BY <1>1, SeenStep
<1>3. SUFFICES ASSUME Live', Completion(turn)' \in passed', Awaited'
               PROVE  OnItsWay(Completion(turn))'
  BY <1>2
<1>4. Live /\ turn \in Nat
  BY <1>3, LiveStays, AppBounds DEF CallTypes
<1>5. CASE turn' = turn + 1 /\ passed' = passed
  <2>1. Completion(turn)' \in passed /\ Completion(turn)'.turn = turn + 1
    BY <1>3, <1>5 DEF Completion
  <2>2. QED
    BY <1>4, <2>1 DEF SpokenInv
<1>6. CASE Awaited /\ turn' = turn
  <2>1. turn # 0
    BY <1>4, <1>6 DEF Awaited, Starting, FlushInv, CallTypes
  <2>2. CASE Completion(turn) \in passed
    <3>1. OnItsWay(Completion(turn))
      BY <1>1, <1>4, <1>6, <2>2 DEF KeptInv, Awaited
    <3>2. QED
      BY <1>1, <1>4, <1>6, <2>1, <3>1, WayStep
  <2>3. CASE Completion(turn) \notin passed
    <3>1. Completion(turn)' = Completion(turn)
      BY <1>6 DEF Completion
    <3>2. PassNote /\ Completion(turn) = Frame.note
      <4>1. passed' # passed
        BY <1>3, <2>3, <3>1
      <4>2. PassNote
        BY <4>1
        DEF AppNext, appVars, ChildWrites, ChildDies, Settle,
            Complain, ReadEnd, ReadEndClear, ExitSeen, ExitClear, StartTurn,
            Interrupt, Register, Write, TimesOut, Hears, GiveUp, Shutdown,
            Closed, Record, AskFlush, WorkNote, WorkDiagnostic, WorkActivate,
            WorkClear, WorkFlush
      <4>3. QED
        BY <1>3, <2>3, <3>1, <4>2 DEF PassNote
    <3>3. Frame.note \in Notes
      BY <3>2, Reads DEF PassNote, WireTypes
    <3>4. /\ Len(queue') = Len(queue) + 1 /\ Len(queue) \in Nat
          /\ queue'[Len(queue) + 1] = Event(Frame.note)
      BY <3>2, <3>3, SendsNote DEF PassNote
    <3>5. \E i \in 1..Len(queue') : queue'[i] = Event(Completion(turn))
      <4>1. Len(queue) + 1 \in 1..Len(queue')
        BY <3>4
      <4>2. QED
        BY <3>2, <3>4, <4>1
    <3>6. QED
      BY <1>6, <3>5 DEF OnItsWay, Event, Completion
  <2>4. QED
    BY <2>2, <2>3
<1>7. QED
  BY <1>3, <1>5, <1>6, AwaitedStep

-------------------------------------------------------------------------------
LEMMA AppInitInv == AppBegin => AppInv
<1> SUFFICES ASSUME AppBegin PROVE AppInv
  OBVIOUS
<1>1. Types /\ SettledInv
  BY TypesInit, SettledInit
<1>2. QED
  BY <1>1, EmptySeq
  DEF AppBegin, AppStart, AppInv, SpokenInv, CallerInv, HoldInv, OrderInv,
      KeptInv, Starting, Live, Stored, Premature, Before

LEMMA AppStepInv == AppInv /\ [AppNext]_appVars => AppInv'
<1> SUFFICES ASSUME AppInv, [AppNext]_appVars PROVE AppInv'
  OBVIOUS
<1> USE DEF AppInv
<1>1. Types' /\ SettledInv'
  BY TypesStep, SettledStep
<1>2. SpokenInv' /\ CallerInv'
  BY SpokenStep, CallerStep
<1>3. HoldInv' /\ OrderInv' /\ KeptInv'
  BY HoldStep, OrderStep, KeptStep
<1>4. QED
  BY <1>1, <1>2, <1>3

THEOREM AppInvariance == AppSpec => []AppInv
BY AppInitInv, AppStepInv, PTL DEF AppSpec

\* The types, the bound of the map of requests and that of the channel, the
\* numbers of the log, and that only turns that were asked for have started.
THEOREM AppTypes == AppSpec => []AppTypeOK
<1>1. AppInv => AppTypeOK
  <2> SUFFICES ASSUME AppInv PROVE AppTypeOK
    OBVIOUS
  <2> USE DEF AppInv, Types
  <2>1. lastId \in Nat /\ turn \in Nat /\ turn <= Turns /\ Turns \in Nat
    BY AppBounds DEF CallTypes
  <2>2. heard \subseteq [id : Ids, kind : {"initialize", "turn", "interrupt"},
                         turn : 0..Turns]
    <3>1. SUFFICES ASSUME NEW r \in heard
                   PROVE  r \in [id : Ids, kind : {"initialize", "turn", "interrupt"},
                                 turn : 0..Turns]
      OBVIOUS
    <3>2. r \in Requests /\ r.id \in 1..lastId /\ r.turn <= turn
      BY DEF WireTypes, SpokenInv
    <3>3. r.turn \in 0..Turns
      BY <2>1, <3>2 DEF Requests
    <3>4. QED
      BY <3>2, <3>3 DEF Requests, Ids
  <2>3. told \subseteq [id : Ids, ok : BOOLEAN]
    BY DEF WireTypes, Ids
  <2>4. pipe \in Seq([type : {"answer", "note", "bad"}, id : Ids \cup {0},
                      ok : BOOLEAN, note : Notes \cup {Diagnostic}])
    <3> DEFINE Fr == [type : {"answer", "note", "bad"}, id : Ids \cup {0},
                      ok : BOOLEAN, note : Notes \cup {Diagnostic}]
    <3>1. Len(pipe) \in Nat /\ pipe \in [1..Len(pipe) -> FrameSet]
      <4> HIDE DEF FrameSet
      <4>1. QED
        BY LenProperties DEF WireTypes
    <3>2. \A i \in 1..Len(pipe) : pipe[i] \in Fr
      <4>1. SUFFICES ASSUME NEW i \in 1..Len(pipe) PROVE pipe[i] \in Fr
        OBVIOUS
      <4>2. pipe[i] \in FrameSet /\ pipe[i].id \in 0..lastId
        BY <3>1 DEF WireTypes
      <4>3. pipe[i].id \in Ids \cup {0}
        BY <2>1, <4>2 DEF Ids
      <4>4. QED
        BY <4>2, <4>3 DEF FrameSet
    <3> HIDE DEF Fr, FrameSet
    <3>3. pipe \in [1..Len(pipe) -> Fr]
      BY <3>1, <3>2
    <3>4. pipe \in Seq(Fr)
      BY <3>1, <3>3, SeqDef
    <3>5. QED
      BY <3>4 DEF Fr
  <2>5. reply \in [Ids -> {"none", "ok", "error", "exit", "capacity"}]
    BY LenProperties DEF CallTypes, Replies, Ids
  <2>6. queue \in Seq([op : {"event", "diagnostic", "activate", "clear", "flush"},
                       note : Notes \cup {Diagnostic}])
    BY DEF QueueTypes, Commands
  <2>7. QED
    BY <2>2, <2>3, <2>4, <2>5, <2>6
    DEF AppTypeOK, WireTypes, CallTypes, QueueTypes, WorkTypes, Ids
<1>2. QED
  BY AppInvariance, <1>1, PTL

\* A turn whose start was reported to the caller is in the log; as long as both
\* tasks that may end the connection are at work, what the child said of it
\* comes after that, and that it is over is stored or still in the channel
\* unless the store failed: however early the child says it.
THEOREM TurnsAreRecorded == AppSpec => []TurnRecorded
<1>1. AppInv => TurnRecorded
  <2> SUFFICES ASSUME AppInv PROVE TurnRecorded
    OBVIOUS
  <2> USE DEF AppInv, Types
  <2>1. SUFFICES ASSUME NEW t \in started
                 PROVE  /\ TurnStarted(t) \in Stored
                        /\ Live => /\ \A note \in Notes :
                                        note.turn = t /\ note.method # "turn/started"
                                          => ~Before(note, TurnStarted(t))
                                   /\ Completion(t) \in passed /\ failures = 0 =>
                                        \/ Completion(t) \in Stored
                                        \/ Contains(queue, Event(Completion(t)))
    BY DEF TurnRecorded, Live
  <2>2. TurnStarted(t) \in Stored
    BY DEF CallerInv
  <2>3. ASSUME Live, NEW note \in Notes, note.turn = t, note.method # "turn/started"
        PROVE  ~Before(note, TurnStarted(t))
    BY <2>3 DEF OrderInv, Premature
  <2>4. ASSUME Live, Completion(t) \in passed, failures = 0
        PROVE  Completion(t) \in Stored \/ Contains(queue, Event(Completion(t)))
    <3>1. t \in 1..turn /\ turn \in Nat
      BY AppBounds DEF CallTypes
    <3>2. CASE t < turn
      BY <3>2 DEF CallerInv
    <3>3. CASE t = turn
      <4>1. OnItsWay(Completion(t)) /\ held = "none"
        BY <2>4, <3>3 DEF KeptInv, HoldInv
      <4>2. ASSUME NEW i \in 1..Len(queue), queue[i] = Event(Completion(t))
            PROVE  Contains(queue, Event(Completion(t)))
        BY <4>2 DEF Contains
      <4>3. QED
        BY <4>1, <4>2 DEF OnItsWay
    <3>4. QED
      BY <3>1, <3>2, <3>3
  <2>5. QED
    BY <2>2, <2>3, <2>4
<1>2. QED
  BY AppInvariance, <1>1, PTL

\* A request is settled with what the child said to it, and is forgotten once
\* nobody waits for it, whichever of the answer, the time limit and the end of
\* the child comes first; a closed connection leaves none.
THEOREM RequestsAreSettled == AppSpec => []RequestsSettled
<1>1. AppInv => RequestsSettled
  BY DEF AppInv, SettledInv, RequestsSettled, Ids
<1>2. QED
  BY AppInvariance, <1>1, PTL

===============================================================================
