------------------------------- MODULE TextualDiff ------------------------------
(***************************************************************************)
(* The summary of a file's staged and unstaged change: what git prints of  *)
(* a change, how src-tauri/src/b2_a.rs reads it record by record, what it  *)
(* then demands of the hunks, and the numbers it returns.                  *)
(*                                                                         *)
(* Git prints a body line as a prefix and the line's text, so that a line  *)
(* may look like a record of another kind.  Of a text only that matters,   *)
(* and what in it is looked for in the output as a whole.                  *)
(***************************************************************************)
EXTENDS Naturals, FiniteSets, SequencesExt

CONSTANTS
  MaxLines, \* bound: body lines of a change
  MaxHunks  \* bound: hunks of a change

VARIABLES
  change,  \* the staged and the unstaged change of the file
  summary  \* what parse_private_diff_pair returned for them

diffVars == <<change, summary>>

-------------------------------------------------------------------------------
(* A change, and what git prints of it.                                    *)

\* A text may begin with "-- " or "++ ", hold "Binary files " or "rename from ", hold a
\* control character or one that is refused at once.
Texts == {"plain", "dashes", "pluses", "binary", "rename", "control", "escape"}
Kinds == {"context", "addition", "deletion"}

BodyLine(kind, text, ending) == [kind |-> kind, text |-> text, ending |-> ending]
BodyLines == {BodyLine(k, t, "lf") : k \in Kinds, t \in Texts}
             \union {BodyLine(k, "plain", e) : k \in Kinds, e \in {"crlf", "none"}}

\* The sides a line is on.
Sides(line) == CASE line.kind = "context"  -> {"old", "new"}
                 [] line.kind = "deletion" -> {"old"}
                 [] line.kind = "addition" -> {"new"}

\* Only the last line of a side can be without a newline.
Possible(lines) ==
  \A i, j \in DOMAIN lines :
    i < j /\ lines[i].ending = "none" => Sides(lines[i]) \intersect Sides(lines[j]) = {}

Cuts(lines) == {<<lines>>} \union
  IF MaxHunks = 1 THEN {}
  ELSE {<<SubSeq(lines, 1, n), SubSeq(lines, n + 1, Len(lines))>> : n \in 1 .. Len(lines) - 1}

Changed(hunk) == \E i \in DOMAIN hunk : hunk[i].kind # "context"

\* The file's mode or an empty file has changed, git takes the file for binary, or it
\* quotes the path; otherwise there are hunks.
Bare(is) == [is |-> is, hunks |-> <<>>]
Textual(hunks) == [is |-> "text", hunks |-> hunks]
OneLine(is, text) == [is |-> is, hunks |-> <<<<BodyLine("addition", text, "lf")>>>>]
Others == {Bare("none"), Bare("mode"), Bare("binary"), OneLine("quoted", "plain")}

On(side, lines) == Cardinality({i \in DOMAIN lines : side \in Sides(lines[i])})

Record(is, line, at) == [is |-> is, line |-> line, at |-> at]
NoLine == BodyLine("none", "none", "none")
Frame(is) == Record(is, NoLine, <<>>)

\* A range names the line before it if it is empty; between two hunks one line is left out.
Range0(side, hunks, i) ==
  LET before == FoldLeft(LAMBDA n, h : n + On(side, h) + 1, 1, SubSeq(hunks, 1, i - 1))
      count  == On(side, hunks[i])
  IN <<IF count = 0 THEN before - 1 ELSE before, count>>

\* A line without a newline is printed with one and followed by a marker.
PrintedLine(line) ==
  IF line.ending = "none"
  THEN <<Record("body", [line EXCEPT !.ending = "lf"], <<>>), Frame("marker")>>
  ELSE <<Record("body", line, <<>>)>>

PrintedHunk(hunks, i) ==
  <<Record("hunk", NoLine, Range0("old", hunks, i) \o Range0("new", hunks, i))>>
    \o FlattenSeq([j \in DOMAIN hunks[i] |-> PrintedLine(hunks[i][j])])

Printed(c) ==
  CASE c.is = "none"   -> <<>>
    [] c.is = "mode"   -> <<Frame("path"), Frame("meta")>>
    [] c.is = "binary" -> <<Frame("path"), Frame("meta"), Frame("differ")>>
    [] OTHER -> <<Frame(IF c.is = "quoted" THEN "other" ELSE "path"), Frame("meta"),
                  Frame("old"), Frame("new")>>
                  \o FlattenSeq([i \in DOMAIN c.hunks |-> PrintedHunk(c.hunks, i)])

-------------------------------------------------------------------------------
(* parse_unified_surface.                                                  *)

\* What a record begins with: its prefix and its text are not told apart.
Begins(record) ==
  CASE record.is # "body" -> record.is
    [] record.line.kind = "deletion" /\ record.line.text = "dashes" -> "old"
    [] record.line.kind = "addition" /\ record.line.text = "pluses" -> "new"
    [] OTHER -> "body"

Holds(records, text) == \E i \in DOMAIN records : records[i].line.text = text

Bad         == [is |-> "bad", hunks |-> <<>>]
NotText(is) == [is |-> is, hunks |-> <<>>]

Unread == [ok |-> TRUE, old |-> FALSE, new |-> FALSE, hunks |-> <<>>]
Malformed(p) == [p EXCEPT !.ok = FALSE]

OpenHunk(p, at) ==
  IF p.old /\ p.new THEN [p EXCEPT !.hunks = Append(@, [at |-> at, lines |-> <<>>])]
  ELSE Malformed(p)

\* The lines of the hunk that is open, if one is, become others.
InHunk(p, lines) == [p EXCEPT !.hunks[Len(p.hunks)].lines = lines]
Lines(p) == p.hunks[Len(p.hunks)].lines

MarkLast(p) ==
  IF p.hunks = <<>> \/ Lines(p) = <<>> \/ Last(Lines(p)).ending = "none" THEN Malformed(p)
  ELSE InHunk(p, [Lines(p) EXCEPT ![Len(Lines(p))].ending = "none"])

AddLine(p, line) ==
  IF p.hunks = <<>> THEN Malformed(p) ELSE InHunk(p, Append(Lines(p), line))

\* What is before the headers of the two sides is passed over.
Framing(p) == IF p.hunks = <<>> /\ ~p.old /\ ~p.new THEN p ELSE Malformed(p)

ReadRecord(p, record) ==
  CASE ~p.ok -> p
    [] Begins(record) = "old"    -> [p EXCEPT !.old = TRUE]
    [] Begins(record) = "new"    -> [p EXCEPT !.new = TRUE]
    [] Begins(record) = "hunk"   -> OpenHunk(p, record.at)
    [] Begins(record) = "meta"   -> Framing(p)
    [] Begins(record) = "marker" -> MarkLast(p)
    [] Begins(record) = "body"   -> AddLine(p, record.line)
    [] OTHER -> Malformed(p)

Parse(records) ==
  LET p == FoldLeft(ReadRecord, Unread, Tail(records))
  IN CASE records = <<>> -> NotText("absent")
       [] Holds(records, "escape") -> Bad
       [] Holds(records, "binary") \/ Frame("differ") \in ToSet(records) -> NotText("binary")
       [] records[1].is # "path" \/ Holds(records, "rename") -> Bad
       [] ~p.ok \/ ~p.old \/ ~p.new -> Bad
       [] p.hunks = <<>> -> NotText("mode")
       [] OTHER -> [is |-> "text", hunks |-> p.hunks]

-------------------------------------------------------------------------------
(* validate_surface.                                                       *)
AllLines(hunks) == FlattenSeq([i \in DOMAIN hunks |-> hunks[i].lines])

\* Mutant: the lines of a hunk are not held against its header.
CountsAreIgnored(hunk) == TRUE

CountsAgree(hunk) == On("old", hunk.lines) = hunk.at[2] /\ On("new", hunk.lines) = hunk.at[4]

InOrder(one, other) == \/ one.at[1] < other.at[1]
                       \/ one.at[1] = other.at[1] /\ one.at[3] <= other.at[3]

Valid(surface) ==
  surface.is = "text" =>
    /\ \A i \in DOMAIN surface.hunks : CountsAgree(surface.hunks[i])
    /\ \A i \in 1 .. Len(surface.hunks) - 1 : InOrder(surface.hunks[i], surface.hunks[i + 1])
    /\ Possible(AllLines(surface.hunks)) /\ ~\E line \in ToSet(AllLines(surface.hunks)) :
                                               line.text = "control"

-------------------------------------------------------------------------------
(* parse_private_diff_pair.                                                *)
OfKind(kind, lines) == Cardinality({i \in DOMAIN lines : lines[i].kind = kind})
Numbers(surface) ==
  [additions |-> OfKind("addition", AllLines(surface.hunks)),
   deletions |-> OfKind("deletion", AllLines(surface.hunks))]

Answer(how, textual, staged, unstaged, hunks) ==
  [how |-> how, textual |-> textual, staged |-> staged, unstaged |-> unstaged, hunks |-> hunks]
Zero == [additions |-> 0, deletions |-> 0]
NoAnswer(how) == Answer(how, FALSE, Zero, Zero, 0)

Summarize(staged, unstaged) ==
  IF Bad \in {staged, unstaged} THEN NoAnswer("malformed")
  ELSE IF ~(Valid(staged) /\ Valid(unstaged)) THEN NoAnswer("invalid")
  ELSE Answer("ok", "text" \in {staged.is, unstaged.is}, Numbers(staged), Numbers(unstaged),
              Len(staged.hunks) + Len(unstaged.hunks))

DiffStart == change = <<Bare("none"), Bare("none")>> /\ summary = NoAnswer("none")

Inspect(staged, unstaged) ==
  /\ change' = <<staged, unstaged>>
  /\ summary' = Summarize(Parse(Printed(staged)), Parse(Printed(unstaged)))

\* One side is any change of text, the other has none or one line more.
InspectText ==
  /\ summary.how = "none"
  /\ \E n \in 1..MaxLines : \E lines \in [1..n -> BodyLines] : \E hunks \in Cuts(lines) :
       /\ Possible(lines) /\ \A i \in DOMAIN hunks : Changed(hunks[i])
       /\ \E d \in {Bare("none"), OneLine("text", "plain")} : Inspect(Textual(hunks), d)

InspectOther == summary.how = "none" /\ \E c, d \in Others : Inspect(c, d)

DiffNext == InspectText \/ InspectOther

DiffSpec == DiffStart /\ [][DiffNext]_diffVars

-------------------------------------------------------------------------------
DiffTypeOK ==
  /\ summary.how \in {"none", "ok", "malformed", "invalid"} /\ summary.textual \in BOOLEAN
  /\ \A side \in {summary.staged, summary.unstaged} : {side.additions, side.deletions} \subseteq 0..MaxLines
  /\ summary.hunks \in 0 .. 2 * MaxHunks

LinesOf(c) == FlattenSeq(c.hunks)
Has(c, text) == \E i \in DOMAIN LinesOf(c) : LinesOf(c)[i].text = text
Looks(c, kind, text) == \E i \in DOMAIN LinesOf(c) : LinesOf(c)[i] = BodyLine(kind, text, "lf")

\* A change whose body cannot be told from framing by the words that are looked for: two
\* are looked for anywhere, and two at the start of a record, prefix and all.
Mistakable(c) == \/ Has(c, "binary") \/ Has(c, "rename")
                 \/ Looks(c, "deletion", "dashes") \/ Looks(c, "addition", "pluses")

\* A change that is not to be shown.
Hidden(c) == c.is \in {"mode", "quoted"} \/ Has(c, "escape") \/ Has(c, "control")

\* The lines that were added and deleted; what is no text has none.
RealNumbers(c) ==
  IF c.is = "text"
  THEN [additions |-> OfKind("addition", LinesOf(c)), deletions |-> OfKind("deletion", LinesOf(c))]
  ELSE Zero

\* However a change mixes its lines, hunks, line endings and texts, the summary is of that
\* change and no other: it has the numbers of lines that were added and deleted on each
\* side and of the hunks, and it is withheld only for what is not to be shown.  A body that
\* looks like framing is the exception: PayloadIsProtected says that there is none, and
\* does not hold.  Even then a side's numbers are the real ones or none at all.
SummaryIsTheChange ==
  summary.how # "none" =>
    /\ ~Mistakable(change[1]) /\ ~Mistakable(change[2]) =>
         (summary.how = "ok" <=> ~Hidden(change[1]) /\ ~Hidden(change[2]))
    /\ summary.how = "ok" =>
         /\ summary.staged \in {RealNumbers(change[1]), Zero}
         /\ summary.unstaged \in {RealNumbers(change[2]), Zero}
    /\ summary.how = "ok" /\ ~Mistakable(change[1]) /\ ~Mistakable(change[2]) =>
         /\ summary.staged = RealNumbers(change[1]) /\ summary.unstaged = RealNumbers(change[2])
         /\ summary.textual = (\E i \in {1, 2} : change[i].is = "text")
         /\ summary.hunks = Cardinality({h \in {1, 2} \X (1..MaxHunks) :
                                           h[2] \in DOMAIN change[h[1]].hunks})

\* What docs/phase-3c-b2-b0-unified-diff-grammar.md says of a body: the prefix protects a
\* line that begins like a header, so that such a change is summarised as any other.  The
\* code looks for "--- " and "+++ " in hunks as it does before them.
PayloadIsProtected ==
  /\ summary.how # "none" /\ change[1].is = "text"
  /\ \A i \in DOMAIN LinesOf(change[1]) : LinesOf(change[1])[i].text \in {"plain", "dashes", "pluses"}
  => summary.how = "ok"

===============================================================================
