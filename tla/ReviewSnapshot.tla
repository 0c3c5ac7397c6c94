----------------------------- MODULE ReviewSnapshot -----------------------------
(***************************************************************************)
(* What the reviewer gets to see: crates/sentinel-worktree reads the       *)
(* evidence of a task's tree part by part and projects one generation of   *)
(* it into a directory of its own, while the provider may still be         *)
(* writing; the supervisor makes room for it, for each review again.       *)
(***************************************************************************)
EXTENDS Naturals

CONSTANTS
  Privileged, \* may the host remove files from a directory that is read-only?
  MaxWrites,   \* bound: writes of a part of the tree
  MaxReviews, \* bound: reviews
  MaxFailures \* bound: commands and writes that fail, and ends of the host

VARIABLES
  content,       \* the task's tree, by part: commit, tracked and untracked content
  generation, \* what was validated, and is to be reviewed
  step,       \* the call: what it does next
  read,       \* what it has read, by part, and what it is about to copy
  root,       \* the review root: "none", "open" or "sealed", and what is in it
  result,     \* what the last call came to
  edited,     \* history: writes of each part since the review began
  writes,      \* writes so far
  reviews,    \* reviews so far
  failures    \* failures so far

snapshotVars == <<content, generation, step, read, root, result, edited, writes, reviews, failures>>

Parts  == {"commit", "tracked", "untracked"}
Copied == {"tracked", "untracked"}
Unread == [p \in Parts |-> 0]
NoRoot == [is |-> "none", of |-> Unread]
At(call, p) == <<call, p>>
Idle == At("idle", "none")

SnapshotStart ==
  /\ content = [p \in Parts |-> 1] /\ generation = Unread
  /\ step = Idle /\ read = Unread /\ root = NoRoot /\ result = "none"
  /\ edited = Unread /\ writes = 0 /\ reviews = 0 /\ failures = 0

\* The provider, or a check, writes: a part becomes something else, or what it was.
WritePart ==
  /\ writes < MaxWrites /\ writes' = writes + 1
  /\ \E p \in Parts : /\ content' = [content EXCEPT ![p] = 3 - @]
                      /\ edited' = [edited EXCEPT ![p] = @ + 1]
  /\ UNCHANGED <<generation, step, read, root, result, reviews, failures>>

-------------------------------------------------------------------------------
(* review_evidence: the parts are read one after the other.                *)

ReadPart(call, p, next) ==
  /\ step = At(call, p) /\ step' = next
  /\ read' = [read EXCEPT ![p] = content[p]]
  /\ UNCHANGED <<content, generation, root, result, edited, writes, reviews, failures>>

ReadEvidence(call) ==
  \/ ReadPart(call, "commit", At(call, "tracked"))
  \/ ReadPart(call, "tracked", At(call, "untracked"))
  \/ ReadPart(call, "untracked", At(call, "read"))

Returns(r) == step' = Idle /\ read' = Unread /\ result' = r

\* The checks have passed on what is read now.
Validate ==
  \/ /\ step = Idle /\ step' = At("validate", "commit")
     /\ UNCHANGED <<content, generation, read, root, result, edited, writes, reviews, failures>>
  \/ ReadEvidence("validate")
  \/ /\ step = At("validate", "read") /\ Returns("validated") /\ generation' = read
     /\ UNCHANGED <<content, root, edited, writes, reviews, failures>>

-------------------------------------------------------------------------------
(* cross_model_review makes room, and materialize_review_snapshot.         *)

\* What was sealed is read-only, its directories too.
CanRemove == root.is = "open" \/ Privileged

MakeRoom ==
  /\ step = Idle /\ generation # Unread /\ reviews < MaxReviews /\ reviews' = reviews + 1
  /\ edited' = Unread
  /\ IF root.is = "none" \/ CanRemove
     THEN root' = NoRoot /\ step' = At("before", "commit") /\ result' = "none" /\ UNCHANGED read
     ELSE Returns("no_room") /\ UNCHANGED root
  /\ UNCHANGED <<content, generation, writes, failures>>

Compare(call, next, otherwise) ==
  /\ step = At(call, "read")
  /\ IF read = generation THEN step' = next /\ UNCHANGED <<root, read, result>>
     ELSE Returns("conflict") /\ root' = otherwise
  /\ UNCHANGED <<content, generation, edited, writes, reviews, failures>>

\* The tracked changes, then the files that are not tracked.
Capture ==
  \/ ReadPart("copy", "tracked", At("copy", "untracked"))
  \/ ReadPart("copy", "untracked", At("make", "base"))

\* The base is checked out into the root.
MakeBase ==
  /\ step = At("make", "base") /\ step' = At("make", "patched")
  /\ root' = [is |-> "open", of |-> Unread]
  /\ UNCHANGED <<content, generation, read, result, edited, writes, reviews, failures>>

Patch ==
  /\ step = At("make", "patched") /\ step' = At("after", "commit")
  /\ root' = [root EXCEPT !.of = [p \in Parts |-> IF p \in Copied THEN read[p] ELSE 0]]
  /\ UNCHANGED <<content, generation, read, result, edited, writes, reviews, failures>>

Seal ==
  /\ step = At("seal", "root") /\ Returns("snapshot")
  /\ root' = [root EXCEPT !.is = "sealed"]
  /\ UNCHANGED <<content, generation, edited, writes, reviews, failures>>

\* A command or a write fails, or the host dies: what has been made so far stays.
SnapshotFails ==
  /\ failures < MaxFailures /\ failures' = failures + 1
  /\ step # Idle /\ Returns("failed")
  /\ UNCHANGED <<content, generation, root, edited, writes, reviews>>

CompareTwice ==
  \/ Compare("before", At("copy", "tracked"), root)
  \/ Compare("after", At("seal", "root"), NoRoot)

Materialize ==
  \/ MakeRoom \/ ReadEvidence("before") \/ Capture \/ MakeBase \/ Patch
  \/ ReadEvidence("after") \/ CompareTwice \/ Seal

SnapshotNext == WritePart \/ Validate \/ Materialize \/ SnapshotFails

-------------------------------------------------------------------------------
SnapshotTypeOK ==
  /\ content \in [Parts -> 1..2] /\ generation \in [Parts -> 0..2] /\ read \in [Parts -> 0..2]
  /\ root.is \in {"none", "open", "sealed"} /\ root.of \in [Parts -> 0..2]
  /\ result \in {"none", "validated", "no_room", "conflict", "failed", "snapshot"}
  /\ writes \in 0..MaxWrites /\ reviews \in 0..MaxReviews /\ failures \in 0..MaxFailures

\* Whatever is written while the evidence is read, the copy made and the evidence read again,
\* what a reviewer is given is the generation that was validated, unless a part of the tree was
\* changed in the meantime and changed back; and it is read-only.
SnapshotIsTheGeneration ==
  result = "snapshot" =>
    /\ root.is = "sealed"
    /\ \A p \in Copied : root.of[p] = generation[p] \/ edited[p] >= 2

\* A review of a tree that stands still is not refused for a review before it.
ReviewAgain == result # "no_room"

===============================================================================
