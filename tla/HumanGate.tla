-------------------------------- MODULE HumanGate -----------------------------
(***************************************************************************)
(* What a task promises the human who runs it.  Its work goes forward in   *)
(* one of two ways: the human is asked about the evidence as it stands and *)
(* says yes, or, where the mode is automatic and nobody is asked, the      *)
(* target branch gets the work.  Either happens once.  There is one        *)
(* question at a time, an answer counts only while the evidence is still   *)
(* what the question was about, and only the latest answer counts.         *)
(*                                                                         *)
(* Between the answer and its effect anything may happen, and the effect   *)
(* may never come: the two are separate transactions.                      *)
(***************************************************************************)
EXTENDS Naturals

VARIABLES
  current,   \* the evidence: what is in the tree and what was found about it
  open,      \* the evidence of the question that is open, if there is one
  verdict,   \* the answer to the latest question, if there is one
  finalized, \* has the human's approval taken effect?
  landed     \* times the work was put on the target branch

gateVars == <<current, open, verdict, finalized, landed>>

Init == open = {} /\ verdict = {} /\ finalized = FALSE /\ landed = 0

\* The providers and the checks go on, and what they do is no answer.
Work == UNCHANGED <<open, verdict, finalized, landed>>

\* A question about something takes the place of the last answer.
Ask ==
  /\ ~finalized /\ landed = 0
  /\ open = {} /\ verdict' = {}
  /\ \E question \in open' : open' = {question}
  /\ UNCHANGED <<finalized, landed>>

Answer ==
  /\ ~finalized
  /\ open = {current} /\ open' = {}
  /\ verdict' \in {{"Approved"}, {"Denied"}}
  /\ UNCHANGED <<current, finalized, landed>>

Finalize ==
  /\ ~finalized /\ open = {} /\ verdict = {"Approved"} /\ landed = 0
  /\ finalized' = TRUE
  /\ UNCHANGED <<current, open, verdict, landed>>

\* Nobody was ever asked.
Land ==
  /\ ~finalized /\ landed = 0 /\ open = {} /\ verdict = {}
  /\ landed' = 1
  /\ UNCHANGED <<open, verdict, finalized>>

Next == Work \/ Ask \/ Answer \/ Finalize \/ Land

Spec == Init /\ [][Next]_gateVars

===============================================================================
