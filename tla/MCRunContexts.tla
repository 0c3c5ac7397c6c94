---------------------------- MODULE MCRunContexts -----------------------------
(***************************************************************************)
(* The smallest instance of RunContexts for TLC: the runs of Claude.       *)
(***************************************************************************)
EXTENDS RunContexts

ClaudeOnly == {"claude"}

===============================================================================
