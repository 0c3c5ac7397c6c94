-------------------------------- MODULE EventLog -------------------------------
(***************************************************************************)
(* The events of one task: v3_task_events (crates/sentinel-core/src/v3.rs).*)
(* The caller numbers an event, and the store takes it only if the number  *)
(* is above every number it holds, so that the rows in the order of their  *)
(* numbers are the rows in the order of their arrival.                     *)
(*                                                                         *)
(* Every provider connection reads the last number once, when it starts,   *)
(* and counts on from there.  The count goes up even if the store refuses. *)
(***************************************************************************)
EXTENDS Naturals, Sequences

\* The number of the last event: what a new connection goes on from.
LastNumber(log) == IF log = <<>> THEN 0 ELSE log[Len(log)].seq

\* append_event: stale numbers are refused.
Fits(log, seq) == seq > LastNumber(log)

\* The log after the event with this number is offered to the store.
Offer(log, seq, event) ==
  IF Fits(log, seq) THEN Append(log, [seq |-> seq, event |-> event]) ELSE log

===============================================================================
