---------------------------- MODULE MCRequestLedger ----------------------------
(***************************************************************************)
(* The smallest instance of RequestLedger for TLC: one mutation,           *)
(* start_task, with a gate that is kept when the process ends.             *)
(***************************************************************************)
EXTENDS RequestLedger

StartTask   == {"start_task"}
Submissions == {"submission"}
StartGate   == [x \in StartTask |-> "submission"]

===============================================================================
