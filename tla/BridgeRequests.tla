---------------------------- MODULE BridgeRequests -----------------------------
(***************************************************************************)
(* What the macOS application may ask of its bridge process, and what it   *)
(* is told: the requests of NativeBridge.swift and of                      *)
(* apps/macos/bridge/src/main.rs that change something.                    *)
(***************************************************************************)
EXTENDS Naturals

CONSTANTS
  Ids,           \* request ids
  Intents,       \* mutations: a request kind and its fingerprinted arguments
  Loose,         \* those whose handler completes a row it did not create
  Gates,         \* the client's gates: one mutation of each at a time
  GateOf,        \* the gate of an intent, or NoGate
  Kept,          \* gates the end of a process opens only while a request shows as sent
  NoGate,
  NoId,
  StoreFails,    \* may reserving or completing a request fail in the store?
  MaxSends,      \* bound: requests written
  MaxVersion,    \* bound: changes of the store
  MaxProcesses   \* bound: bridge processes

ASSUME NamesAssumption   == NoId \notin Ids /\ NoGate \notin Gates
ASSUME LooseAssumption   == Loose \subseteq Intents
ASSUME GateAssumption    == GateOf \in [Intents -> Gates \union {NoGate}] /\ Kept \subseteq Gates
ASSUME FailAssumption    == StoreFails \in BOOLEAN
ASSUME SendingAssumption == {MaxSends, MaxVersion, MaxProcesses} \subseteq Nat

\* What a request is completed with, and what a request is told that is not completed.
Outcomes == {"accepted", "rejected"}
Refusals == {"unproven", "conflict"}

===============================================================================
