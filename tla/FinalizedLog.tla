----------------------------- MODULE FinalizedLog ----------------------------
(***************************************************************************)
(* What a Cryptarchia engine promises to its clients about finality: the   *)
(* chain up to the latest immutable block is a log that only grows at its  *)
(* end ("No re-orgs past this point are allowed", Cryptarchia::lib in      *)
(* consensus/cryptarchia-engine/src/lib.rs).                               *)
(***************************************************************************)
EXTENDS Naturals, Sequences

CONSTANT Entries

VARIABLE log

Init == log \in Seq(Entries)

\* Several entries may become final at once.
Extend ==
  /\ log' \in Seq(Entries)
  /\ Len(log') > Len(log)
  /\ \A i \in 1..Len(log) : log'[i] = log[i]

Spec == Init /\ [][Extend]_log

==============================================================================
