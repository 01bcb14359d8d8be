------------------------------ MODULE Durations ------------------------------
(***************************************************************************)
(* Durations on the command line (internal/cli), counted in units: those   *)
(* the options of a request take are cut to whole milliseconds.            *)
(***************************************************************************)
EXTENDS Naturals

CONSTANTS Millisecond       \* how many units of time make one

ASSUME MillisecondAssumption == Millisecond \in Nat \ {0}
=============================================================================
