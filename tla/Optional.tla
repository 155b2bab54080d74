------------------------------ MODULE Optional ------------------------------
(***************************************************************************)
(* None: what a message, a report or a configuration has where nothing is  *)
(* given.                                                                  *)
(***************************************************************************)
EXTENDS Integers

CONSTANT Absent \* None

ASSUME AbsentAssumption == Absent \notin Int /\ Absent \notin BOOLEAN
=============================================================================
