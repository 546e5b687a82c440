---- MODULE MCParts ----
(***************************************************************************)
(* What the small instances of the back office have in common: they take   *)
(* turns on one set of variables.  `part` says which instance is awake; it *)
(* uses v1, v2, ... as its variables.                                      *)
(***************************************************************************)
EXTENDS Integers, Sequences, FiniteSets

CONSTANT Workers   \* requests a part may have under way at once

ASSUME PartsAssumption == IsFiniteSet(Workers)

VARIABLES part,   \* which part is awake
          v1, v2, v3, v4, v5, v6, v7, v8, v9, v10, v11, v12   \* its variables; the rest stay 0

allVars == <<part, v1, v2, v3, v4, v5, v6, v7, v8, v9, v10, v11, v12>>

====
