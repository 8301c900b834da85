----------------------------- MODULE MCSendPath -----------------------------
(***************************************************************************)
(* Two targets, one of them outside the narrow configurations; budgets     *)
(* that differ: one asked for, one absent and one unusable.                *)
(***************************************************************************)
EXTENDS SendPath

CONSTANTS a, b

MCTargets == {a, b}
MCConfigs == { [targets |-> {a}, budget |-> Absent],
               [targets |-> {a, b}, budget |-> 1],
               [targets |-> {a}, budget |-> Unusable] }
=============================================================================
