---------------------------- MODULE ScanPromise ----------------------------
(***************************************************************************)
(* What a scan promises to whoever reads the store afterwards, whatever     *)
(* happens while it runs.  Each pair of a surface and a check it was asked  *)
(* for gets one verdict, which is not revised.  Findings are retired at one *)
(* time, when every pair has its verdict, and only on the strength of a     *)
(* verdict that says the check looked.  A run is completed after that, and  *)
(* says so when it left something out; a run that is broken off says so.    *)
(***************************************************************************)
EXTENDS Naturals, FiniteSets

VARIABLES
    asked,      \* the pairs the scan was asked for
    verdicts,   \* a partial function from pairs to verdicts
    retired,    \* the pairs whose findings were retired
    status,     \* "none", "running", "completed", "error"
    truncated   \* does the closed run say that something is missing

vars == <<asked, verdicts, retired, status, truncated>>

Decided == DOMAIN verdicts

Init ==
    /\ verdicts = <<>>
    /\ retired = {}
    /\ status = "none"
    /\ truncated = FALSE

Begin ==
    /\ status = "none"
    /\ status' \in {"running", "error"}
    /\ truncated' = (status' = "error")
    /\ UNCHANGED <<asked, verdicts, retired>>

\* Verdicts for some pairs that have none: one, or the rest of a surface.
Decide ==
    /\ status = "running"
    /\ retired = {}
    /\ DOMAIN verdicts' \subseteq asked
    /\ Decided \subseteq DOMAIN verdicts'
    /\ \A x \in Decided : verdicts'[x] = verdicts[x]
    /\ UNCHANGED <<asked, retired, status, truncated>>

Retire ==
    /\ status = "running"
    /\ Decided = asked
    /\ retired = {}
    /\ retired' \subseteq {x \in Decided : verdicts[x] \in {"clean", "finding"}}
    /\ UNCHANGED <<asked, verdicts, status, truncated>>

Complete ==
    /\ status = "running"
    /\ Decided = asked
    /\ status' = "completed"
    /\ truncated' \in BOOLEAN
    /\ (\E x \in Decided : verdicts[x] = "skipped") => truncated'
    /\ UNCHANGED <<asked, verdicts, retired>>

BreakOff ==
    /\ status = "running"
    /\ status' = "error"
    /\ truncated' = TRUE
    /\ UNCHANGED <<asked, verdicts, retired>>

Next == Begin \/ Decide \/ Retire \/ Complete \/ BreakOff

Spec == Init /\ [][Next]_vars

=============================================================================
