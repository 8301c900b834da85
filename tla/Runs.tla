-------------------------------- MODULE Runs --------------------------------
(***************************************************************************)
(* The run table (hx.run, records.abort_run): what each statement does to   *)
(* it.  A run is its number in the order the rows were opened, and a run    *)
(* table is a sequence of rows.  Times are in ticks of Idle or less.        *)
(***************************************************************************)
EXTENDS Integers, Sequences, FiniteSets

CONSTANT Idle       \* IDLE_CLOSE_US

ASSUME IdleIsTime == Idle \in Nat

Kinds == {"browse", "crawl", "manual", "scan"}
Endings == {"completed", "aborted", "error"}
Causes == {"none", "idle", "host", "operator", "stale", "distress", "agent", "scan",
           "outside"}

RunRow == [kind : Kinds, status : {"running"} \cup Endings, why : Causes,
           beat : Nat, issued : Nat, dropped : Nat]

NewRun(kind, at) ==
    [kind |-> kind, status |-> "running", why |-> "none", beat |-> at,
     issued |-> 0, dropped |-> 0]

OpenRun(rs, kind, at) == Append(rs, NewRun(kind, at))

Running(rs) == {r \in DOMAIN rs : rs[r].status = "running"}

\* Only a running run is ended, so the first cause stands: close_run,
\* abort_run and the reaper's statement.  Here for every run of a set.
EndRuns(rs, ids, status, why) ==
    [r \in DOMAIN rs |->
        IF r \in ids \cap Running(rs)
          THEN [rs[r] EXCEPT !.status = status, !.why = why]
          ELSE rs[r]]

CloseRun(rs, r, status, why) == EndRuns(rs, {r}, status, why)

\* Mutant: the abort without its WHERE status = 'running'.
MutantAbortRuns(rs, ids) ==
    [r \in DOMAIN rs |->
        IF r \in ids THEN [rs[r] EXCEPT !.status = "aborted", !.why = "distress"] ELSE rs[r]]

AbortRuns(rs, ids) == EndRuns(rs, ids, "aborted", "distress")

Heartbeat(rs, r, at) ==
    IF r \in Running(rs) THEN [rs EXCEPT ![r].beat = at] ELSE rs

\* These two count on a run that has ended, too.
CountDrop(rs, r) == [rs EXCEPT ![r].dropped = @ + 1]

\* Mutant: the counter guarded as the ending is.
MutantCountRequest(rs, r) ==
    IF r \in Running(rs) THEN [rs EXCEPT ![r].issued = @ + 1] ELSE rs

CountRequest(rs, r) == [rs EXCEPT ![r].issued = @ + 1]

\* current_run takes the run of its kind that was opened last, and joins it
\* unless it has been silent for longer than the idle window.
LiveOf(rs, kind) == {r \in Running(rs) : rs[r].kind = kind}
IsLatest(rs, kind, r) == r \in LiveOf(rs, kind) /\ \A q \in LiveOf(rs, kind) : q <= r
StillLive(rs, r, at) == at - rs[r].beat <= Idle

\* The reaper's window is twice as wide.
StaleRuns(rs, at) == {r \in Running(rs) : rs[r].beat < at - 2 * Idle}
=============================================================================
