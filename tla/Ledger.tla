------------------------------- MODULE Ledger -------------------------------
(***************************************************************************)
(* The run ledger of one engagement, as the processes that share the store  *)
(* write it: hosts of a session (`hx capture start`, `hx crawl`), each with *)
(* a main thread that opens and closes its run and a serve thread that      *)
(* records what the extension reports (hx.capture, BridgeServer._capture);  *)
(* `hx capture stop`; and the reaper of `hx info`.  A statement is a step,  *)
(* a transaction is one step, any of them may fail, a process may die       *)
(* between two.                                                             *)
(***************************************************************************)
EXTENDS Runs

CONSTANTS
    Hosts,          \* processes that hold a session
    Joins,          \* those that are `hx capture start`: they join a live run
    HostKind,       \* the kind of run each opens
    HostSources,    \* whose traffic each one's extension reports
    Instants,       \* at which the clock is read
    MaxRuns, MaxRecords,
    MaxMishaps      \* faults, crashes, halts and commands together

ASSUME LedgerAssumptions ==
    /\ IsFiniteSet(Hosts) /\ Joins \subseteq Hosts
    /\ MaxRuns \in Nat
    /\ Instants \subseteq Nat
    /\ HostKind \in [Hosts -> Kinds]
    /\ HostSources \in [Hosts -> SUBSET {"operator", "crawler"}]

Sources == {"operator", "crawler"}
RecordTypes == {"exchange", "denial", "dropped"}
Threads == Hosts \X {"main", "serve"}
Main(h) == <<h, "main">>
Serve(h) == <<h, "serve">>

VARIABLES
    clock,
    runs,       \* the run table
    rows,       \* per run, its exchange and denial rows
    link,       \* per host, the session: "off", "up", "gone" when it is lost, "over"
    work,       \* per thread, where it stands and what it is about
    cmd,        \* `hx capture stop` or `hx info`, whichever runs
    books,      \* per source, what the extension handed over (taken), what
                \* neither row nor count shows (swallowed), what died with its
                \* process (lost)
    mishaps     \* so far

vars == <<clock, runs, rows, link, work, cmd, books, mishaps>>

Free == [pc |-> "idle", frame |-> "none", source |-> "none", kind |-> "none",
         run |-> 0, ids |-> {}]

Init ==
    /\ clock = 0
    /\ runs = <<>>
    /\ rows = [r \in 1..MaxRuns |-> [exchange |-> 0, denial |-> 0]]
    /\ link = [h \in Hosts |-> "off"]
    /\ work = [t \in Threads |-> Free]
    /\ cmd = Free
    /\ books = [s \in Sources |-> [taken |-> 0, swallowed |-> 0, lost |-> 0]]
    /\ mishaps = 0

\* A quarter of an hour does not pass between two statements: what takes time
\* is waiting for the next frame, command or interrupt.
Tick == /\ clock' \in {at \in Instants : at > clock}
        /\ \A t \in Threads : work[t].pc \in {"idle", "live"}
        /\ cmd.pc = "idle"
        /\ UNCHANGED <<runs, rows, link, work, cmd, books, mishaps>>

Mishap == mishaps < MaxMishaps /\ mishaps' = mishaps + 1

Goto(t, pc) == work' = [work EXCEPT ![t].pc = pc]
Done(t) == work' = [work EXCEPT ![t] = Free]

-----------------------------------------------------------------------------
(* current_run, by whichever thread is at it. *)

\* Where a thread goes with its run.
WithRun(t) == IF t[2] = "main" THEN "live" ELSE "beat"

SelectRun(t) ==
    LET kind == work[t].kind
        Chosen(run, pc) == work' = [work EXCEPT ![t].run = run, ![t].pc = pc]
    IN
    /\ work[t].pc = "select"
    /\ \/ LiveOf(runs, kind) = {} /\ Chosen(0, "insert")
       \/ \E r \in LiveOf(runs, kind) :
             /\ IsLatest(runs, kind, r)
             /\ Chosen(r, IF StillLive(runs, r, clock) THEN WithRun(t) ELSE "close idle")
    /\ UNCHANGED <<clock, runs, rows, link, cmd, books, mishaps>>

CloseIdle(t) ==
    /\ work[t].pc = "close idle"
    /\ runs' = CloseRun(runs, work[t].run, "completed", "idle")
    /\ Goto(t, "insert")
    /\ UNCHANGED <<clock, rows, link, cmd, books, mishaps>>

InsertRun(t) ==
    /\ work[t].pc = "insert"
    /\ Len(runs) < MaxRuns
    /\ runs' = OpenRun(runs, work[t].kind, clock)
    /\ work' = [work EXCEPT ![t].run = Len(runs) + 1, ![t].pc = WithRun(t)]
    /\ UNCHANGED <<clock, rows, link, cmd, books, mishaps>>

-----------------------------------------------------------------------------
(* The serve thread: one frame of the extension at a time. *)

KindOf(source) == IF source = "crawler" THEN "crawl" ELSE "browse"
Taken == books["operator"].taken + books["crawler"].taken

\* A denial of a class that has no row to go in changes nothing and is not
\* modelled.
TakeRecord(h) ==
    /\ link[h] = "up" /\ work[Serve(h)].pc = "idle"
    /\ Taken < MaxRecords
    /\ \E t \in RecordTypes, s \in HostSources[h] :
          /\ work' = [work EXCEPT ![Serve(h)] = [Free EXCEPT
                        !.pc = "select", !.frame = t, !.source = s, !.kind = KindOf(s)]]
          /\ books' = [books EXCEPT ![s].taken = @ + 1]
    /\ UNCHANGED <<clock, runs, rows, link, cmd, mishaps>>

AfterBeat == [exchange |-> "commit", denial |-> "deny", dropped |-> "count"]

Beat(t) ==
    /\ work[t].pc = "beat"
    /\ runs' = Heartbeat(runs, work[t].run, clock)
    /\ Goto(t, AfterBeat[work[t].frame])
    /\ UNCHANGED <<clock, rows, link, cmd, books, mishaps>>

\* The blobs are on disk; the row, the run's counter and the surface go in
\* together.
Commit(t) ==
    /\ work[t].pc = "commit"
    /\ runs' = CountRequest(runs, work[t].run)
    /\ rows' = [rows EXCEPT ![work[t].run].exchange = @ + 1]
    /\ Done(t)
    /\ UNCHANGED <<clock, link, cmd, books, mishaps>>

Deny(t) ==
    /\ work[t].pc = "deny"
    /\ rows' = [rows EXCEPT ![work[t].run].denial = @ + 1]
    /\ Done(t)
    /\ UNCHANGED <<clock, runs, link, cmd, books, mishaps>>

Count(t) ==
    /\ work[t].pc = "count"
    /\ runs' = CountDrop(runs, work[t].run)
    /\ Done(t)
    /\ UNCHANGED <<clock, rows, link, cmd, books, mishaps>>

\* Mutant: the source is not carried across.
MutantCountAsDropped(w) ==
    IF w.frame = "dropped" THEN Free
    ELSE [Free EXCEPT !.pc = "select", !.frame = "dropped", !.source = w.source,
                      !.kind = "browse"]

\* What becomes of a record the sink raised on: it is handed back once, as
\* one dropped record of the same source, unless it was a drop report.
CountAsDropped(w) ==
    IF w.frame = "dropped" THEN Free
    ELSE [Free EXCEPT !.pc = "select", !.frame = "dropped", !.source = w.source,
                      !.kind = KindOf(w.source)]

Recording == {"select", "close idle", "insert", "beat", "commit", "deny", "count"}

RecordFails(h) ==
    LET w == work[Serve(h)] IN
    /\ w.pc \in Recording
    /\ Mishap
    /\ work' = [work EXCEPT ![Serve(h)] = CountAsDropped(w)]
    /\ books' = [books EXCEPT ![w.source].swallowed =
                    IF w.frame = "dropped" THEN @ + 1 ELSE @]
    /\ UNCHANGED <<clock, runs, rows, link, cmd>>

\* The target is in distress: every live run of the engagement is aborted.
\* The runs are looked up outside the transaction.
TakeHalted(h) ==
    /\ link[h] = "up" /\ work[Serve(h)].pc = "idle"
    /\ Running(runs) # {}
    /\ Mishap
    /\ work' = [work EXCEPT ![Serve(h)] = [Free EXCEPT !.pc = "abort", !.ids = Running(runs)]]
    /\ UNCHANGED <<clock, runs, rows, link, cmd, books>>

Abort(h) ==
    /\ work[Serve(h)].pc = "abort"
    /\ runs' = AbortRuns(runs, work[Serve(h)].ids)
    /\ Done(Serve(h))
    /\ UNCHANGED <<clock, rows, link, cmd, books, mishaps>>

\* A stop nobody wrote down: the connection is dropped.
AbortFails(h) ==
    /\ work[Serve(h)].pc = "abort"
    /\ Mishap
    /\ link' = [link EXCEPT ![h] = "gone"]
    /\ Done(Serve(h))
    /\ UNCHANGED <<clock, runs, rows, cmd, books>>

-----------------------------------------------------------------------------
(* The main thread of a host: the session opens before the run, and the run *)
(* is closed before the session.                                            *)

Start(h) ==
    /\ link[h] = "off"
    /\ link' = [link EXCEPT ![h] = "up"]
    /\ work' = [work EXCEPT ![Main(h)] = [Free EXCEPT
                  !.kind = HostKind[h],
                  !.pc = IF h \in Joins THEN "select" ELSE "insert"]]
    /\ UNCHANGED <<clock, runs, rows, cmd, books, mishaps>>

\* The operator interrupts, or the crawl is through: completed.  The crawl
\* raises, or the poll finds the session gone: error.
OwnEndings(h) ==
    IF link[h] = "gone" THEN {"error"}
    ELSE {"completed"} \cup (IF h \in Joins THEN {} ELSE {"error"})

Close(h) ==
    /\ work[Main(h)].pc = "live"
    /\ \E e \in OwnEndings(h) : runs' = CloseRun(runs, work[Main(h)].run, e, "host")
    /\ work' = [work EXCEPT ![Main(h)] = [Free EXCEPT !.pc = "teardown"]]
    /\ UNCHANGED <<clock, rows, link, cmd, books, mishaps>>

MainFails(h) ==
    /\ work[Main(h)].pc \in {"select", "close idle", "insert", "live"}
    /\ Mishap
    /\ work' = [work EXCEPT ![Main(h)] = [Free EXCEPT !.pc = "teardown"]]
    /\ UNCHANGED <<clock, runs, rows, link, cmd, books>>

\* The session's teardown joins the serve thread.
Teardown(h) ==
    /\ work[Main(h)].pc = "teardown" /\ work[Serve(h)].pc = "idle"
    /\ link' = [link EXCEPT ![h] = "over"]
    /\ Done(Main(h))
    /\ UNCHANGED <<clock, runs, rows, cmd, books, mishaps>>

\* The process dies, with what its serve thread had in hand.
Crash(h) ==
    LET w == work[Serve(h)] IN
    /\ work[Main(h)].pc # "idle"
    /\ Mishap
    /\ work' = [work EXCEPT ![Main(h)] = Free, ![Serve(h)] = Free]
    /\ link' = [link EXCEPT ![h] = "over"]
    /\ books' = IF w.source = "none" THEN books
                ELSE [books EXCEPT ![w.source].lost = @ + 1]
    /\ UNCHANGED <<clock, runs, rows, cmd>>

-----------------------------------------------------------------------------
(* Commands that look at the table and then change what they saw. *)

\* `hx capture stop` closes them in one transaction.
StopLooks ==
    /\ cmd.pc = "idle" /\ Running(runs) # {}
    /\ Mishap
    /\ cmd' = [Free EXCEPT !.pc = "stop", !.ids = Running(runs)]
    /\ UNCHANGED <<clock, runs, rows, link, work, books>>

StopCloses ==
    /\ cmd.pc = "stop"
    /\ runs' = EndRuns(runs, cmd.ids, "completed", "operator")
    /\ cmd' = Free
    /\ UNCHANGED <<clock, rows, link, work, books, mishaps>>

\* `hx info` reaps first: each stale run by a statement of its own.
InfoLooks ==
    /\ cmd.pc = "idle" /\ StaleRuns(runs, clock) # {}
    /\ Mishap
    /\ cmd' = [Free EXCEPT !.pc = "reap", !.ids = StaleRuns(runs, clock)]
    /\ UNCHANGED <<clock, runs, rows, link, work, books>>

Reap ==
    /\ cmd.pc = "reap"
    /\ \E r \in cmd.ids :
          /\ runs' = CloseRun(runs, r, "error", "stale")
          /\ cmd' = IF cmd.ids = {r} THEN Free ELSE [cmd EXCEPT !.ids = @ \ {r}]
    /\ UNCHANGED <<clock, rows, link, work, books, mishaps>>

Next ==
    \/ Tick
    \/ \E t \in Threads : SelectRun(t) \/ CloseIdle(t) \/ InsertRun(t)
    \/ \E t \in Threads : Beat(t) \/ Commit(t) \/ Deny(t) \/ Count(t)
    \/ \E h \in Hosts : TakeRecord(h) \/ RecordFails(h)
    \/ \E h \in Hosts : TakeHalted(h) \/ Abort(h) \/ AbortFails(h)
    \/ \E h \in Hosts : Start(h) \/ Close(h)
    \/ \E h \in Hosts : MainFails(h) \/ Teardown(h) \/ Crash(h)
    \/ StopLooks \/ StopCloses \/ InfoLooks \/ Reap

Spec == Init /\ [][Next]_vars
-----------------------------------------------------------------------------
(* The type invariant. *)
WorkType ==
    [pc : {"idle", "select", "close idle", "insert", "beat", "commit", "deny", "count",
           "abort", "live", "teardown", "stop", "reap"},
     frame : RecordTypes \cup {"none"}, source : Sources \cup {"none"},
     kind : Kinds \cup {"none"}, run : Nat, ids : SUBSET Nat]

TypeOK ==
    /\ clock \in Nat
    /\ runs \in Seq(RunRow) /\ Len(runs) <= MaxRuns
    /\ rows \in [1..MaxRuns -> [exchange : Nat, denial : Nat]]
    /\ link \in [Hosts -> {"off", "up", "gone", "over"}]
    /\ work \in [Threads -> WorkType]
    /\ cmd \in WorkType
    /\ books \in [Sources -> [taken : Nat, swallowed : Nat, lost : Nat]]
    /\ mishaps \in Nat

(* What a run says it issued is the number of exchanges filed under it, also *)
(* when the run ends, a write fails or the process dies in the middle of     *)
(* recording one (capture.on_exchange, one transaction).                     *)
BooksAgree ==
    \A r \in 1..MaxRuns :
        rows[r].exchange = IF r \in DOMAIN runs THEN runs[r].issued ELSE 0

(* A run ends once, for its first cause, and its counters never go back: an  *)
(* abort is not overwritten by the command that closes the run, nor a close  *)
(* by an abort or the reaper, each of which looked at the table earlier      *)
(* (run.close_run, records.abort_run, run.count_drop).                       *)
FirstEndStands ==
    [][\A r \in DOMAIN runs :
          /\ r \in DOMAIN runs'
          /\ runs[r].status # "running" =>
                /\ runs'[r].status = runs[r].status
                /\ runs'[r].why = runs[r].why
          /\ runs'[r].issued >= runs[r].issued
          /\ runs'[r].dropped >= runs[r].dropped]_vars

(* The coverage floor: every record the extension handed over, of either     *)
(* source, is a row of a run of that source's kind, or counted as dropped by *)
(* one, or still in hand -- unless its process died or the count itself      *)
(* failed (BridgeServer._capture and _count_as_dropped).                     *)
RunsFor(s) == {r \in DOMAIN runs : runs[r].kind = KindOf(s)}
Filed(r) == rows[r].exchange + rows[r].denial + runs[r].dropped
Entries(s) == UNION {{r} \X (1..Filed(r)) : r \in RunsFor(s)}
Holders(s) == {h \in Hosts : work[Serve(h)].source = s}

FloorHolds ==
    \A s \in Sources :
        books[s].taken = Cardinality(Entries(s)) + Cardinality(Holders(s))
                            + books[s].swallowed + books[s].lost
=============================================================================
