---------------------------- MODULE LedgerProofs ----------------------------
(***************************************************************************)
(* The ledger, for any number of processes, runs, records and faults: the   *)
(* count a run carries is the number of exchanges filed under it, and an    *)
(* ended run is never written again.                                        *)
(***************************************************************************)
EXTENDS Ledger, SequenceTheorems, FiniteSetTheorems, TLAPS

(***************************************************************************)
(* What the statements on the run table leave alone, for any table.         *)
(***************************************************************************)
\* A table whose rows are changed in place is a table of the same length.
LEMMA InPlace ==
    ASSUME NEW rs \in Seq(RunRow), NEW f \in [DOMAIN rs -> RunRow]
    PROVE  f \in Seq(RunRow) /\ Len(f) = Len(rs) /\ DOMAIN f = DOMAIN rs
  <1>1. DOMAIN rs = 1..Len(rs) /\ Len(rs) \in Nat
    BY LenProperties
  <1>2. f \in [1..Len(rs) -> RunRow]
    BY <1>1
  <1>3. f \in Seq(RunRow)
    BY <1>1, <1>2, SeqDef
  <1>4. DOMAIN f = 1..Len(f) /\ Len(f) \in Nat
    BY <1>3, LenProperties
  <1>5. QED
    BY <1>1, <1>2, <1>3, <1>4

\* Ending runs changes no run that has ended, and of the others only how they
\* stand.
LEMMA EndRunsKeeps ==
    ASSUME NEW rs \in Seq(RunRow), NEW ids, NEW status \in Endings, NEW why \in Causes
    PROVE  LET es == EndRuns(rs, ids, status, why) IN
           /\ es \in Seq(RunRow) /\ Len(es) = Len(rs) /\ DOMAIN es = DOMAIN rs
           /\ \A r \in DOMAIN rs :
                 /\ es[r].kind = rs[r].kind
                 /\ es[r].issued = rs[r].issued
                 /\ es[r].dropped = rs[r].dropped
                 /\ rs[r].status # "running" => es[r] = rs[r]
  <1> DEFINE es == EndRuns(rs, ids, status, why)
  <1>1. \A r \in DOMAIN rs : rs[r] \in RunRow
    BY ElementOfSeq, LenProperties
  <1>2. es \in [DOMAIN rs -> RunRow]
    BY <1>1 DEF EndRuns, Running, RunRow
  <1>3. es \in Seq(RunRow) /\ Len(es) = Len(rs) /\ DOMAIN es = DOMAIN rs
    BY <1>2, InPlace
  <1>4. \A r \in DOMAIN rs :
           /\ es[r].kind = rs[r].kind
           /\ es[r].issued = rs[r].issued
           /\ es[r].dropped = rs[r].dropped
           /\ rs[r].status # "running" => es[r] = rs[r]
    BY <1>1 DEF EndRuns, Running, RunRow
  <1>5. QED
    BY <1>3, <1>4

\* A new run is the last, and has issued nothing.
LEMMA OpenRunAdds ==
    ASSUME NEW rs \in Seq(RunRow), NEW kind \in Kinds, NEW at \in Nat
    PROVE  LET os == OpenRun(rs, kind, at) IN
           /\ os \in Seq(RunRow) /\ Len(os) = Len(rs) + 1
           /\ Len(rs) \in Nat
           /\ DOMAIN rs = 1..Len(rs) /\ DOMAIN os = 1..(Len(rs) + 1)
           /\ \A r \in DOMAIN rs : os[r] = rs[r]
           /\ os[Len(rs) + 1].issued = 0 /\ os[Len(rs) + 1].dropped = 0
           /\ os[Len(rs) + 1].kind = kind
  <1>1. NewRun(kind, at) \in RunRow
    BY DEF NewRun, RunRow, Causes
  <1>2. QED
    BY <1>1, AppendProperties, LenProperties DEF OpenRun, NewRun

\* The statements on one row that may have ended.
LEMMA CountersCount ==
    ASSUME NEW rs \in Seq(RunRow), NEW r \in DOMAIN rs, NEW at \in Nat
    PROVE  /\ CountRequest(rs, r) \in Seq(RunRow)
           /\ CountDrop(rs, r) \in Seq(RunRow)
           /\ Heartbeat(rs, r, at) \in Seq(RunRow)
           /\ Len(CountRequest(rs, r)) = Len(rs)
           /\ Len(CountDrop(rs, r)) = Len(rs)
           /\ Len(Heartbeat(rs, r, at)) = Len(rs)
           /\ CountRequest(rs, r) = [rs EXCEPT ![r].issued = rs[r].issued + 1]
  <1>1. \A q \in DOMAIN rs : rs[q] \in RunRow
    BY ElementOfSeq, LenProperties
  <1>2. rs \in [DOMAIN rs -> RunRow]
    BY <1>1, LenProperties
  <1>3. CountRequest(rs, r) \in [DOMAIN rs -> RunRow]
    <2>1. [rs[r] EXCEPT !.issued = rs[r].issued + 1] \in RunRow
      <3>1. rs[r] \in RunRow /\ rs[r].issued + 1 \in Nat
        BY <1>1 DEF RunRow
      <3>2. QED
        BY <3>1 DEF RunRow
    <2>2. QED
      BY <1>2, <2>1 DEF CountRequest
  <1>4. CountDrop(rs, r) \in [DOMAIN rs -> RunRow]
    <2>1. [rs[r] EXCEPT !.dropped = rs[r].dropped + 1] \in RunRow
      <3>1. rs[r] \in RunRow /\ rs[r].dropped + 1 \in Nat
        BY <1>1 DEF RunRow
      <3>2. QED
        BY <3>1 DEF RunRow
    <2>2. QED
      BY <1>2, <2>1 DEF CountDrop
  <1>5. Heartbeat(rs, r, at) \in [DOMAIN rs -> RunRow]
    <2>1. [rs[r] EXCEPT !.beat = at] \in RunRow
      BY <1>1 DEF RunRow
    <2>2. QED
      BY <1>2, <2>1 DEF Heartbeat
  <1>6. QED
    BY <1>3, <1>4, <1>5, InPlace DEF CountRequest

\* What the statements on one row leave alone.
LEMMA CountersKeep ==
    ASSUME NEW rs \in Seq(RunRow), NEW r \in DOMAIN rs, NEW at \in Nat
    PROVE  \A q \in DOMAIN rs :
              /\ CountRequest(rs, r)[q].kind = rs[q].kind
              /\ CountRequest(rs, r)[q].dropped = rs[q].dropped
              /\ CountDrop(rs, r)[q].kind = rs[q].kind
              /\ CountDrop(rs, r)[q].dropped = rs[q].dropped + (IF q = r THEN 1 ELSE 0)
              /\ Heartbeat(rs, r, at)[q].kind = rs[q].kind
              /\ Heartbeat(rs, r, at)[q].dropped = rs[q].dropped
  <1> SUFFICES ASSUME NEW q \in DOMAIN rs
               PROVE  /\ CountRequest(rs, r)[q].kind = rs[q].kind
                      /\ CountRequest(rs, r)[q].dropped = rs[q].dropped
                      /\ CountDrop(rs, r)[q].kind = rs[q].kind
                      /\ CountDrop(rs, r)[q].dropped
                            = rs[q].dropped + (IF q = r THEN 1 ELSE 0)
                      /\ Heartbeat(rs, r, at)[q].kind = rs[q].kind
                      /\ Heartbeat(rs, r, at)[q].dropped = rs[q].dropped
    OBVIOUS
  <1>1. rs[q] \in RunRow /\ rs[r] \in RunRow
    BY ElementOfSeq, LenProperties
  <1>2. rs[q].dropped \in Nat
    BY <1>1 DEF RunRow
  <1>3. /\ CountRequest(rs, r)[q].kind = rs[q].kind
        /\ CountRequest(rs, r)[q].dropped = rs[q].dropped
    BY <1>1 DEF CountRequest, RunRow
  <1>4. CountDrop(rs, r)[q].kind = rs[q].kind
    BY <1>1 DEF CountDrop, RunRow
  <1>5. CountDrop(rs, r)[q].dropped = rs[q].dropped + (IF q = r THEN 1 ELSE 0)
    <2>1. CASE q = r
      <3>1. [rs[r] EXCEPT !.dropped = @ + 1].dropped = rs[r].dropped + 1
        BY <1>1 DEF RunRow
      <3>2. QED
        BY <2>1, <3>1 DEF CountDrop
    <2>2. CASE q # r
      <3>1. CountDrop(rs, r)[q] = rs[q]
        BY <2>2 DEF CountDrop
      <3>2. QED
        BY <1>2, <2>2, <3>1
    <2>3. QED
      BY <2>1, <2>2
  <1>6. /\ Heartbeat(rs, r, at)[q].kind = rs[q].kind
        /\ Heartbeat(rs, r, at)[q].dropped = rs[q].dropped
    BY <1>1 DEF Heartbeat, RunRow
  <1>7. QED
    BY <1>3, <1>4, <1>5, <1>6

(***************************************************************************)
(* The books.                                                               *)
(***************************************************************************)

\* A thread that is about to write a run has one, one that is about to open a
\* run knows its kind, and the serve thread knows what it records.
Fit(w, t, rs) ==
    /\ w \in WorkType
    /\ w.pc \in {"close idle", "beat", "commit", "deny", "count", "live"}
          => w.run \in DOMAIN rs
    /\ w.pc \in {"select", "close idle", "insert"} => w.kind \in Kinds
    /\ w.pc \in {"select", "close idle", "insert"} /\ t[2] # "main"
          => w.frame \in RecordTypes
    /\ w.pc = "beat" => w.frame \in RecordTypes

Works(ws, rs) ==
    /\ ws \in [Threads -> WorkType]
    /\ \A t \in Threads : Fit(ws[t], t, rs)

Table ==
    /\ runs \in Seq(RunRow) /\ Len(runs) <= MaxRuns
    /\ rows \in [1..MaxRuns -> [exchange : Nat, denial : Nat]]
    /\ BooksAgree

IInv == clock \in Nat /\ Table /\ Works(work, runs)

\* What FirstEndStands says of a step.
Kept(rs, rs2) ==
    \A r \in DOMAIN rs :
       /\ r \in DOMAIN rs2
       /\ rs[r].status # "running" =>
             rs2[r].status = rs[r].status /\ rs2[r].why = rs[r].why
       /\ rs2[r].issued >= rs[r].issued
       /\ rs2[r].dropped >= rs[r].dropped

Good == IInv' /\ Kept(runs, runs')

LEMMA FreeFits ==
    ASSUME NEW t, NEW rs
    PROVE  Fit(Free, t, rs)
  BY DEF Fit, Free, WorkType

\* One thread moves, and no run goes away.
LEMMA Reworked ==
    ASSUME NEW rs, NEW rs2, DOMAIN rs \subseteq DOMAIN rs2,
           NEW ws, Works(ws, rs),
           NEW t \in Threads, NEW w, Fit(w, t, rs2)
    PROVE  Works([ws EXCEPT ![t] = w], rs2)
  <1> DEFINE ws2 == [ws EXCEPT ![t] = w]
  <1>1. w \in WorkType /\ ws \in [Threads -> WorkType]
    BY DEF Fit, Works
  <1>2. ws2 \in [Threads -> WorkType] /\ ws2[t] = w
    BY <1>1
  <1>3. ASSUME NEW u \in Threads
        PROVE  Fit(ws2[u], u, rs2)
    <2>1. CASE u = t
      BY <1>2, <2>1
    <2>2. CASE u # t
      <3>1. ws2[u] = ws[u] /\ Fit(ws[u], u, rs)
        BY <1>1, <2>2 DEF Works
      <3>2. QED
        BY <3>1 DEF Fit
    <2>3. QED
      BY <2>1, <2>2
  <1>4. QED
    BY <1>2, <1>3 DEF Works

\* The same threads, and no run goes away.
LEMMA StillFit ==
    ASSUME NEW rs, NEW rs2, DOMAIN rs \subseteq DOMAIN rs2, NEW ws, Works(ws, rs)
    PROVE  Works(ws, rs2)
  BY DEF Works, Fit

\* A table that is not touched.
LEMMA SameTable ==
    ASSUME Table, UNCHANGED <<runs, rows>>
    PROVE  Table' /\ Kept(runs, runs') /\ DOMAIN runs \subseteq DOMAIN runs'
  <1>1. \A r \in DOMAIN runs : runs[r] \in RunRow
    BY ElementOfSeq, LenProperties DEF Table
  <1>2. \A r \in DOMAIN runs : runs[r].issued \in Nat /\ runs[r].dropped \in Nat
    BY <1>1 DEF RunRow
  <1>3. QED
    BY <1>2 DEF Table, Kept, BooksAgree

\* A table some of whose runs are ended.
LEMMA EndedTable ==
    ASSUME Table, NEW ids, NEW status \in Endings, NEW why \in Causes,
           runs' = EndRuns(runs, ids, status, why), rows' = rows
    PROVE  Table' /\ Kept(runs, runs') /\ DOMAIN runs \subseteq DOMAIN runs'
  <1>1. /\ runs' \in Seq(RunRow) /\ Len(runs') = Len(runs)
        /\ DOMAIN runs' = DOMAIN runs
        /\ \A r \in DOMAIN runs :
              /\ runs'[r].issued = runs[r].issued
              /\ runs'[r].dropped = runs[r].dropped
              /\ runs[r].status # "running" => runs'[r] = runs[r]
    BY EndRunsKeeps DEF Table
  <1>2. \A r \in DOMAIN runs : runs[r] \in RunRow
    BY ElementOfSeq, LenProperties DEF Table
  <1>3. \A r \in DOMAIN runs : runs[r].issued \in Nat /\ runs[r].dropped \in Nat
    BY <1>2 DEF RunRow
  <1>4. Kept(runs, runs')
    BY <1>1, <1>3 DEF Kept
  <1>5. BooksAgree'
    BY <1>1 DEF Table, BooksAgree
  <1>6. QED
    BY <1>1, <1>4, <1>5 DEF Table
-----------------------------------------------------------------------------
LEMMA InitHolds == Init => IInv
  <1> SUFFICES ASSUME Init PROVE IInv
    OBVIOUS
  <1>1. runs = <<>> /\ Len(runs) = 0 /\ DOMAIN runs = {} /\ runs \in Seq(RunRow)
    BY LenProperties, EmptySeq DEF Init
  <1>2. Table
    BY <1>1, LedgerAssumptions DEF Init, Table, BooksAgree
  <1>3. Works(work, runs)
    BY FreeFits DEF Init, Works, Fit, Free, WorkType
  <1>4. QED
    BY <1>2, <1>3 DEF Init, IInv
-----------------------------------------------------------------------------
(* Steps that leave the table alone. *)

LEMMA WorkOnly ==
    ASSUME IInv, UNCHANGED <<clock, runs, rows>>, Works(work', runs)
    PROVE  Good
  BY SameTable DEF IInv, Good

LEMMA SelectRunGood ==
    ASSUME IInv, NEW t \in Threads, SelectRun(t)
    PROVE  Good
  <1>1. Fit(work[t], t, runs) /\ work[t] \in WorkType /\ work[t].pc = "select"
    BY DEF IInv, Works, SelectRun
  <1>2. work[t].kind \in Kinds
    BY <1>1 DEF Fit
  <1>3. \E run, pc : /\ work' = [work EXCEPT ![t].run = run, ![t].pc = pc]
                     /\ \/ run = 0 /\ pc = "insert"
                        \/ run \in DOMAIN runs /\ pc \in {WithRun(t), "close idle"}
    BY DEF SelectRun, IsLatest, LiveOf, Running
  <1>4. PICK run, pc : /\ work' = [work EXCEPT ![t].run = run, ![t].pc = pc]
                       /\ \/ run = 0 /\ pc = "insert"
                          \/ run \in DOMAIN runs /\ pc \in {WithRun(t), "close idle"}
    BY <1>3
  <1> DEFINE w == [work[t] EXCEPT !.run = run, !.pc = pc]
  <1>5. work' = [work EXCEPT ![t] = w]
    BY <1>4
  <1>6. run \in Nat
    <2>1. DOMAIN runs \subseteq Nat
      BY LenProperties DEF IInv, Table
    <2>2. run = 0 \/ run \in DOMAIN runs
      BY <1>4
    <2>3. QED
      BY <2>1, <2>2
  <1>7. Fit(w, t, runs)
    <2>1. pc \in {"insert", "close idle", "live", "beat"}
      BY <1>4 DEF WithRun
    <2>2. /\ w \in WorkType /\ w.pc = pc /\ w.run = run
          /\ w.kind = work[t].kind /\ w.frame = work[t].frame
      BY <1>1, <1>6, <2>1 DEF WorkType
    <2>3. pc # "insert" => run \in DOMAIN runs
      BY <1>4
    <2>4. t[2] # "main" => work[t].frame \in RecordTypes
      BY <1>1 DEF Fit
    <2>5. pc = "beat" => t[2] # "main"
      BY <1>4 DEF WithRun
    <2>6. QED
      BY <1>2, <2>1, <2>2, <2>3, <2>4, <2>5 DEF Fit
  <1>8. Works(work', runs)
    BY <1>5, <1>7, Reworked DEF IInv
  <1>9. QED
    BY <1>8, WorkOnly DEF SelectRun

LEMMA TakeRecordGood ==
    ASSUME IInv, NEW h \in Hosts, TakeRecord(h)
    PROVE  Good
  <1>1. PICK y \in RecordTypes, s \in HostSources[h] :
           work' = [work EXCEPT ![Serve(h)] = [Free EXCEPT
                      !.pc = "select", !.frame = y, !.source = s, !.kind = KindOf(s)]]
    BY DEF TakeRecord
  <1>2. s \in Sources
    BY LedgerAssumptions DEF Sources
  <1> DEFINE w == [Free EXCEPT
                     !.pc = "select", !.frame = y, !.source = s, !.kind = KindOf(s)]
  <1>3. Fit(w, Serve(h), runs)
    BY <1>2 DEF Fit, Free, WorkType, KindOf, Kinds, RecordTypes
  <1>4. Works(work', runs)
    BY <1>1, <1>3, Reworked DEF IInv, Threads, Serve
  <1>5. QED
    BY <1>4, WorkOnly DEF TakeRecord

LEMMA RecordFailsGood ==
    ASSUME IInv, NEW h \in Hosts, RecordFails(h)
    PROVE  Good
  <1>1. Serve(h) \in Threads /\ work[Serve(h)] \in WorkType
    BY DEF IInv, Works, Threads, Serve
  <1>2. Fit(CountAsDropped(work[Serve(h)]), Serve(h), runs)
    <2> DEFINE w == work[Serve(h)]
               w2 == [Free EXCEPT !.pc = "select", !.frame = "dropped",
                                  !.source = w.source, !.kind = KindOf(w.source)]
    <2>1. CountAsDropped(w) = Free \/ CountAsDropped(w) = w2
      BY DEF CountAsDropped
    <2>2. KindOf(w.source) \in Kinds /\ w.source \in Sources \cup {"none"}
      BY <1>1 DEF KindOf, Kinds, WorkType
    <2>3. Fit(w2, Serve(h), runs)
      BY <2>2 DEF Fit, Free, WorkType, RecordTypes
    <2>4. QED
      BY <2>1, <2>3, FreeFits
  <1>3. Works(work', runs)
    BY <1>1, <1>2, Reworked DEF IInv, RecordFails
  <1>4. QED
    BY <1>3, WorkOnly DEF RecordFails

LEMMA TakeHaltedGood ==
    ASSUME IInv, NEW h \in Hosts, TakeHalted(h)
    PROVE  Good
  <1>1. Serve(h) \in Threads
    BY DEF Threads, Serve
  <1>2. Running(runs) \in SUBSET Nat
    <2>1. DOMAIN runs = 1..Len(runs)
      BY LenProperties DEF IInv, Table
    <2>2. QED
      BY <2>1 DEF Running
  <1>3. Fit([Free EXCEPT !.pc = "abort", !.ids = Running(runs)], Serve(h), runs)
    BY <1>2 DEF Fit, Free, WorkType
  <1>4. Works(work', runs)
    BY <1>1, <1>3, Reworked DEF IInv, TakeHalted
  <1>5. QED
    BY <1>4, WorkOnly DEF TakeHalted

\* A thread that gives up what it was at.
LEMMA GivenUpGood ==
    ASSUME IInv, NEW t \in Threads, NEW pc \in {"idle", "teardown"},
           work' = [work EXCEPT ![t] = [Free EXCEPT !.pc = pc]],
           UNCHANGED <<clock, runs, rows>>
    PROVE  Good
  <1>1. Fit([Free EXCEPT !.pc = pc], t, runs)
    BY DEF Fit, Free, WorkType
  <1>2. Works(work', runs)
    BY <1>1, Reworked DEF IInv
  <1>3. QED
    BY <1>2, WorkOnly

LEMMA StartGood ==
    ASSUME IInv, NEW h \in Hosts, Start(h)
    PROVE  Good
  <1>1. Main(h) \in Threads /\ HostKind[h] \in Kinds
    BY LedgerAssumptions DEF Threads, Main
  <1>2. Fit([Free EXCEPT !.kind = HostKind[h],
                         !.pc = IF h \in Joins THEN "select" ELSE "insert"],
            Main(h), runs)
    BY <1>1 DEF Fit, Free, WorkType, Main
  <1>3. Works(work', runs)
    BY <1>1, <1>2, Reworked DEF IInv, Start
  <1>4. QED
    BY <1>3, WorkOnly DEF Start

LEMMA CrashGood ==
    ASSUME IInv, NEW h \in Hosts, Crash(h)
    PROVE  Good
  <1>1. Main(h) \in Threads /\ Serve(h) \in Threads
    BY DEF Threads, Main, Serve
  <1> DEFINE ws == [work EXCEPT ![Main(h)] = Free]
  <1>2. Works(ws, runs)
    BY <1>1, FreeFits, Reworked DEF IInv
  <1>3. Works([ws EXCEPT ![Serve(h)] = Free], runs)
    BY <1>1, <1>2, FreeFits, Reworked
  <1>4. Works(work', runs)
    BY <1>3 DEF Crash
  <1>5. QED
    BY <1>4, WorkOnly DEF Crash
-----------------------------------------------------------------------------
(* Steps that end runs. *)

\* Some runs are ended, and one thread may move on.
LEMMA EndingGood ==
    ASSUME IInv, NEW ids, NEW status \in Endings, NEW why \in Causes,
           runs' = EndRuns(runs, ids, status, why), UNCHANGED <<clock, rows>>,
           \/ work' = work
           \/ \E t \in Threads : \E w :
                  work' = [work EXCEPT ![t] = w] /\ Fit(w, t, runs)
    PROVE  Good
  <1>1. Table' /\ Kept(runs, runs') /\ DOMAIN runs \subseteq DOMAIN runs'
    BY EndedTable DEF IInv
  <1>2. Works(work', runs)
    BY Reworked DEF IInv
  <1>3. Works(work', runs')
    BY <1>1, <1>2, StillFit
  <1>4. QED
    BY <1>1, <1>3 DEF IInv, Good

LEMMA CloseIdleGood ==
    ASSUME IInv, NEW t \in Threads, CloseIdle(t)
    PROVE  Good
  <1> DEFINE w == [work[t] EXCEPT !.pc = "insert"]
  <1>1. Fit(work[t], t, runs) /\ work[t] \in WorkType /\ work[t].pc = "close idle"
    BY DEF IInv, Works, CloseIdle
  <1>2. Fit(w, t, runs)
    BY <1>1 DEF Fit, WorkType
  <1>3. work' = [work EXCEPT ![t] = w]
    BY DEF CloseIdle, Goto
  <1>4. QED
    BY <1>2, <1>3, EndingGood DEF CloseIdle, CloseRun, Endings, Causes

LEMMA AbortGood ==
    ASSUME IInv, NEW h \in Hosts, Abort(h)
    PROVE  Good
  <1>1. Serve(h) \in Threads
    BY DEF Threads, Serve
  <1>2. work' = [work EXCEPT ![Serve(h)] = Free]
    BY DEF Abort, Done
  <1>3. QED
    BY <1>1, <1>2, FreeFits, EndingGood DEF Abort, AbortRuns, Endings, Causes

LEMMA CloseGood ==
    ASSUME IInv, NEW h \in Hosts, Close(h)
    PROVE  Good
  <1> DEFINE w == [Free EXCEPT !.pc = "teardown"]
  <1>1. Main(h) \in Threads /\ work' = [work EXCEPT ![Main(h)] = w]
    BY DEF Close, Threads, Main
  <1>2. Fit(w, Main(h), runs)
    BY DEF Fit, Free, WorkType
  <1>3. PICK e \in OwnEndings(h) :
           runs' = EndRuns(runs, {work[Main(h)].run}, e, "host")
    BY DEF Close, CloseRun
  <1>4. e \in Endings
    BY DEF OwnEndings, Endings
  <1>5. QED
    BY <1>1, <1>2, <1>3, <1>4, EndingGood DEF Close, Causes

LEMMA CommandsGood ==
    ASSUME IInv, StopCloses \/ Reap
    PROVE  Good
  <1>1. CASE StopCloses
    BY <1>1, EndingGood DEF StopCloses, Endings, Causes
  <1>2. CASE Reap
    BY <1>2, EndingGood DEF Reap, CloseRun, Endings, Causes
  <1>3. QED
    BY <1>1, <1>2
-----------------------------------------------------------------------------
(* Steps that write one run. *)

\* A new run: no row is filed under it, since none was filed under its number.
LEMMA InsertRunGood ==
    ASSUME IInv, NEW t \in Threads, InsertRun(t)
    PROVE  Good
  <1> DEFINE n == Len(runs) + 1
             w == [work[t] EXCEPT !.run = n, !.pc = WithRun(t)]
  <1>1. Fit(work[t], t, runs) /\ work[t] \in WorkType /\ work[t].pc = "insert"
    BY DEF IInv, Works, InsertRun
  <1>2. work[t].kind \in Kinds
    BY <1>1 DEF Fit
  <1>3. /\ runs' = OpenRun(runs, work[t].kind, clock)
        /\ rows' = rows /\ clock' = clock /\ Len(runs) < MaxRuns
        /\ work' = [work EXCEPT ![t] = w]
    BY DEF InsertRun
  <1>4. runs \in Seq(RunRow) /\ clock \in Nat /\ BooksAgree /\ Works(work, runs)
    BY DEF IInv, Table
  <1>5. /\ runs' \in Seq(RunRow) /\ Len(runs') = n /\ Len(runs) \in Nat
        /\ DOMAIN runs = 1..Len(runs) /\ DOMAIN runs' = 1..n
        /\ \A r \in DOMAIN runs : runs'[r] = runs[r]
        /\ runs'[n].issued = 0
    BY <1>2, <1>3, <1>4, OpenRunAdds
  <1>6. Kept(runs, runs')
    <2>1. \A r \in DOMAIN runs : runs[r] \in RunRow
      BY <1>4, ElementOfSeq, LenProperties
    <2>2. \A r \in DOMAIN runs : runs[r].issued \in Nat /\ runs[r].dropped \in Nat
      BY <2>1 DEF RunRow
    <2>3. QED
      BY <1>5, <2>2 DEF Kept
  <1>7. BooksAgree'
    <2>1. n \notin DOMAIN runs /\ DOMAIN runs' = DOMAIN runs \cup {n}
      BY <1>5
    <2>2. QED
      BY <1>3, <1>4, <1>5, <2>1 DEF BooksAgree
  <1>8. Table'
    BY <1>3, <1>5, <1>7, LedgerAssumptions DEF IInv, Table
  <1>9. Works(work', runs')
    <2>1. DOMAIN runs \subseteq DOMAIN runs'
      BY <1>5
    <2>2. WithRun(t) \in {"live", "beat"} /\ (WithRun(t) = "beat" => t[2] # "main")
      BY DEF WithRun
    <2>3. /\ w \in WorkType /\ w.pc = WithRun(t) /\ w.run = n
          /\ w.frame = work[t].frame
      <3>1. n \in Nat
        BY <1>5
      <3> HIDE DEF n
      <3>2. QED
        BY <1>1, <3>1, <2>2 DEF WorkType
    <2>4. t[2] # "main" => work[t].frame \in RecordTypes
      BY <1>1 DEF Fit
    <2>5. n \in DOMAIN runs'
      BY <1>5
    <2>6. Fit(w, t, runs')
      BY <2>2, <2>3, <2>4, <2>5 DEF Fit
    <2>7. QED
      BY <1>3, <1>4, <2>1, <2>6, Reworked
  <1>10. QED
    BY <1>3, <1>4, <1>6, <1>8, <1>9 DEF IInv, Good

\* A run of the table is written in place, and its thread goes on.
LEMMA WrittenGood ==
    ASSUME IInv, NEW t \in Threads, NEW w, Fit(w, t, runs),
           work' = [work EXCEPT ![t] = w], clock' = clock,
           runs' \in Seq(RunRow), Len(runs') = Len(runs),
           Kept(runs, runs'), rows' \in [1..MaxRuns -> [exchange : Nat, denial : Nat]],
           BooksAgree'
    PROVE  Good
  <1>1. DOMAIN runs' = DOMAIN runs
    BY LenProperties DEF IInv, Table
  <1>2. Works(work', runs')
    <2>1. Works(work', runs)
      BY Reworked DEF IInv
    <2>2. QED
      BY <1>1, <2>1, StillFit
  <1>3. QED
    BY <1>2 DEF IInv, Good, Table

\* What a thread with a run in hand may rely on.
LEMMA InHandIsThere ==
    ASSUME IInv, NEW t \in Threads, work[t].pc \in {"beat", "commit", "deny", "count"}
    PROVE  /\ work[t] \in WorkType
           /\ work[t].run \in DOMAIN runs /\ work[t].run \in 1..MaxRuns
           /\ DOMAIN runs = 1..Len(runs) /\ Len(runs) \in Nat
           /\ work[t].pc = "beat" => work[t].frame \in RecordTypes
           /\ runs \in Seq(RunRow) /\ clock \in Nat
           /\ \A r \in DOMAIN runs :
                 runs[r] \in RunRow /\ runs[r].issued \in Nat /\ runs[r].dropped \in Nat
           /\ rows \in [1..MaxRuns -> [exchange : Nat, denial : Nat]]
           /\ BooksAgree
  <1>1. Fit(work[t], t, runs)
    BY DEF IInv, Works
  <1>2. runs \in Seq(RunRow) /\ Len(runs) <= MaxRuns
    BY DEF IInv, Table
  <1>3. DOMAIN runs = 1..Len(runs) /\ Len(runs) \in Nat
    BY <1>2, LenProperties
  <1>4. work[t].run \in DOMAIN runs
    BY <1>1 DEF Fit
  <1>5. work[t].run \in 1..MaxRuns
    BY <1>2, <1>3, <1>4, LedgerAssumptions
  <1>6. \A r \in DOMAIN runs : runs[r] \in RunRow
    BY <1>2, ElementOfSeq, LenProperties
  <1>7. \A r \in DOMAIN runs : runs[r].issued \in Nat /\ runs[r].dropped \in Nat
    BY <1>6 DEF RunRow
  <1>8. QED
    BY <1>1, <1>2, <1>3, <1>4, <1>5, <1>6, <1>7 DEF IInv, Table, Fit

LEMMA BeatGood ==
    ASSUME IInv, NEW t \in Threads, Beat(t)
    PROVE  Good
  <1> DEFINE w == [work[t] EXCEPT !.pc = AfterBeat[work[t].frame]]
             r == work[t].run
  <1>1. /\ work[t].pc = "beat" /\ runs' = Heartbeat(runs, r, clock)
        /\ work' = [work EXCEPT ![t] = w] /\ clock' = clock /\ rows' = rows
    BY DEF Beat, Goto
  <1>2. /\ work[t] \in WorkType /\ r \in DOMAIN runs
        /\ work[t].frame \in RecordTypes /\ runs \in Seq(RunRow) /\ clock \in Nat
        /\ \A q \in DOMAIN runs :
              runs[q] \in RunRow /\ runs[q].issued \in Nat /\ runs[q].dropped \in Nat
        /\ BooksAgree
    BY <1>1, InHandIsThere
  <1>3. AfterBeat[work[t].frame] \in {"commit", "deny", "count"}
    BY <1>2 DEF AfterBeat, RecordTypes
  <1>4. Fit(w, t, runs)
    BY <1>2, <1>3 DEF Fit, WorkType
  <1>5. runs' \in Seq(RunRow) /\ Len(runs') = Len(runs) /\ DOMAIN runs' = DOMAIN runs
    BY <1>1, <1>2, CountersCount, LenProperties
  <1>6. \A q \in DOMAIN runs :
           /\ runs'[q].status = runs[q].status /\ runs'[q].why = runs[q].why
           /\ runs'[q].issued = runs[q].issued
           /\ runs'[q].dropped = runs[q].dropped
    BY <1>1, <1>2 DEF Heartbeat, RunRow
  <1>7. Kept(runs, runs')
    BY <1>2, <1>5, <1>6 DEF Kept
  <1>8. BooksAgree'
    BY <1>1, <1>2, <1>5, <1>6 DEF BooksAgree
  <1>9. QED
    BY <1>1, <1>4, <1>5, <1>7, <1>8, WrittenGood DEF IInv, Table
\* The exchange and the count of it go in together.
LEMMA CommitGood ==
    ASSUME IInv, NEW t \in Threads, Commit(t)
    PROVE  Good
  <1> DEFINE r == work[t].run
  <1>1. /\ work[t].pc = "commit" /\ runs' = CountRequest(runs, r)
        /\ rows' = [rows EXCEPT ![r].exchange = @ + 1]
        /\ work' = [work EXCEPT ![t] = Free] /\ clock' = clock
    BY DEF Commit, Done
  <1>2. /\ r \in DOMAIN runs /\ r \in 1..MaxRuns /\ runs \in Seq(RunRow)
        /\ clock \in Nat
        /\ \A q \in DOMAIN runs :
              runs[q] \in RunRow /\ runs[q].issued \in Nat /\ runs[q].dropped \in Nat
        /\ rows \in [1..MaxRuns -> [exchange : Nat, denial : Nat]]
        /\ BooksAgree
    BY <1>1, InHandIsThere
  <1>3. runs' \in Seq(RunRow) /\ Len(runs') = Len(runs) /\ DOMAIN runs' = DOMAIN runs
    BY <1>1, <1>2, CountersCount, LenProperties
  <1>4. \A q \in DOMAIN runs :
           /\ runs'[q].status = runs[q].status /\ runs'[q].why = runs[q].why
           /\ runs'[q].issued = IF q = r THEN runs[q].issued + 1 ELSE runs[q].issued
           /\ runs'[q].dropped = runs[q].dropped
    BY <1>1, <1>2 DEF CountRequest, RunRow
  <1>5. Kept(runs, runs')
    BY <1>2, <1>3, <1>4 DEF Kept
  <1>6. /\ rows' \in [1..MaxRuns -> [exchange : Nat, denial : Nat]]
        /\ \A q \in 1..MaxRuns :
              rows'[q].exchange = IF q = r THEN rows[q].exchange + 1 ELSE rows[q].exchange
    <2>1. rows' = [rows EXCEPT ![r] = [rows[r] EXCEPT !.exchange = rows[r].exchange + 1]]
      BY <1>1
    <2> HIDE DEF r
    <2>2. rows[r] \in [exchange : Nat, denial : Nat]
      BY <1>2
    <2>3. [rows[r] EXCEPT !.exchange = rows[r].exchange + 1] \in [exchange : Nat, denial : Nat]
      BY <2>2
    <2>4. \A q \in 1..MaxRuns :
             rows'[q] = IF q = r THEN [rows[r] EXCEPT !.exchange = rows[r].exchange + 1]
                                 ELSE rows[q]
      BY <1>2, <2>1
    <2>5. rows' \in [1..MaxRuns -> [exchange : Nat, denial : Nat]]
      BY <1>2, <2>1, <2>3
    <2>6. QED
      BY <2>2, <2>4, <2>5
  <1>7. BooksAgree'
    <2> HIDE DEF r
    <2> SUFFICES ASSUME NEW q \in 1..MaxRuns
                 PROVE  rows'[q].exchange = IF q \in DOMAIN runs' THEN runs'[q].issued ELSE 0
      BY DEF BooksAgree
    <2>1. rows[q].exchange = IF q \in DOMAIN runs THEN runs[q].issued ELSE 0
      BY <1>2 DEF BooksAgree
    <2>2. CASE q = r
      BY <1>2, <1>3, <1>4, <1>6, <2>1, <2>2
    <2>3. CASE q # r
      BY <1>3, <1>4, <1>6, <2>1, <2>3
    <2>4. QED
      BY <2>2, <2>3
  <1>8. QED
    BY <1>1, <1>3, <1>5, <1>6, <1>7, FreeFits, WrittenGood

LEMMA DenyGood ==
    ASSUME IInv, NEW t \in Threads, Deny(t)
    PROVE  Good
  <1> DEFINE r == work[t].run
  <1>1. /\ work[t].pc = "deny" /\ runs' = runs
        /\ rows' = [rows EXCEPT ![r].denial = @ + 1]
        /\ work' = [work EXCEPT ![t] = Free] /\ clock' = clock
    BY DEF Deny, Done
  <1>2. /\ r \in 1..MaxRuns
        /\ runs \in Seq(RunRow)
        /\ \A q \in DOMAIN runs : runs[q].issued \in Nat /\ runs[q].dropped \in Nat
        /\ rows \in [1..MaxRuns -> [exchange : Nat, denial : Nat]]
        /\ BooksAgree
    BY <1>1, InHandIsThere
  <1>3. Kept(runs, runs')
    BY <1>1, <1>2 DEF Kept
  <1>4. /\ rows' \in [1..MaxRuns -> [exchange : Nat, denial : Nat]]
        /\ \A q \in 1..MaxRuns : rows'[q].exchange = rows[q].exchange
    BY SMTT(30), <1>1, <1>2
  <1>5. BooksAgree'
    BY <1>1, <1>2, <1>4 DEF BooksAgree
  <1>6. QED
    BY <1>1, <1>2, <1>3, <1>4, <1>5, FreeFits, WrittenGood

LEMMA CountGood ==
    ASSUME IInv, NEW t \in Threads, Count(t)
    PROVE  Good
  <1> DEFINE r == work[t].run
  <1>1. /\ work[t].pc = "count" /\ runs' = CountDrop(runs, r) /\ rows' = rows
        /\ work' = [work EXCEPT ![t] = Free] /\ clock' = clock
    BY DEF Count, Done
  <1>2. /\ r \in DOMAIN runs /\ runs \in Seq(RunRow) /\ clock \in Nat
        /\ \A q \in DOMAIN runs :
              runs[q] \in RunRow /\ runs[q].issued \in Nat /\ runs[q].dropped \in Nat
        /\ rows \in [1..MaxRuns -> [exchange : Nat, denial : Nat]]
        /\ BooksAgree
    BY <1>1, InHandIsThere
  <1>3. runs' \in Seq(RunRow) /\ Len(runs') = Len(runs) /\ DOMAIN runs' = DOMAIN runs
    BY <1>1, <1>2, CountersCount, LenProperties
  <1>4. \A q \in DOMAIN runs :
           /\ runs'[q].status = runs[q].status /\ runs'[q].why = runs[q].why
           /\ runs'[q].issued = runs[q].issued
           /\ runs'[q].dropped >= runs[q].dropped
    <2> HIDE DEF r
    <2>1. runs[r].dropped \in Nat /\ runs[r] \in RunRow
      BY <1>2
    <2>2. \A q \in DOMAIN runs :
             runs'[q] = IF q = r THEN [runs[r] EXCEPT !.dropped = runs[r].dropped + 1]
                                 ELSE runs[q]
      BY <1>1, <1>2 DEF CountDrop
    <2>3. /\ \A q \in DOMAIN runs : q # r => runs'[q] = runs[q]
          /\ runs'[r] = [runs[r] EXCEPT !.dropped = runs[r].dropped + 1]
      BY <1>2, <2>2
    <2>4. /\ runs'[r].status = runs[r].status /\ runs'[r].why = runs[r].why
          /\ runs'[r].issued = runs[r].issued /\ runs'[r].dropped = runs[r].dropped + 1
      BY <2>1, <2>3 DEF RunRow
    <2>5. SUFFICES ASSUME NEW q \in DOMAIN runs
                   PROVE  /\ runs'[q].status = runs[q].status /\ runs'[q].why = runs[q].why
                          /\ runs'[q].issued = runs[q].issued
                          /\ runs'[q].dropped >= runs[q].dropped
      OBVIOUS
    <2>6. CASE q = r
      BY <2>1, <2>4, <2>6
    <2>7. CASE q # r
      BY <1>2, <2>3, <2>7
    <2>8. QED
      BY <2>6, <2>7
  <1>5. Kept(runs, runs')
    BY <1>2, <1>3, <1>4 DEF Kept
  <1>6. BooksAgree'
    BY <1>1, <1>2, <1>3, <1>4 DEF BooksAgree
  <1>7. QED
    BY <1>1, <1>2, <1>3, <1>5, <1>6, FreeFits, WrittenGood
-----------------------------------------------------------------------------
LEMMA NextGood == IInv /\ Next => Good
  <1> SUFFICES ASSUME IInv, Next PROVE Good
    OBVIOUS
  <1>1. CASE Tick
    <2>1. Table' /\ Kept(runs, runs')
      BY <1>1, SameTable DEF Tick, IInv
    <2>2. QED
      BY <1>1, <2>1, LedgerAssumptions DEF Tick, IInv, Good
  <1>2. CASE \E t \in Threads : SelectRun(t) \/ CloseIdle(t) \/ InsertRun(t)
    BY <1>2, SelectRunGood, CloseIdleGood, InsertRunGood
  <1>3. CASE \E t \in Threads : Beat(t) \/ Commit(t) \/ Deny(t) \/ Count(t)
    BY <1>3, BeatGood, CommitGood, DenyGood, CountGood
  <1>4. CASE \E h \in Hosts : TakeRecord(h) \/ RecordFails(h)
    BY <1>4, TakeRecordGood, RecordFailsGood
  <1>5. ASSUME NEW h \in Hosts, TakeHalted(h) \/ Abort(h) \/ AbortFails(h)
        PROVE  Good
    <2>1. CASE AbortFails(h)
      <3>1. Serve(h) \in Threads /\ Free = [Free EXCEPT !.pc = "idle"]
        BY DEF Threads, Serve, Free
      <3>2. QED
        BY <2>1, <3>1, GivenUpGood DEF AbortFails, Done
    <2>2. QED
      BY <1>5, <2>1, TakeHaltedGood, AbortGood
  <1>6. CASE \E h \in Hosts : Start(h) \/ Close(h)
    BY <1>6, StartGood, CloseGood
  <1>7. ASSUME NEW h \in Hosts, MainFails(h) \/ Teardown(h) \/ Crash(h)
        PROVE  Good
    <2>1. Main(h) \in Threads /\ Free = [Free EXCEPT !.pc = "idle"]
      BY DEF Threads, Main, Free
    <2>2. CASE MainFails(h)
      BY <2>1, <2>2, GivenUpGood DEF MainFails
    <2>3. CASE Teardown(h)
      BY <2>1, <2>3, GivenUpGood DEF Teardown, Done
    <2>4. QED
      BY <1>7, <2>2, <2>3, CrashGood
  <1>8. CASE StopLooks \/ InfoLooks
    BY <1>8, WorkOnly DEF StopLooks, InfoLooks, IInv
  <1>9. CASE StopCloses \/ Reap
    BY <1>9, CommandsGood
  <1>10. QED
    BY <1>1, <1>2, <1>3, <1>4, <1>5, <1>6, <1>7, <1>8, <1>9 DEF Next

LEMMA StepGood == IInv /\ [Next]_vars => Good
  <1>1. IInv /\ UNCHANGED vars => Good
    BY WorkOnly DEF vars, IInv
  <1>2. QED
    BY <1>1, NextGood

THEOREM LedgerInvariant == Spec => []IInv
  <1>1. Init => IInv
    BY InitHolds
  <1>2. IInv /\ [Next]_vars => IInv'
    BY StepGood DEF Good
  <1>3. QED
    BY <1>1, <1>2, PTL DEF Spec

\* The count a run carries is the number of exchange rows filed under it,
\* however many processes write the ledger and wherever they die or fail
\* (capture.on_exchange).
THEOREM BooksHold == Spec => []BooksAgree
  <1>1. IInv => BooksAgree
    BY DEF IInv, Table
  <1>2. QED
    BY <1>1, LedgerInvariant, PTL

\* The first ending of a run stands and its counters never go back, whatever
\* the commands, the reaper and the aborts saw when they looked (run.close_run,
\* records.abort_run).
THEOREM EndingsStand == Spec => FirstEndStands
  <1> DEFINE Stands ==
        \A r \in DOMAIN runs :
          /\ r \in DOMAIN runs'
          /\ runs[r].status # "running" =>
                /\ runs'[r].status = runs[r].status
                /\ runs'[r].why = runs[r].why
          /\ runs'[r].issued >= runs[r].issued
          /\ runs'[r].dropped >= runs[r].dropped
  <1>1. IInv /\ [Next]_vars => Stands
    BY StepGood DEF Good, Kept
  <1>2. IInv /\ [Next]_vars => [Stands]_vars
    BY <1>1
  <1>3. QED
    BY <1>2, LedgerInvariant, PTL DEF Spec, FirstEndStands
-----------------------------------------------------------------------------
(* The coverage floor.  The entries of a source are a set that only grows,  *)
(* one entry at a time; a record that is in hand is one serve thread's.      *)

\* A serve thread that is about a record knows whose, and the run it has
\* found for it is one of that source's kind.  A main thread records nothing.
Bound(w, t, rs) ==
    /\ t[2] = "main" => w.pc \notin {"beat", "commit", "deny", "count", "abort"}
    /\ t[2] # "main" =>
          /\ w.pc \in Recording <=> w.source # "none"
          /\ w.pc \in {"select", "close idle", "insert"} => w.kind = KindOf(w.source)
          /\ w.pc \in {"beat", "commit", "deny", "count"} =>
                rs[w.run].kind = KindOf(w.source)

Bounds == \A t \in Threads : Bound(work[t], t, runs)
Unopened == \A r \in (1..MaxRuns) \ DOMAIN runs : rows[r].denial = 0
BooksTyped == books \in [Sources -> [taken : Nat, swallowed : Nat, lost : Nat]]
Floor == (\A s \in Sources : IsFiniteSet(Entries(s))) /\ FloorHolds

FInv == IInv /\ Bounds /\ Unopened /\ BooksTyped /\ Floor

\* No run goes away or changes its kind, and what is filed stays as it is.
SameKinds == DOMAIN runs \subseteq DOMAIN runs'
             /\ \A r \in DOMAIN runs : runs'[r].kind = runs[r].kind
SameFiled == /\ \A r \in DOMAIN runs : Filed(r)' = Filed(r)
             /\ \A r \in (DOMAIN runs') \ DOMAIN runs : Filed(r)' = 0

LEMMA FiledIsCount ==
    ASSUME IInv, NEW r \in DOMAIN runs
    PROVE  Filed(r) \in Nat
  <1>1. runs[r] \in RunRow /\ r \in 1..MaxRuns
    <2>1. DOMAIN runs = 1..Len(runs) /\ Len(runs) \in Nat
      BY LenProperties DEF IInv, Table
    <2>2. QED
      BY <2>1, ElementOfSeq, LedgerAssumptions DEF IInv, Table
  <1>2. rows[r] \in [exchange : Nat, denial : Nat]
    BY <1>1 DEF IInv, Table
  <1>3. QED
    BY <1>1, <1>2 DEF Filed, RunRow

LEMMA SameEntries ==
    ASSUME SameKinds, SameFiled, NEW s
    PROVE  Entries(s)' = Entries(s)
  <1>1. \A r \in (DOMAIN runs') \ DOMAIN runs : 1..(Filed(r)') = {}
    BY DEF SameFiled
  <1>2. QED
    BY <1>1 DEF SameKinds, SameFiled, Entries, RunsFor

LEMMA HoldersFinite ==
    ASSUME NEW s
    PROVE  IsFiniteSet(Holders(s)) /\ Cardinality(Holders(s)) \in Nat
  BY LedgerAssumptions, FS_Subset, FS_CardinalityType DEF Holders

\* One entry more, for the source whose record it is.
LEMMA OneMoreEntry ==
    ASSUME IInv, SameKinds, DOMAIN runs' = DOMAIN runs,
           NEW r \in DOMAIN runs, Filed(r)' = Filed(r) + 1,
           \A q \in DOMAIN runs : q # r => Filed(q)' = Filed(q),
           NEW s, IsFiniteSet(Entries(s))
    PROVE  /\ IsFiniteSet(Entries(s)')
           /\ Cardinality(Entries(s)') =
                 Cardinality(Entries(s)) + (IF runs[r].kind = KindOf(s) THEN 1 ELSE 0)
  <1>1. CASE runs[r].kind = KindOf(s)
    <2> DEFINE e == <<r, Filed(r) + 1>>
    <2>1. Filed(r) \in Nat
      BY FiledIsCount
    <2>2. {r} \X (1..(Filed(r) + 1)) = ({r} \X (1..Filed(r))) \cup {e}
      <3>1. 1..(Filed(r) + 1) = (1..Filed(r)) \cup {Filed(r) + 1}
        BY <2>1
      <3>2. QED
        BY <3>1
    <2>3. RunsFor(s)' = RunsFor(s) /\ r \in RunsFor(s)
      BY <1>1 DEF SameKinds, RunsFor
    <2>4. Entries(s)' = Entries(s) \cup {e}
      BY <2>2, <2>3 DEF Entries, RunsFor
    <2>5. e \notin Entries(s)
      BY <2>1 DEF Entries
    <2> HIDE DEF e
    <2>6. /\ IsFiniteSet(Entries(s) \cup {e})
          /\ Cardinality(Entries(s) \cup {e}) = Cardinality(Entries(s)) + 1
      BY <2>5, FS_AddElement
    <2>7. QED
      BY <1>1, <2>4, <2>6
  <1>2. CASE runs[r].kind # KindOf(s)
    <2>1. Entries(s)' = Entries(s)
      BY <1>2 DEF SameKinds, Entries, RunsFor
    <2>2. QED
      BY <1>2, <2>1, FS_CardinalityType
  <1>3. QED
    BY <1>1, <1>2

\* The same threads have the same records in hand, and the books say the same.
LEMMA FloorStays ==
    ASSUME FInv, SameKinds, SameFiled, books' = books,
           \A h \in Hosts : work'[Serve(h)].source = work[Serve(h)].source
    PROVE  Floor' /\ BooksTyped'
  <1>1. \A s \in Sources : Entries(s)' = Entries(s) /\ Holders(s)' = Holders(s)
    BY SameEntries DEF Holders
  <1>2. QED
    BY <1>1 DEF FInv, Floor, FloorHolds, BooksTyped

\* The serve thread of one host comes to have a record of a source in hand, or
\* of none; those of the others keep what they had.
Takes(h, src) ==
    \A g \in Hosts : work'[Serve(g)].source = IF g = h THEN src ELSE work[Serve(g)].source

\* A host more, or a host less, that has a record of a source in hand.
LEMMA HoldersChange ==
    ASSUME NEW h \in Hosts, NEW src, Takes(h, src), NEW s
    PROVE  Cardinality(Holders(s)') =
              Cardinality(Holders(s)) + (IF src = s THEN 1 ELSE 0)
                                      - (IF work[Serve(h)].source = s THEN 1 ELSE 0)
  <1> DEFINE rest == {g \in Hosts : g # h /\ work[Serve(g)].source = s}
  <1>1. IsFiniteSet(rest) /\ h \notin rest /\ Cardinality(rest) \in Nat
    BY LedgerAssumptions, FS_Subset, FS_CardinalityType
  <1>2. Holders(s) = IF work[Serve(h)].source = s THEN rest \cup {h} ELSE rest
    BY DEF Holders
  <1>3. Holders(s)' = IF src = s THEN rest \cup {h} ELSE rest
    BY DEF Holders, Takes
  <1> HIDE DEF rest
  <1>4. Cardinality(rest \cup {h}) = Cardinality(rest) + 1
    BY <1>1, FS_AddElement
  <1>5. QED
    BY <1>1, <1>2, <1>3, <1>4

\* Each host has a serve thread of its own.
LEMMA ServeThreads ==
    ASSUME IInv
    PROVE  /\ DOMAIN work = Threads
           /\ \A g, h \in Hosts : Serve(g) \in Threads /\ (Serve(g) = Serve(h) => g = h)
  BY DEF IInv, Works, Threads, Serve

FGood == Bounds' /\ Unopened' /\ BooksTyped' /\ Floor'

LEMMA Rebound ==
    ASSUME IInv, Bounds, SameKinds, NEW t \in Threads, NEW w, Bound(w, t, runs'),
           work' = [work EXCEPT ![t] = w]
    PROVE  Bounds'
  <1> SUFFICES ASSUME NEW u \in Threads PROVE Bound(work'[u], u, runs')
    BY DEF Bounds
  <1>1. Fit(work[u], u, runs) /\ Bound(work[u], u, runs) /\ work \in [Threads -> WorkType]
    BY DEF IInv, Works, Bounds
  <1>2. CASE u = t
    BY <1>1, <1>2
  <1>3. CASE u # t
    <2>1. work'[u] = work[u]
      BY <1>1, <1>3
    <2>2. Bound(work[u], u, runs')
      BY <1>1 DEF Bound, Fit, SameKinds
    <2>3. QED
      BY <2>1, <2>2
  <1>4. QED
    BY <1>2, <1>3

\* A table that is left alone, or some of whose runs are ended.
LEMMA TableKept ==
    ASSUME FInv, rows' = rows,
           \/ runs' = runs
           \/ \E ids : \E status \in Endings, why \in Causes :
                 runs' = EndRuns(runs, ids, status, why)
    PROVE  SameKinds /\ SameFiled /\ Unopened'
  <1>1. /\ DOMAIN runs' = DOMAIN runs
        /\ \A r \in DOMAIN runs :
              runs'[r].kind = runs[r].kind /\ runs'[r].dropped = runs[r].dropped
    BY EndRunsKeeps DEF FInv, IInv, Table
  <1>2. QED
    BY <1>1 DEF FInv, SameKinds, SameFiled, Filed, Unopened

\* One thread moves on and keeps what it has in hand.
LEMMA SteadyGood ==
    ASSUME FInv, SameKinds, SameFiled, Unopened', books' = books,
           NEW t \in Threads, NEW w, work' = [work EXCEPT ![t] = w], Bound(w, t, runs'),
           t[2] # "main" => w.source = work[t].source
    PROVE  FGood
  <1>1. Bounds'
    BY Rebound DEF FInv
  <1>2. \A h \in Hosts : work'[Serve(h)].source = work[Serve(h)].source
    BY DEF FInv, IInv, Works, Serve
  <1>3. QED
    BY <1>1, <1>2, FloorStays DEF FGood

LEMMA NobodyMoves ==
    ASSUME FInv, SameKinds, SameFiled, Unopened', books' = books, work' = work
    PROVE  FGood
  <1>1. Bounds'
    BY DEF FInv, IInv, Works, Bounds, Bound, Fit, SameKinds
  <1>2. QED
    BY <1>1, FloorStays DEF FGood

LEMMA FreeBound ==
    ASSUME NEW t, NEW rs, NEW pc \in {"idle", "teardown"}
    PROVE  Bound([Free EXCEPT !.pc = pc], t, rs) /\ Free = [Free EXCEPT !.pc = "idle"]
  <1> DEFINE w == [Free EXCEPT !.pc = pc]
  <1>1. w.pc = pc /\ w.source = "none" /\ pc \notin Recording
    BY DEF Free, Recording
  <1>2. Bound(w, t, rs)
    BY <1>1 DEF Bound
  <1>3. Free = [Free EXCEPT !.pc = "idle"]
    BY DEF Free
  <1>4. QED
    BY <1>2, <1>3

\* What a thread that is given up had in hand: nothing of a source.
LEMMA FreedGood ==
    ASSUME FInv, SameKinds, SameFiled, Unopened', books' = books,
           NEW t \in Threads, t[2] = "main" \/ work[t].pc \notin Recording,
           NEW pc \in {"idle", "teardown"}, work' = [work EXCEPT ![t] = [Free EXCEPT !.pc = pc]]
    PROVE  FGood
  <1> DEFINE w == [Free EXCEPT !.pc = pc]
  <1>1. Bound(w, t, runs') /\ w.source = "none"
    BY FreeBound DEF Free
  <1>2. t[2] # "main" => work[t].source = "none"
    <2>1. Bound(work[t], t, runs)
      BY DEF FInv, Bounds
    <2>2. QED
      BY <2>1 DEF Bound
  <1>3. QED
    BY <1>1, <1>2, SteadyGood

LEMMA FSelectRun ==
    ASSUME FInv, NEW t \in Threads, SelectRun(t)
    PROVE  FGood
  <1>1. Bound(work[t], t, runs) /\ work[t] \in WorkType /\ work[t].pc = "select"
    BY DEF FInv, Bounds, IInv, Works, SelectRun
  <1>2. \E run, pc : /\ work' = [work EXCEPT ![t].run = run, ![t].pc = pc]
                     /\ \/ pc = "insert"
                        \/ runs[run].kind = work[t].kind /\ pc \in {WithRun(t), "close idle"}
    BY DEF SelectRun, IsLatest, LiveOf
  <1>3. PICK run, pc : /\ work' = [work EXCEPT ![t].run = run, ![t].pc = pc]
                       /\ \/ pc = "insert"
                          \/ /\ runs[run].kind = work[t].kind
                             /\ pc \in {WithRun(t), "close idle"}
    BY <1>2
  <1> DEFINE w == [work[t] EXCEPT !.run = run, !.pc = pc]
  <1>4. /\ w.pc = pc /\ w.run = run /\ w.kind = work[t].kind /\ w.source = work[t].source
    BY <1>1 DEF WorkType
  <1>5. Bound(w, t, runs)
    <2>1. CASE t[2] = "main"
      BY <1>3, <1>4, <2>1 DEF Bound, WithRun
    <2>2. CASE t[2] # "main"
      <3>1. work[t].source # "none" /\ work[t].kind = KindOf(work[t].source)
        BY <1>1, <2>2 DEF Bound, Recording
      <3>2. pc \in {"insert", "close idle", "beat"}
        BY <1>3, <2>2 DEF WithRun
      <3>3. pc = "beat" => runs[run].kind = work[t].kind
        BY <1>3
      <3>4. QED
        BY <1>4, <2>2, <3>1, <3>2, <3>3 DEF Bound, Recording
    <2>3. QED
      BY <2>1, <2>2
  <1>6. runs' = runs /\ rows' = rows /\ books' = books /\ work' = [work EXCEPT ![t] = w]
    BY <1>3 DEF SelectRun
  <1>7. QED
    BY <1>4, <1>5, <1>6, TableKept, SteadyGood

LEMMA FCloseIdle ==
    ASSUME FInv, NEW t \in Threads, CloseIdle(t)
    PROVE  FGood
  <1> DEFINE w == [work[t] EXCEPT !.pc = "insert"]
  <1>1. Bound(work[t], t, runs) /\ work[t] \in WorkType /\ work[t].pc = "close idle"
    BY DEF FInv, Bounds, IInv, Works, CloseIdle
  <1>2. Bound(w, t, runs') /\ w.source = work[t].source
    BY <1>1 DEF Bound, WorkType, Recording
  <1>3. SameKinds /\ SameFiled /\ Unopened'
    BY TableKept DEF CloseIdle, CloseRun, Endings, Causes
  <1>4. work' = [work EXCEPT ![t] = w] /\ books' = books
    BY DEF CloseIdle, Goto
  <1>5. QED
    BY <1>2, <1>3, <1>4, SteadyGood

LEMMA FInsertRun ==
    ASSUME FInv, NEW t \in Threads, InsertRun(t)
    PROVE  FGood
  <1> DEFINE n == Len(runs) + 1
             w == [work[t] EXCEPT !.run = n, !.pc = WithRun(t)]
  <1>1. /\ Fit(work[t], t, runs) /\ Bound(work[t], t, runs)
        /\ work[t] \in WorkType /\ work[t].pc = "insert"
    BY DEF FInv, Bounds, IInv, Works, InsertRun
  <1>2. /\ runs' = OpenRun(runs, work[t].kind, clock) /\ work[t].kind \in Kinds
        /\ Len(runs) < MaxRuns /\ rows' = rows /\ books' = books
        /\ work' = [work EXCEPT ![t] = w]
    BY <1>1 DEF InsertRun, Fit
  <1>3. runs \in Seq(RunRow) /\ clock \in Nat /\ BooksAgree
    BY DEF FInv, IInv, Table
  <1>4. /\ DOMAIN runs = 1..Len(runs) /\ DOMAIN runs' = 1..n /\ Len(runs) \in Nat
        /\ \A r \in DOMAIN runs : runs'[r] = runs[r]
        /\ runs'[n].dropped = 0 /\ runs'[n].kind = work[t].kind
    BY <1>2, <1>3, OpenRunAdds
  <1>5. n \in 1..MaxRuns /\ n \notin DOMAIN runs /\ DOMAIN runs' = DOMAIN runs \cup {n}
    BY <1>2, <1>4, LedgerAssumptions
  <1>6. rows[n].exchange = 0 /\ rows[n].denial = 0
    BY <1>3, <1>5 DEF BooksAgree, FInv, Unopened
  <1> HIDE DEF n
  <1>7. SameKinds
    BY <1>4, <1>5 DEF SameKinds
  <1>8. SameFiled
    BY <1>2, <1>4, <1>5, <1>6 DEF SameFiled, Filed
  <1>9. Unopened'
    BY <1>2, <1>5 DEF FInv, Unopened
  <1>10. WithRun(t) = IF t[2] = "main" THEN "live" ELSE "beat"
    BY DEF WithRun
  <1>11. w.pc = WithRun(t) /\ w.run = n /\ w.source = work[t].source
    BY <1>1 DEF WorkType
  <1>12. Bound(w, t, runs')
    BY <1>1, <1>4, <1>10, <1>11 DEF Bound, Recording
  <1>13. QED
    BY <1>2, <1>7, <1>8, <1>9, <1>11, <1>12, SteadyGood

\* One record more: taken, and in hand.
LEMMA FTakeRecord ==
    ASSUME FInv, NEW h \in Hosts, TakeRecord(h)
    PROVE  FGood
  <1>1. PICK y \in RecordTypes, s \in HostSources[h] :
           /\ work' = [work EXCEPT ![Serve(h)] = [Free EXCEPT
                         !.pc = "select", !.frame = y, !.source = s, !.kind = KindOf(s)]]
           /\ books' = [books EXCEPT ![s].taken = @ + 1]
    BY DEF TakeRecord
  <1>2. s \in Sources /\ s # "none"
    BY LedgerAssumptions DEF Sources
  <1> DEFINE w == [Free EXCEPT
                     !.pc = "select", !.frame = y, !.source = s, !.kind = KindOf(s)]
  <1>3. w.pc = "select" /\ w.source = s /\ w.kind = KindOf(s)
    BY DEF Free
  <1>4. Bound(w, Serve(h), runs') /\ work' = [work EXCEPT ![Serve(h)] = w]
    BY <1>1, <1>2, <1>3 DEF Bound, Recording, Serve
  <1> HIDE DEF w
  <1>5. IInv /\ Bounds /\ BooksTyped /\ Floor
    BY DEF FInv
  <1>6. SameKinds /\ SameFiled /\ Unopened'
    BY TableKept DEF TakeRecord
  <1>7. Serve(h) \in Threads /\ Takes(h, s)
    <2> HIDE DEF w
    <2>1. QED
      BY <1>3, <1>4, <1>5, ServeThreads DEF Takes
  <1>8. Bounds'
    BY <1>4, <1>5, <1>6, <1>7, Rebound
  <1>9. work[Serve(h)].source = "none"
    <2>1. Bound(work[Serve(h)], Serve(h), runs) /\ work[Serve(h)].pc = "idle"
      BY <1>5, <1>7 DEF Bounds, TakeRecord
    <2>2. QED
      BY <2>1 DEF Bound, Serve, Recording
  <1>10. BooksTyped'
    BY <1>1, <1>2, <1>5 DEF BooksTyped
  <1>11. Floor'
    <2> SUFFICES ASSUME NEW q \in Sources
                 PROVE  /\ IsFiniteSet(Entries(q)')
                        /\ books'[q].taken =
                              Cardinality(Entries(q)') + Cardinality(Holders(q)')
                                 + books'[q].swallowed + books'[q].lost
      BY DEF Floor, FloorHolds
    <2>1. Entries(q)' = Entries(q) /\ IsFiniteSet(Entries(q))
      BY <1>5, <1>6, SameEntries DEF Floor
    <2>2. Cardinality(Entries(q)) \in Nat /\ Cardinality(Holders(q)) \in Nat
      BY <2>1, FS_CardinalityType, HoldersFinite
    <2>3. q # "none"
      BY DEF Sources
    <2>4. Cardinality(Holders(q)') = Cardinality(Holders(q)) + (IF s = q THEN 1 ELSE 0)
      <3>1. Cardinality(Holders(q)') =
               Cardinality(Holders(q)) + (IF s = q THEN 1 ELSE 0)
                                       - (IF work[Serve(h)].source = q THEN 1 ELSE 0)
        BY <1>7, HoldersChange
      <3>2. QED
        BY <1>9, <2>2, <2>3, <3>1
    <2>5. /\ books'[q].taken = books[q].taken + (IF s = q THEN 1 ELSE 0)
          /\ books'[q].swallowed = books[q].swallowed /\ books'[q].lost = books[q].lost
          /\ books[q].taken \in Nat /\ books[q].swallowed \in Nat /\ books[q].lost \in Nat
      BY <1>1, <1>2, <1>5 DEF BooksTyped
    <2>6. books[q].taken = Cardinality(Entries(q)) + Cardinality(Holders(q))
                              + books[q].swallowed + books[q].lost
      BY <1>5 DEF Floor, FloorHolds
    <2>7. QED
      BY <2>1, <2>2, <2>4, <2>5, <2>6
  <1>12. QED
    BY <1>6, <1>8, <1>10, <1>11 DEF FGood

LEMMA FBeat ==
    ASSUME FInv, NEW t \in Threads, Beat(t)
    PROVE  FGood
  <1> DEFINE w == [work[t] EXCEPT !.pc = AfterBeat[work[t].frame]]
             r == work[t].run
  <1>1. /\ work[t].pc = "beat" /\ runs' = Heartbeat(runs, r, clock)
        /\ work' = [work EXCEPT ![t] = w] /\ rows' = rows /\ books' = books
    BY DEF Beat, Goto
  <1>2. /\ work[t] \in WorkType /\ r \in DOMAIN runs
        /\ work[t].frame \in RecordTypes /\ runs \in Seq(RunRow) /\ clock \in Nat
    BY <1>1, InHandIsThere DEF FInv
  <1>3. /\ DOMAIN runs' = DOMAIN runs
        /\ \A q \in DOMAIN runs :
              runs'[q].kind = runs[q].kind /\ runs'[q].dropped = runs[q].dropped
    <2>1. runs' \in Seq(RunRow) /\ Len(runs') = Len(runs)
      BY <1>1, <1>2, CountersCount
    <2>2. DOMAIN runs' = DOMAIN runs
      BY <1>2, <2>1, LenProperties
    <2>3. \A q \in DOMAIN runs :
             runs'[q].kind = runs[q].kind /\ runs'[q].dropped = runs[q].dropped
      BY <1>1, <1>2, CountersKeep
    <2>4. QED
      BY <2>2, <2>3
  <1>4. SameKinds /\ SameFiled /\ Unopened'
    BY <1>1, <1>3 DEF FInv, SameKinds, SameFiled, Filed, Unopened
  <1>5. AfterBeat[work[t].frame] \in {"commit", "deny", "count"}
    BY <1>2 DEF AfterBeat, RecordTypes
  <1>6. /\ w.pc \in {"commit", "deny", "count"} /\ w.run = r
        /\ w.source = work[t].source
    BY <1>2, <1>5 DEF WorkType
  <1>7. Bound(w, t, runs')
    <2>1. Bound(work[t], t, runs)
      BY DEF FInv, Bounds
    <2>2. QED
      BY <1>1, <1>2, <1>3, <1>6, <2>1 DEF Bound, Recording
  <1>8. QED
    BY <1>1, <1>4, <1>6, <1>7, SteadyGood

\* A record that was in hand is an entry of a run of its source's kind.
LEMMA Booked ==
    ASSUME FInv, NEW t \in Threads, work[t].pc \in {"commit", "deny", "count"},
           NEW r, r = work[t].run,
           work' = [work EXCEPT ![t] = Free], books' = books,
           DOMAIN runs' = DOMAIN runs, SameKinds, Unopened',
           Filed(r)' = Filed(r) + 1,
           \A q \in DOMAIN runs : q # r => Filed(q)' = Filed(q)
    PROVE  FGood
  <1> DEFINE src == work[t].source
  <1>1. IInv /\ Bounds /\ BooksTyped /\ Floor /\ Bound(work[t], t, runs)
    BY DEF FInv, Bounds
  <1>2. r \in DOMAIN runs /\ work[t] \in WorkType
    BY <1>1, InHandIsThere
  <1>3. t[2] # "main" /\ src \in Sources /\ runs[r].kind = KindOf(src)
    BY <1>1, <1>2 DEF Bound, Recording, WorkType
  <1>4. PICK h \in Hosts : t = Serve(h)
    BY <1>3 DEF Threads, Serve
  <1>5. Free.source = "none" /\ Free.pc = "idle" /\ Bound(Free, t, runs')
    BY FreeBound DEF Free
  <1>6. Bounds'
    <2>1. work' = [work EXCEPT ![t] = Free] /\ SameKinds
      OBVIOUS
    <2>2. QED
      BY <1>1, <1>5, <2>1, Rebound
  <1>7. Takes(h, "none")
    BY <1>1, <1>4, <1>5, ServeThreads DEF Takes
  <1>8. Floor'
    <2> SUFFICES ASSUME NEW q \in Sources
                 PROVE  /\ IsFiniteSet(Entries(q)')
                        /\ books'[q].taken =
                              Cardinality(Entries(q)') + Cardinality(Holders(q)')
                                 + books'[q].swallowed + books'[q].lost
      BY DEF Floor, FloorHolds
    <2>1. IsFiniteSet(Entries(q)) /\ Cardinality(Entries(q)) \in Nat
      BY <1>1, FS_CardinalityType DEF Floor
    <2>2. Cardinality(Holders(q)) \in Nat
      BY HoldersFinite
    <2>3. /\ IsFiniteSet(Entries(q)')
          /\ Cardinality(Entries(q)') =
                Cardinality(Entries(q)) + (IF runs[r].kind = KindOf(q) THEN 1 ELSE 0)
      BY <1>1, <1>2, <2>1, OneMoreEntry
    <2>4. runs[r].kind = KindOf(q) <=> src = q
      BY <1>3 DEF KindOf, Sources
    <2>5. Cardinality(Holders(q)') =
             Cardinality(Holders(q)) + (IF "none" = q THEN 1 ELSE 0)
                                     - (IF work[Serve(h)].source = q THEN 1 ELSE 0)
      BY <1>7, HoldersChange
    <2>6. Cardinality(Holders(q)') = Cardinality(Holders(q)) - (IF src = q THEN 1 ELSE 0)
      BY <1>4, <1>5, <2>2, <2>5 DEF Sources
    <2>7. books[q].taken = Cardinality(Entries(q)) + Cardinality(Holders(q))
                              + books[q].swallowed + books[q].lost
      BY <1>1 DEF Floor, FloorHolds
    <2>8. books[q].taken \in Nat /\ books[q].swallowed \in Nat /\ books[q].lost \in Nat
      BY <1>1 DEF BooksTyped
    <2>9. QED
      BY <2>1, <2>2, <2>3, <2>4, <2>6, <2>7, <2>8
  <1>9. QED
    BY <1>1, <1>6, <1>8 DEF FGood, BooksTyped

LEMMA FRecorded ==
    ASSUME FInv, NEW t \in Threads, Commit(t) \/ Deny(t) \/ Count(t)
    PROVE  FGood
  <1>1. PICK r : r = work[t].run
    OBVIOUS
  <1>2. /\ work[t].pc \in {"commit", "deny", "count"}
        /\ work' = [work EXCEPT ![t] = Free] /\ books' = books
    BY DEF Commit, Deny, Count, Done
  <1>3. /\ r \in DOMAIN runs /\ runs \in Seq(RunRow) /\ clock \in Nat
        /\ \A q \in DOMAIN runs : runs[q] \in RunRow /\ runs[q].dropped \in Nat
        /\ rows \in [1..MaxRuns -> [exchange : Nat, denial : Nat]]
        /\ DOMAIN runs \subseteq 1..MaxRuns
    <2>1. DOMAIN runs \subseteq 1..MaxRuns
      BY LenProperties, LedgerAssumptions DEF FInv, IInv, Table
    <2>2. QED
      BY <1>1, <1>2, <2>1, InHandIsThere DEF FInv
  <1>4. \A q \in 1..MaxRuns : rows[q].exchange \in Nat /\ rows[q].denial \in Nat
    BY <1>3
  <1>5. DOMAIN runs' = DOMAIN runs
    <2>1. \/ runs' = CountRequest(runs, r) \/ runs' = CountDrop(runs, r) \/ runs' = runs
      BY <1>1 DEF Commit, Deny, Count
    <2>2. /\ DOMAIN CountRequest(runs, r) = DOMAIN runs /\ DOMAIN CountDrop(runs, r) = DOMAIN runs
      BY DEF CountRequest, CountDrop
    <2>3. QED
      BY <2>1, <2>2
  <1> DEFINE One(q) == IF q = r THEN 1 ELSE 0
  <1>6. \A q : One(q) \in Nat /\ (q # r => One(q) = 0) /\ One(r) = 1
    OBVIOUS
  <1> HIDE DEF One
  <1>7. /\ \A q \in DOMAIN runs : runs'[q].kind = runs[q].kind
        /\ \A q \in (1..MaxRuns) \ DOMAIN runs : rows'[q].denial = rows[q].denial
        /\ \A q \in DOMAIN runs : Filed(q)' = Filed(q) + One(q)
    <2>1. CASE Commit(t)
      <3>1. \A q \in DOMAIN runs : /\ runs'[q].kind = runs[q].kind
                                   /\ runs'[q].dropped = runs[q].dropped
        BY SMTT(30), <1>1, <1>3, <2>1, CountersKeep DEF Commit
      <3>2. \A q \in 1..MaxRuns : /\ rows'[q].exchange = rows[q].exchange + One(q)
                                  /\ rows'[q].denial = rows[q].denial
        BY <1>1, <1>3, <1>4, <1>6, <2>1 DEF Commit
      <3>3. ASSUME NEW q \in DOMAIN runs
            PROVE  Filed(q)' = Filed(q) + One(q)
        <4>1. /\ rows[q].exchange \in Nat /\ rows[q].denial \in Nat
              /\ runs[q].dropped \in Nat /\ One(q) \in Nat
          BY <1>3, <1>4, <1>6
        <4>2. /\ rows'[q].exchange = rows[q].exchange + One(q)
              /\ rows'[q].denial = rows[q].denial
              /\ runs'[q].dropped = runs[q].dropped
          BY <1>3, <3>1, <3>2
        <4>3. QED
          BY <4>1, <4>2 DEF Filed
      <3>4. QED
        BY <3>1, <3>2, <3>3
    <2>2. CASE Deny(t)
      <3>1. runs' = runs
        BY <2>2 DEF Deny
      <3>2. \A q \in 1..MaxRuns : /\ rows'[q].exchange = rows[q].exchange
                                  /\ rows'[q].denial = rows[q].denial + One(q)
        BY SMTT(30), <1>1, <1>3, <1>4, <1>6, <2>2 DEF Deny
      <3>3. ASSUME NEW q \in DOMAIN runs
            PROVE  Filed(q)' = Filed(q) + One(q)
        <4>1. /\ rows[q].exchange \in Nat /\ rows[q].denial \in Nat
              /\ runs[q].dropped \in Nat /\ One(q) \in Nat
          BY <1>3, <1>4, <1>6
        <4>2. /\ rows'[q].exchange = rows[q].exchange
              /\ rows'[q].denial = rows[q].denial + One(q)
              /\ runs'[q].dropped = runs[q].dropped
          BY <1>3, <3>1, <3>2
        <4>3. QED
          BY <4>1, <4>2 DEF Filed
      <3>4. ASSUME NEW q \in (1..MaxRuns) \ DOMAIN runs
            PROVE  rows'[q].denial = rows[q].denial
        BY <1>3, <1>4, <1>6, <3>2
      <3>5. QED
        BY <3>1, <3>3, <3>4
    <2>3. CASE Count(t)
      <3>1. \A q \in DOMAIN runs : /\ runs'[q].kind = runs[q].kind
                                   /\ runs'[q].dropped = runs[q].dropped + One(q)
        <4>1. runs' = CountDrop(runs, r)
          BY <1>1, <2>3 DEF Count
        <4>2. QED
          BY <1>3, <4>1, CountersKeep DEF One
      <3>2. rows' = rows
        BY <2>3 DEF Count
      <3>3. QED
        BY <1>3, <1>4, <1>6, <3>1, <3>2 DEF Filed
    <2>4. QED
      BY <2>1, <2>2, <2>3
  <1>8. SameKinds /\ Unopened'
    BY <1>5, <1>7 DEF SameKinds, FInv, Unopened
  <1>9. \A q \in DOMAIN runs : Filed(q) \in Nat
    BY FiledIsCount DEF FInv
  <1>10. /\ Filed(r)' = Filed(r) + 1
         /\ \A q \in DOMAIN runs : q # r => Filed(q)' = Filed(q)
    BY <1>3, <1>6, <1>7, <1>9
  <1>11. QED
    BY <1>1, <1>2, <1>5, <1>8, <1>10, Booked

\* One more record of a source is given up, and the rest of the books stays.
OneMoreGone(src) ==
    \A q \in Sources :
       /\ books'[q].taken = books[q].taken
       /\ books'[q].swallowed + books'[q].lost =
             books[q].swallowed + books[q].lost + (IF src = q THEN 1 ELSE 0)
       /\ books'[q].swallowed \in Nat /\ books'[q].lost \in Nat

\* One host has nothing in hand any more, and the books say what became of it.
LEMMA GivenUp ==
    ASSUME FInv, SameKinds, SameFiled, NEW h \in Hosts, NEW src, src = work[Serve(h)].source,
           Takes(h, "none"), OneMoreGone(src)
    PROVE  Floor'
  <1> SUFFICES ASSUME NEW q \in Sources
               PROVE  /\ IsFiniteSet(Entries(q)')
                      /\ books'[q].taken =
                            Cardinality(Entries(q)') + Cardinality(Holders(q)')
                               + books'[q].swallowed + books'[q].lost
    BY DEF Floor, FloorHolds
  <1>1. BooksTyped /\ Floor
    BY DEF FInv
  <1>2. Entries(q)' = Entries(q) /\ IsFiniteSet(Entries(q))
    BY <1>1, SameEntries DEF Floor
  <1>3. Cardinality(Entries(q)) \in Nat /\ Cardinality(Holders(q)) \in Nat
    BY <1>2, FS_CardinalityType, HoldersFinite
  <1>4. Cardinality(Holders(q)') =
           Cardinality(Holders(q)) + (IF "none" = q THEN 1 ELSE 0)
                                   - (IF work[Serve(h)].source = q THEN 1 ELSE 0)
    BY HoldersChange
  <1>5. Cardinality(Holders(q)') = Cardinality(Holders(q)) - (IF src = q THEN 1 ELSE 0)
    BY <1>3, <1>4 DEF Sources
  <1>6. books[q].taken = Cardinality(Entries(q)) + Cardinality(Holders(q))
                            + books[q].swallowed + books[q].lost
    BY <1>1 DEF Floor, FloorHolds
  <1>7. books[q].taken \in Nat /\ books[q].swallowed \in Nat /\ books[q].lost \in Nat
    BY <1>1 DEF BooksTyped
  <1>8. QED
    BY <1>2, <1>3, <1>5, <1>6, <1>7 DEF OneMoreGone

\* A record that could not be kept is in hand again, as one dropped; a drop
\* report that could not be kept is swallowed.
LEMMA FRecordFails ==
    ASSUME FInv, NEW h \in Hosts, RecordFails(h)
    PROVE  FGood
  <1>1. PICK src : src = work[Serve(h)].source
    OBVIOUS
  <1> DEFINE lost == work[Serve(h)].frame = "dropped"
             w == CountAsDropped(work[Serve(h)])
  <1>2. /\ work[Serve(h)].pc \in Recording
        /\ work' = [work EXCEPT ![Serve(h)] = w]
        /\ books' = [books EXCEPT ![src].swallowed = IF lost THEN @ + 1 ELSE @]
        /\ UNCHANGED <<runs, rows>>
    BY <1>1 DEF RecordFails
  <1>3. IInv /\ Bounds /\ BooksTyped /\ Floor
    BY DEF FInv
  <1>4. Serve(h) \in Threads /\ work[Serve(h)] \in WorkType
    BY <1>3 DEF IInv, Works, Threads, Serve
  <1>5. src \in Sources
    <2>1. Bound(work[Serve(h)], Serve(h), runs)
      BY <1>3, <1>4 DEF Bounds
    <2>2. QED
      BY <1>1, <1>2, <1>4, <2>1 DEF Bound, Serve, WorkType
  <1>6. SameKinds /\ SameFiled /\ Unopened'
    BY <1>2, TableKept
  <1>7. IF lost THEN w = Free
        ELSE w.pc = "select" /\ w.source = src /\ w.kind = KindOf(src)
    BY <1>1 DEF CountAsDropped, Free
  <1>8. Bound(w, Serve(h), runs')
    <2>1. CASE lost
      BY <1>7, <2>1, FreeBound
    <2>2. CASE ~lost
      BY <1>5, <1>7, <2>2 DEF Bound, Recording, Serve, Sources
    <2>3. QED
      BY <2>1, <2>2
  <1>9. CASE ~lost
    <2>1. books' = books
      BY <1>2, <1>3, <1>5, <1>9 DEF BooksTyped
    <2>2. QED
      BY <1>1, <1>2, <1>4, <1>6, <1>7, <1>8, <1>9, <2>1, SteadyGood
  <1>10. CASE lost
    <2>1. /\ books' = [books EXCEPT ![src].swallowed = @ + 1]
          /\ Takes(h, "none")
      <3>1. w.source = "none"
        BY <1>7, <1>10 DEF Free
      <3> HIDE DEF w
      <3>2. Takes(h, "none")
        BY <1>2, <1>3, <3>1, ServeThreads DEF Takes
      <3>3. QED
        BY <1>2, <1>10, <3>2
    <2>2. Bounds'
      BY <1>2, <1>3, <1>4, <1>6, <1>8, Rebound
    <2>3. BooksTyped' /\ \A q \in Sources :
             /\ books'[q].taken = books[q].taken /\ books'[q].lost = books[q].lost
             /\ books'[q].swallowed = books[q].swallowed + (IF src = q THEN 1 ELSE 0)
             /\ books[q].swallowed \in Nat /\ books[q].lost \in Nat
             /\ books'[q].swallowed \in Nat /\ books'[q].lost \in Nat
      BY <1>3, <1>5, <2>1 DEF BooksTyped
    <2>4. Floor'
      <3>1. OneMoreGone(src)
        BY <2>3 DEF OneMoreGone
      <3>2. QED
        BY <1>1, <1>6, <2>1, <3>1, GivenUp
    <2>5. QED
      BY <1>6, <2>2, <2>3, <2>4 DEF FGood
  <1>11. QED
    BY <1>9, <1>10

\* What the serve thread had in hand dies with its process.
LEMMA FCrash ==
    ASSUME FInv, NEW h \in Hosts, Crash(h)
    PROVE  FGood
  <1>1. PICK src : src = work[Serve(h)].source
    OBVIOUS
  <1>2. /\ work' = [work EXCEPT ![Main(h)] = Free, ![Serve(h)] = Free]
        /\ books' = IF src = "none" THEN books ELSE [books EXCEPT ![src].lost = @ + 1]
        /\ UNCHANGED <<runs, rows>>
    BY <1>1 DEF Crash
  <1>3. IInv /\ Bounds /\ BooksTyped /\ Floor
    BY DEF FInv
  <1>4. /\ Serve(h) \in Threads /\ Main(h) \in Threads /\ Main(h) # Serve(h)
        /\ work \in [Threads -> WorkType]
        /\ \A g \in Hosts : Main(h) # Serve(g) /\ (g # h => Serve(g) # Serve(h))
                            /\ Serve(g) \in Threads
    BY <1>3 DEF IInv, Works, Threads, Serve, Main
  <1>5. SameKinds /\ SameFiled /\ Unopened'
    BY <1>2, TableKept
  <1>6. Free.source = "none" /\ Free.pc = "idle"
    BY DEF Free
  <1>7. Takes(h, "none")
    BY <1>2, <1>4, <1>6 DEF Takes
  <1>8. Bounds'
    <2> SUFFICES ASSUME NEW u \in Threads PROVE Bound(work'[u], u, runs')
      BY DEF Bounds
    <2>1. work'[u] = work[u] \/ work'[u] = Free
      BY <1>2, <1>4
    <2>2. Bound(work[u], u, runs')
      BY <1>2, <1>3 DEF Bounds
    <2>3. Bound(Free, u, runs')
      BY FreeBound
    <2>4. QED
      BY <2>1, <2>2, <2>3
  <1>9. src \in Sources \cup {"none"}
    BY <1>1, <1>4 DEF WorkType
  <1>10. CASE src = "none"
    <2>1. \A g \in Hosts : work'[Serve(g)].source = work[Serve(g)].source
      BY <1>1, <1>7, <1>10 DEF Takes
    <2>2. QED
      BY <1>2, <1>5, <1>8, <1>10, <2>1, FloorStays DEF FGood
  <1>11. CASE src # "none"
    <2>1. BooksTyped' /\ \A q \in Sources :
             /\ books'[q].taken = books[q].taken
             /\ books'[q].swallowed = books[q].swallowed
             /\ books'[q].lost = books[q].lost + (IF src = q THEN 1 ELSE 0)
             /\ books[q].swallowed \in Nat /\ books[q].lost \in Nat
             /\ books'[q].swallowed \in Nat /\ books'[q].lost \in Nat
      BY <1>2, <1>3, <1>9, <1>11 DEF BooksTyped
    <2>2. Floor'
      <3>1. OneMoreGone(src)
        BY <2>1 DEF OneMoreGone
      <3>2. QED
        BY <1>1, <1>5, <1>7, <3>1, GivenUp
    <2>3. QED
      BY <1>5, <1>8, <2>1, <2>2 DEF FGood
  <1>12. QED
    BY <1>10, <1>11

LEMMA FInit == Init => FInv
  <1> SUFFICES ASSUME Init PROVE FInv
    OBVIOUS
  <1>1. IInv
    BY InitHolds
  <1>2. Bounds
    BY FreeBound DEF Init, Bounds
  <1>3. Unopened /\ BooksTyped
    BY DEF Init, Unopened, BooksTyped
  <1>4. \A s \in Sources : Entries(s) = {} /\ Holders(s) = {}
    <2>1. DOMAIN runs = {}
      BY DEF Init
    <2>2. \A h \in Hosts : work[Serve(h)].source = "none"
      BY DEF Init, Threads, Serve, Free
    <2>3. QED
      BY <2>1, <2>2 DEF Entries, RunsFor, Holders, Sources
  <1>5. Floor
    <2>1. IsFiniteSet({}) /\ Cardinality({}) = 0
      BY FS_EmptySet
    <2>2. \A s \in Sources :
             books[s].taken = 0 /\ books[s].swallowed = 0 /\ books[s].lost = 0
      BY DEF Init
    <2>3. \A s \in Sources :
             /\ IsFiniteSet(Entries(s)) /\ Cardinality(Entries(s)) = 0
             /\ IsFiniteSet(Holders(s)) /\ Cardinality(Holders(s)) = 0
      BY <1>4, <2>1
    <2>4. FloorHolds
      BY <2>2, <2>3 DEF FloorHolds
    <2>5. QED
      BY <2>3, <2>4 DEF Floor
  <1>6. QED
    BY <1>1, <1>2, <1>3, <1>5 DEF FInv

LEMMA FHost ==
    ASSUME FInv, NEW h \in Hosts,
           \/ TakeHalted(h) \/ Abort(h) \/ AbortFails(h)
           \/ Start(h) \/ Close(h) \/ MainFails(h) \/ Teardown(h)
    PROVE  FGood
  <1>1. /\ Main(h) \in Threads /\ Main(h)[2] = "main"
        /\ Serve(h) \in Threads /\ Serve(h)[2] # "main"
        /\ Free = [Free EXCEPT !.pc = "idle"]
    BY FreeBound DEF Threads, Main, Serve
  <1>2. CASE TakeHalted(h)
    <2> DEFINE w == [Free EXCEPT !.pc = "abort", !.ids = Running(runs)]
    <2>1. w.pc = "abort" /\ w.source = "none"
      BY DEF Free
    <2>2. Bound(w, Serve(h), runs')
      BY <1>1, <2>1 DEF Bound, Recording
    <2>3. work[Serve(h)].source = "none"
      <3>1. Bound(work[Serve(h)], Serve(h), runs) /\ work[Serve(h)].pc = "idle"
        BY <1>1, <1>2 DEF FInv, Bounds, TakeHalted
      <3>2. QED
        BY <1>1, <3>1 DEF Bound, Recording
    <2>4. SameKinds /\ SameFiled /\ Unopened'
      BY <1>2, TableKept DEF TakeHalted
    <2>5. work' = [work EXCEPT ![Serve(h)] = w] /\ books' = books
      BY <1>2 DEF TakeHalted
    <2> HIDE DEF w
    <2>6. QED
      BY <1>1, <2>1, <2>2, <2>3, <2>4, <2>5, SteadyGood
  <1>3. CASE Abort(h) \/ AbortFails(h)
    <2>1. SameKinds /\ SameFiled /\ Unopened'
      BY <1>3, TableKept DEF Abort, AbortFails, AbortRuns, Endings, Causes
    <2>2. work[Serve(h)].pc \notin Recording
      BY <1>3 DEF Abort, AbortFails, Recording
    <2>3. work' = [work EXCEPT ![Serve(h)] = Free] /\ books' = books
      BY <1>3 DEF Abort, AbortFails, Done
    <2>4. QED
      BY <1>1, <2>1, <2>2, <2>3, FreedGood
  <1>4. CASE Start(h)
    <2> DEFINE w == [Free EXCEPT !.kind = HostKind[h],
                                 !.pc = IF h \in Joins THEN "select" ELSE "insert"]
    <2>1. Bound(w, Main(h), runs')
      BY <1>1 DEF Bound, Free
    <2>2. SameKinds /\ SameFiled /\ Unopened'
      BY <1>4, TableKept DEF Start
    <2>3. work' = [work EXCEPT ![Main(h)] = w] /\ books' = books
      BY <1>4 DEF Start
    <2> HIDE DEF w
    <2>4. QED
      BY <1>1, <2>1, <2>2, <2>3, SteadyGood
  <1>5. CASE Close(h) \/ MainFails(h)
    <2>1. SameKinds /\ SameFiled /\ Unopened'
      <3>1. OwnEndings(h) \subseteq Endings /\ "host" \in Causes
        BY DEF OwnEndings, Endings, Causes
      <3>2. QED
        BY <1>5, <3>1, TableKept DEF Close, MainFails, CloseRun
    <2>2. work' = [work EXCEPT ![Main(h)] = [Free EXCEPT !.pc = "teardown"]]
          /\ books' = books
      BY <1>5 DEF Close, MainFails
    <2>3. QED
      BY <1>1, <2>1, <2>2, FreedGood
  <1>6. CASE Teardown(h)
    <2>1. SameKinds /\ SameFiled /\ Unopened'
      BY <1>6, TableKept DEF Teardown
    <2>2. work' = [work EXCEPT ![Main(h)] = Free] /\ books' = books
      BY <1>6 DEF Teardown, Done
    <2>3. QED
      BY <1>1, <2>1, <2>2, FreedGood
  <1>7. QED
    BY <1>2, <1>3, <1>4, <1>5, <1>6

\* Steps of no thread: time, and commands that look or end runs.
LEMMA FElse ==
    ASSUME FInv, Tick \/ StopLooks \/ InfoLooks \/ StopCloses \/ Reap \/ UNCHANGED vars
    PROVE  FGood
  <1>1. SameKinds /\ SameFiled /\ Unopened'
    <2>1. CASE StopCloses
      BY <2>1, TableKept DEF StopCloses, Endings, Causes
    <2>2. CASE Reap
      BY <2>2, TableKept DEF Reap, CloseRun, Endings, Causes
    <2>3. CASE Tick \/ StopLooks \/ InfoLooks \/ UNCHANGED vars
      BY <2>3, TableKept DEF Tick, StopLooks, InfoLooks, vars
    <2>4. QED
      BY <2>1, <2>2, <2>3
  <1>2. work' = work /\ books' = books
    BY DEF Tick, StopLooks, InfoLooks, StopCloses, Reap, vars
  <1>3. QED
    BY <1>1, <1>2, NobodyMoves

LEMMA FNext == FInv /\ [Next]_vars => FInv'
  <1> SUFFICES ASSUME FInv, [Next]_vars PROVE FInv'
    OBVIOUS
  <1>1. IInv'
    BY StepGood DEF FInv, Good
  <1>2. FGood
    <2>1. CASE Next
      BY <2>1, FSelectRun, FCloseIdle, FInsertRun, FBeat, FRecorded, FTakeRecord,
         FRecordFails, FCrash, FHost, FElse DEF Next
    <2>2. CASE UNCHANGED vars
      BY <2>2, FElse
    <2>3. QED
      BY <2>1, <2>2
  <1>3. QED
    BY <1>1, <1>2 DEF FInv, FGood

\* The coverage floor: whatever fails, dies or is ended in the middle, every
\* record the extension handed over is an entry of a run of its source's kind,
\* or in hand, or counted as swallowed or lost (BridgeServer._capture,
\* _count_as_dropped).
THEOREM FloorStands == Spec => []FloorHolds
  <1>1. Init => FInv
    BY FInit
  <1>2. FInv /\ [Next]_vars => FInv'
    BY FNext
  <1>3. FInv => FloorHolds
    BY DEF FInv, Floor
  <1>4. QED
    BY <1>1, <1>2, <1>3, PTL DEF Spec
=============================================================================
