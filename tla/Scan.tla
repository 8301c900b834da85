-------------------------------- MODULE Scan --------------------------------
(***************************************************************************)
(* One scan of an engagement (hx.scan.run): the loop over surfaces and      *)
(* checks, the check_run row of each pair, the bracket of liveness          *)
(* canaries around the probes of an authenticated run                       *)
(* (hx.identity, scan._IdentityBracket), the findings it writes, the ones   *)
(* it retires, and what it says of itself when it closes.                   *)
(*                                                                          *)
(* Findings of earlier scans are on file when it starts: any that such a    *)
(* scan can have left.                                                      *)
(***************************************************************************)
EXTENDS ActiveChecks

CONSTANTS
    SurfaceSeq,     \* the surfaces in the order the scan visits them
    Options,        \* what a scan may be started with (see opt)
    Origin,         \* per surface, its scheme, host and port
    Applied,        \* the origins the credential may be applied at
    Honoured,       \* the origins that honour it
    DueEvery,       \* liveness.every_n_probes
    FailingWrites   \* the hooks of checks whose findings may fail to be stored

\* The surfaces are the rows of a table, each listed once.  A scan without a
\* check opens no run.
ASSUME ScanAssumptions ==
    /\ SurfaceSeq \in Seq(Surfaces)
    /\ \A s \in Surfaces : \E n \in DOMAIN SurfaceSeq : SurfaceSeq[n] = s
    /\ \A m, n \in DOMAIN SurfaceSeq : SurfaceSeq[m] = SurfaceSeq[n] => m = n
    /\ \A o \in Options : o.checks \in Seq(Corpus) \ {<<>>}
    /\ DueEvery \in Nat \ {0}
    /\ Honoured \subseteq Applied
    /\ FailingWrites \subseteq {"on_surface", "probes"}

VARIABLES
    pc,         \* where the scan stands
    opt,        \* checks, bridge, filter, strategy, limited, facts
    si, ci,     \* the surface and the check it is at
    window,     \* the IdentityWindow, and what the bracket is doing
    late,       \* has max_seconds passed
    rows,       \* per surface and check, the verdict of its check_run row
    told,       \* the summary's tallies: something skipped, something refused
    offered,    \* the issue types a verdict examined, per surface and check, each
                \* with what is really so: was it looked for logged in, and absent
    verdict,    \* the verdict of the open row, its candidates still to write
    seen,       \* the keys of the findings this scan wrote
    findings,   \* the findings on file
    run,        \* the run row
    truth       \* did every probe at the target's origin go out logged in,
                \* was any request of the scan refused

loopVars == <<opt, si, ci, late>>
bookVars == <<rows, told, offered, verdict, seen, findings, truth>>
vars == <<pc, loopVars, window, bookVars, run, rowVars>>

-----------------------------------------------------------------------------
Surface == SurfaceSeq[si]
Check == opt.checks[ci]
Row == <<Surface, ci>>
Chosen(s) == s \in opt.filter
Rows == Surfaces \X DOMAIN opt.checks

\* The run is bracketed by canaries when it has a bridge, an identity, a
\* surface, and a check that probes.
Bracketed ==
    /\ opt.bridge
    /\ opt.strategy # "none"
    /\ opt.filter # {}
    /\ \E i \in DOMAIN opt.checks : opt.checks[i].hook = "probes"

\* The canary goes to the origin of the first chosen surface.
ProvenOrigin == Origin[Kept(SurfaceSeq, opt.filter)[1]]

\* What a finding is: its check and issue type, the place it was found at as
\* wide as the candidate's scope level, and the insertion point.
Key(c, type, s, p) ==
    [check |-> c.id, type |-> type, point |-> p,
     place |-> IF c.level = "host" THEN Origin[s] ELSE s]

WantedSet(c, s) == {Wanted(c, s)[n] : n \in DOMAIN Wanted(c, s)}

FindingsOf(i) ==
    UNION {LET c == opt.checks[i]
               points == IF c.hook = "probes"
                           THEN WantedSet(c, s)
                           ELSE {Whole}
           IN  {[key |-> Key(c, t, s, p), check |-> i, surface |-> s, observed |-> TRUE] :
                  t \in c.types, p \in points} : s \in Surfaces}

Keys(fs) == {f.key : f \in fs}
OnePerKey(fs) == \A f, g \in fs : f.key = g.key => f = g

Unopened == [status |-> "none", told |-> FALSE, identity |-> "none"]

\* Every finding an earlier scan can have written is on file, at any surface
\* its key allows.
Init ==
    /\ RowInit
    /\ opt \in Options
    /\ LET all == UNION {FindingsOf(i) : i \in DOMAIN opt.checks}
       IN  findings \in {fs \in SUBSET all : OnePerKey(fs) /\ Keys(fs) = Keys(all)}
    /\ pc = "open"
    /\ si = 1 /\ ci = 1 /\ late = FALSE
    /\ window = [opened |-> "never", failed |-> FALSE, since |-> 0, due |-> FALSE,
                 why |-> "start"]
    /\ rows = [x \in Rows |-> "none"]
    /\ told = [skipped |-> FALSE, refused |-> FALSE]
    /\ offered = {} /\ verdict = NoVerdict /\ seen = {}
    /\ run = Unopened
    /\ truth = [live |-> TRUE, refused |-> FALSE]

-----------------------------------------------------------------------------
(* The run row. *)

CanaryFor(why) == /\ pc' = "canary"
                  /\ window' = [window EXCEPT !.why = why, !.due = FALSE]

Open ==
    /\ pc = "open"
    /\ run' = [Unopened EXCEPT !.status = "running"]
    /\ IF Bracketed THEN CanaryFor("start") ELSE pc' = "surface" /\ UNCHANGED window
    /\ UNCHANGED <<loopVars, bookVars, rowVars>>

\* The credential cannot be read or minted: there is no bracket yet.
ResolveFails ==
    /\ pc = "open"
    /\ Bracketed
    /\ run' = [Unopened EXCEPT !.status = "error", !.told = TRUE]
    /\ pc' = "done"
    /\ UNCHANGED <<loopVars, window, bookVars, rowVars>>

\* run()'s handler: the identity's state is recorded and the run is closed.
Halt(state) ==
    /\ run' = [status |-> "error", told |-> TRUE,
               identity |-> IF Bracketed THEN state ELSE "none"]
    /\ pc' = "done"

\* The worst window decides.  The mutant forgets the failures between.
MutantStateForRun == IF window.opened # "passed" THEN "dead" ELSE "proven"
StateForRun ==
    IF window.opened # "passed" THEN "dead"
    ELSE IF window.failed THEN "assumed" ELSE "proven"

-----------------------------------------------------------------------------
(* The canaries. *)

One(b) == IF b THEN 1 ELSE 0

\* `spent` is written to the store, or added to canary_requests, of `issued`.
Accounted(spent, issued) == left' = IF issued > spent THEN issued - spent ELSE 0

\* Where the bracket goes on after a canary that settled it.
Proceed ==
    pc' = CASE window.why = "start" -> "surface"
            [] window.why = "due" -> "check"
            [] window.why = "finish" -> "settle"

\* window.open(): the first one says whether the run ever was proved.
Opened(w) == [w EXCEPT !.opened = IF @ = "never" THEN "passed" ELSE @, !.since = 0]

CanaryPasses ==
    /\ pc \in {"canary", "again"}
    /\ live
    /\ ProvenOrigin \in Honoured
    /\ Accounted(1, left + 1)
    /\ window' = IF window.why = "finish" THEN window ELSE Opened(window)
    /\ Proceed
    /\ UNCHANGED <<loopVars, rows, told, offered, verdict, seen, findings, run,
                   truth, sender, probing, live>>

\* It was answered without the signature, or it was refused.
CanaryFails ==
    /\ pc \in {"canary", "again"}
    /\ \E refused, counted, reached \in BOOLEAN :
         /\ IF refused THEN reached => counted ELSE counted /\ reached
         /\ Accounted(One(counted), left + One(reached))
         /\ told' = [told EXCEPT !.refused = @ \/ refused]
         /\ truth' = [truth EXCEPT !.refused = @ \/ refused]
    /\ window' = [window EXCEPT !.failed = @ \/ window.why # "start"]
    /\ IF window.why = "finish" THEN pc' = "settle" /\ UNCHANGED run
       ELSE IF pc = "canary" /\ opt.strategy = "programmatic"
         THEN pc' = "refresh" /\ UNCHANGED run
       ELSE Halt("dead")
    /\ UNCHANGED <<loopVars, rows, offered, verdict, seen, findings,
                   sender, probing, live>>

\* The refresh command mints a credential, which may be worth nothing.
Refresh ==
    /\ pc = "refresh"
    /\ live' \in BOOLEAN
    /\ pc' = "again"
    /\ UNCHANGED <<loopVars, window, bookVars, run, sender, probing, left>>

RefreshFails ==
    /\ pc = "refresh"
    /\ Halt("dead")
    /\ UNCHANGED <<loopVars, window, bookVars, rowVars>>

\* bracket.note() for the requests of a row.
Noted(n) ==
    [window EXCEPT !.since = (@ + n) % DueEvery,
                   !.due = @ \/ window.since + n >= DueEvery]

-----------------------------------------------------------------------------
(* The loop. *)

\* The deadline is read once per surface.
EnterSurface ==
    /\ pc = "surface"
    /\ si <= Len(SurfaceSeq)
    /\ Chosen(Surface)
    /\ ~late
    /\ pc' = "check"
    /\ ci' = 1
    /\ UNCHANGED <<opt, si, late, window, bookVars, run, rowVars>>

PassOver ==
    /\ pc = "surface"
    /\ si <= Len(SurfaceSeq)
    /\ ~Chosen(Surface)
    /\ si' = si + 1
    /\ UNCHANGED <<pc, opt, ci, late, window, bookVars, run, rowVars>>

\* _skip_rest: the budget is spent, every check of the surface is skipped.
SkipRest ==
    /\ pc = "surface"
    /\ si <= Len(SurfaceSeq)
    /\ Chosen(Surface)
    /\ late \/ opt.limited
    /\ late' = TRUE
    /\ rows' = [x \in Rows |-> IF x[1] = Surface THEN "skipped" ELSE rows[x]]
    /\ told' = [told EXCEPT !.skipped = TRUE]
    /\ si' = si + 1
    /\ UNCHANGED <<pc, opt, ci, window, offered, verdict, seen, findings,
                   truth, run, rowVars>>

\* The mutant visits the surface again.
MutantLeaveSurface ==
    /\ pc = "check"
    /\ ci > Len(opt.checks)
    /\ pc' = "surface"
    /\ UNCHANGED <<loopVars, window, bookVars, run, rowVars>>
LeaveSurface ==
    /\ pc = "check"
    /\ ci > Len(opt.checks)
    /\ si' = si + 1
    /\ pc' = "surface"
    /\ UNCHANGED <<opt, ci, late, window, bookVars, run, rowVars>>

\* canary_if_due, before the next row is opened.
CanaryDue ==
    /\ pc = "check"
    /\ ci <= Len(opt.checks)
    /\ Bracketed
    /\ window.due
    /\ CanaryFor("due")
    /\ UNCHANGED <<loopVars, bookVars, run, rowVars>>

\* Why a check that probes has nothing to send here, in the runner's order:
\* the surface's fact, or no point of a kind the check wants.
Lacks(s, c) ==
    IF ~opt.bridge THEN "no_bridge"
    ELSE IF opt.facts[s] \in {"not_a_get_surface", "no_exemplar", "no_probe_path"}
      THEN opt.facts[s]
    ELSE IF c.kinds # {} /\ Declared(c, s) = <<>> THEN "no_insertion_point"
    ELSE IF c.kinds # {} /\ Usable(c, s) = <<>> THEN "no_probeable_insertion_point"
    ELSE "nothing"

RowDue == /\ pc = "check"
          /\ ci <= Len(opt.checks)
          /\ ~(Bracketed /\ window.due)

SkipRow ==
    /\ RowDue
    /\ Check.hook = "probes"
    /\ Lacks(Surface, Check) # "nothing"
    /\ rows' = [rows EXCEPT ![Row] = "skipped"]
    /\ told' = [told EXCEPT !.skipped = TRUE]
    /\ ci' = ci + 1
    /\ UNCHANGED <<pc, opt, si, late, window, offered, verdict, seen,
                   findings, truth, run, rowVars>>

OpenRow ==
    /\ RowDue
    /\ Check.hook = "probes" => Lacks(Surface, Check) = "nothing"
    /\ rows' = [rows EXCEPT ![Row] = "pending"]
    /\ IF Check.hook = "probes"
         THEN StartRow(Check, Surface) /\ pc' = "probing"
         ELSE UNCHANGED rowVars /\ pc' = "reading"
    /\ UNCHANGED <<loopVars, window, told, offered, verdict, seen, findings,
                   truth, run>>

\* _close_row with what the row's sender spent; the bracket notes its probes.
CloseRow(v) ==
    /\ rows' = [rows EXCEPT ![Row] = v]
    /\ Accounted(sender.sent, left)
    /\ told' = [told EXCEPT !.refused = @ \/ sender.refused]
    /\ window' = IF Bracketed THEN Noted(sender.sent) ELSE window
    /\ sender' = NoSender
    /\ probing' = NoRow
    /\ verdict' = NoVerdict
    /\ ci' = ci + 1
    /\ pc' = "check"

-----------------------------------------------------------------------------
(* The checks, and what the runner does with their verdicts. *)

\* An accepted verdict: what it examined is offered for retirement before its
\* findings are written.
Accept(v, absent) ==
    /\ verdict' = v
    /\ offered' = offered \cup {<<Surface, ci, t, t \in absent>> : t \in v.considered}
    /\ pc' = "writing"

\* on_surface: `looked` are the issue types the captured traffic bears on,
\* `cands` those it exhibits.
ReadTraffic ==
    /\ pc = "reading"
    /\ \E looked \in SUBSET Check.types : \E cands \in SUBSET looked :
         \E readable, gaps \in BOOLEAN :
           LET v == PassiveVerdict({<<t, Whole>> : t \in cands}, looked, readable, gaps)
           IN  /\ cands # {} => readable
               /\ Accept(v, looked \ cands)
    /\ UNCHANGED <<loopVars, window, rows, told, seen, findings, truth,
                   run, rowVars>>

\* The extension refuses the credential at an origin it is not applied at.
Reachable == ~Bracketed \/ Origin[Surface] \in Applied

\* Does a request of this scan meet the application as a logged-in user?
Genuine == Bracketed /\ Origin[Surface] \in Honoured

ProbeAnswered ==
    /\ pc = "probing"
    /\ Reachable
    /\ Answered(Genuine)
    /\ truth' = [truth EXCEPT !.live =
                   @ /\ (Bracketed /\ Origin[Surface] = ProvenOrigin => live)]
    /\ UNCHANGED <<pc, loopVars, window, rows, told, offered, verdict, seen,
                   findings, run>>

ProbeDelayed ==
    /\ pc = "probing"
    /\ RateLimited
    /\ UNCHANGED <<pc, loopVars, window, bookVars, run>>

PointLost ==
    /\ pc = "probing"
    /\ PointRefused
    /\ truth' = [truth EXCEPT !.refused = TRUE]
    /\ UNCHANGED <<pc, loopVars, window, rows, told, offered, verdict, seen,
                   findings, run>>

\* A refusal the check does not catch ends the row.
ProbeRefused ==
    /\ pc = "probing"
    /\ probing.check.shape = "bare"
    /\ Probing
    /\ \E counted, reached \in BOOLEAN :
         /\ reached => counted
         /\ rows' = [rows EXCEPT ![Row] = "inconclusive"]
         /\ Accounted(sender.sent + One(counted), left + One(reached))
         /\ window' = IF Bracketed THEN Noted(sender.sent + One(counted)) ELSE window
    /\ told' = [told EXCEPT !.refused = TRUE]
    /\ truth' = [truth EXCEPT !.refused = TRUE]
    /\ sender' = NoSender
    /\ probing' = NoRow
    /\ ci' = ci + 1
    /\ pc' = "check"
    /\ UNCHANGED <<opt, si, late, live, offered, verdict, seen, findings, run>>

\* An answer was read at every point the check wants.
Examined == probing.compared = WantedSet(Check, Surface)

\* The loop is over.  A finding names one of its check's issue types per point.
Conclude ==
    /\ pc = "probing"
    /\ ~Probing
    /\ \E type \in [probing.found -> Check.types] :
         Accept([RowVerdict EXCEPT !.candidates = {<<type[p], p>> : p \in @}],
                IF ~probing.dark /\ Examined THEN Check.types ELSE {})
    /\ UNCHANGED <<loopVars, window, rows, told, seen, findings, truth,
                   run, rowVars>>

\* The check raises: the row says so, with what its sender had spent.  The
\* mutant goes on to the next check.
MutantCheckRaises ==
    /\ pc \in {"reading", "probing"}
    /\ sender' = NoSender /\ probing' = NoRow
    /\ ci' = ci + 1 /\ pc' = "check"
    /\ UNCHANGED <<opt, si, late, window, bookVars, run, live, left>>
CheckRaises ==
    /\ pc \in {"reading", "probing"}
    /\ CloseRow("error")
    /\ UNCHANGED <<opt, si, late, offered, seen, findings, truth, run,
                   live>>

\* The row of a key moves to the surface and the check that found it last, and
\* this run's observation of it is a sighting.
Observed(f, seenNow) == [f EXCEPT !.observed = seenNow]
Upserted(fs, k, i, s) ==
    {f \in fs : f.key # k} \cup
    {Observed([key |-> k, check |-> i, surface |-> s, observed |-> FALSE], TRUE)}

\* _write_finding: the finding and its observation, in one transaction.
WriteFinding ==
    /\ pc = "writing"
    /\ \E c \in verdict.candidates :
         LET k == Key(Check, c[1], Surface, c[2]) IN
         /\ findings' = Upserted(findings, k, ci, Surface)
         /\ seen' = seen \cup {k}
         /\ verdict' = [verdict EXCEPT !.candidates = @ \ {c}]
    /\ UNCHANGED <<pc, loopVars, window, rows, told, offered, truth,
                   run, rowVars>>

\* The transaction fails: the runner takes it for an error of the check.
WriteFails ==
    /\ pc = "writing"
    /\ verdict.candidates # {}
    /\ Check.hook \in FailingWrites
    /\ CloseRow("error")
    /\ UNCHANGED <<opt, si, late, offered, seen, findings, truth, run,
                   live>>

RowDone ==
    /\ pc = "writing"
    /\ verdict.candidates = {}
    /\ CloseRow(verdict.state)
    /\ UNCHANGED <<opt, si, late, offered, seen, findings, truth, run,
                   live>>

-----------------------------------------------------------------------------
(* The end. *)

LoopDone ==
    /\ pc = "surface"
    /\ si > Len(SurfaceSeq)
    /\ IF Bracketed THEN CanaryFor("finish") ELSE pc' = "settle" /\ UNCHANGED window
    /\ UNCHANGED <<loopVars, bookVars, run, rowVars>>

\* The state of the identity is settled, and recorded.
Settle ==
    /\ pc = "settle"
    /\ run' = [run EXCEPT !.identity = IF Bracketed THEN StateForRun ELSE "none"]
    /\ pc' = "mark"
    /\ UNCHANGED <<loopVars, window, bookVars, rowVars>>

\* What was examined by a check whose view of the application this run can
\* vouch for.  The mutant takes the proof to every origin.
MutantRetirable(s, i) == opt.checks[i].hook # "probes" \/ run.identity = "proven"
Retirable(s, i) ==
    \/ opt.checks[i].hook # "probes"
    \/ run.identity = "proven" /\ Origin[s] = ProvenOrigin

Considered == {<<x[1], x[2], x[3]>> : x \in {o \in offered : Retirable(o[1], o[2])}}

\* _mark_unobserved: a finding of an examined type that was not written again.
MarkUnobserved ==
    /\ pc = "mark"
    /\ findings' = {IF f.key \notin seen
                          /\ <<f.surface, f.check, f.key.type>> \in Considered
                        THEN Observed(f, FALSE) ELSE f : f \in findings}
    /\ pc' = "close"
    /\ UNCHANGED <<loopVars, window, rows, told, offered, verdict, seen,
                   truth, run, rowVars>>

\* The mutant tells of what was skipped and not of what was refused.
MutantCloseRun ==
    /\ pc = "close"
    /\ run' = [run EXCEPT !.status = "completed", !.told = told.skipped]
    /\ pc' = "done"
    /\ UNCHANGED <<loopVars, window, bookVars, rowVars>>
CloseRun ==
    /\ pc = "close"
    /\ run' = [run EXCEPT !.status = "completed", !.told = told.skipped \/ told.refused]
    /\ pc' = "done"
    /\ UNCHANGED <<loopVars, window, bookVars, rowVars>>

\* The operator interrupts, or the store fails outside a check.  A request may
\* be on its way.
Interrupted ==
    /\ pc \notin {"open", "close", "done"}
    /\ Halt("assumed")
    /\ \/ UNCHANGED left
       \/ /\ pc \in {"canary", "again"} \/ (pc = "probing" /\ Probing)
          /\ left' = left + 1
    /\ UNCHANGED <<loopVars, window, bookVars, sender, probing, live>>

\* After the handler's reach: nobody closes the run.
InterruptedAtClose ==
    /\ pc = "close"
    /\ pc' = "done"
    /\ UNCHANGED <<loopVars, window, bookVars, run, rowVars>>

LoseSession ==
    /\ pc # "done"
    /\ SessionDies
    /\ UNCHANGED <<pc, loopVars, window, bookVars, run>>

TheScan ==
    \/ Open \/ ResolveFails \/ CanaryPasses \/ CanaryFails \/ Refresh \/ RefreshFails
    \/ EnterSurface \/ PassOver \/ SkipRest \/ LeaveSurface \/ CanaryDue
    \/ SkipRow \/ OpenRow \/ ReadTraffic \/ ProbeAnswered \/ ProbeDelayed \/ PointLost \/ ProbeRefused
    \/ Conclude \/ CheckRaises \/ WriteFinding \/ WriteFails \/ RowDone
    \/ LoopDone \/ Settle \/ MarkUnobserved \/ CloseRun

Next == TheScan \/ Interrupted \/ InterruptedAtClose \/ LoseSession

\* Every call of the scan returns: a send has a timeout, a refresh 60 seconds,
\* and a transaction the store's busy timeout.
Spec == Init /\ [][Next]_vars /\ WF_vars(TheScan)

-----------------------------------------------------------------------------
(* Correctness. *)

\* A finding that reads "appears fixed" (scan._mark_unobserved) was looked for
\* at its own surface by its own check, in captured traffic that was whole or
\* through probes that met the application logged in and were answered at every
\* point, and it was not there: whatever the session, the canaries and the
\* refusals did meanwhile, and where the store may only fail to take the
\* findings of checks that probe (FailingWrites) and every body can be compared
\* (LargeBodies).
RetiredMeansGone ==
    \A f \in findings : ~f.observed => <<f.surface, f.check, f.key.type, TRUE>> \in offered

\* A check that raised or was skipped retires nothing (scan._mark_unobserved).
ErrorRetiresNothing ==
    \A f \in findings : ~f.observed => rows[f.surface, f.check] \in {"clean", "finding"}

\* `proven` on the run row (scan._record_identity): every probe at the origin
\* the canaries were sent to went out while the session was logged in, though
\* the run looked at it only now and then.
ProvenIsEarned == run.identity = "proven" => truth.live

\* The requests on a scan's rows and its canary_requests cover every request
\* that reached the network (scan._spent, ProbeSender.sent); only a run that
\* was broken off may hold more.
SpentCoversIssued ==
    run.status # "error" => left <= sender.sent

\* A completed run has decided every row of every surface it was asked for, and
\* says `truncated` exactly when one was skipped or a request was refused
\* (scan._tallies).
TruncationIsTold ==
    run.status = "completed" =>
        /\ \A x \in Rows : IF Chosen(x[1]) THEN rows[x] \notin {"none", "pending"}
                                           ELSE rows[x] = "none"
        /\ run.told = (truth.refused \/ \E x \in Rows : rows[x] = "skipped")

\* A check that probed says `clean` only where an answer was read, and compared
\* where comparing is what it does, at every point it wants
\* (_probe_util.verdict).
CleanMeansExamined ==
    pc = "writing" /\ Check.hook = "probes" /\ verdict.state = "clean" =>
        Examined

\* The scan implements its promise: no verdict is revised, nothing is retired
\* before the last verdict or on a row that did not look, and the run closes
\* with what it left out.
Promise == INSTANCE ScanPromise WITH
    asked <- {x \in Rows : Chosen(x[1])},
    verdicts <- [x \in {y \in Rows : rows[y] \notin {"none", "pending"}} |-> rows[x]],
    retired <- {<<f.surface, f.check>> : f \in {g \in findings : ~g.observed}},
    status <- run.status,
    truncated <- run.told

KeepsItsPromise == Promise!Spec

\* Every scan ends, with its run closed or in the hands of reap_stale.
ScanEnds == <>(pc = "done")

=============================================================================
