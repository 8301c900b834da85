# hx, specified

hx drives authorised web-application assessments. A Python package (`src/src/hx`) runs engagements: it
launches Burp Suite and a crawler, keeps the evidence in a store, and issues requests through an
extension (`src/extension/src/hx`, Java) that runs inside Burp. The two talk over one Unix socket. The
promise of the whole is about authority: nothing reaches a target unless a configuration in force allows
it, within the rate and the budget, and not after an operator or the target's own distress has said stop;
and whatever happened is on record, or counted as missing from it.

These modules specify the parts that keep that promise. They are checked with TLC on small instances and,
where the argument does not need liveness, proved with TLAPS for all values of the constants.

## The system

| Component | State it keeps | Operations | Talks to |
| --- | --- | --- | --- |
| `policy/Limiter.java` | tokens, last refill, requests issued | `check` | called by `Limits` |
| `send/Limits.java` | the run's one limiter, armed once | `arm`, `check`, `refuseIfLimitsMoved` | read loop and proxy threads |
| `send/HaltSwitch.java` | frame half, sentinel half, armed, stamp of the last answer | `start`, `stop`, poll, both frames, `halted` | sentinel file, read loop, sender |
| `halt.py` (`OperatorHalt`) | sentinel file, halt/resume rows | `halt`, `resume`, `halted` | `hx halt`, `hx resume`, the web page, the bridge server |
| `bridge/BridgeClient.java` | configured, committed authorisation, epoch, closed | the read loop's frames, `close` | sender, limits, switch |
| `send/Sender.java` | whether distress was announced | `issue` | policy, limits, switch, distress |
| `policy/Distress.java` | per-host windows and baselines, sticky stop | `record`, `stopReason` | sender |
| `proxy/ProxyGate.java`, `HxExtension.java` | the loaded components | Burp's proxy callbacks, load, unload | policy, limits, capture |
| `proxy/Capture.java`, `Pending.java` | bounded queue, drop counters, requests waiting | `offer`, drain, `start`, `stop` | proxy threads, bridge client |
| `bridge/server.py` (`BridgeServer`) | state, epoch, generation, pending requests and replies | serve thread, `configure`, `send`, `halt`, `resume` | session, scan, capture callbacks |
| `run.py`, `capture.py`, `store/` | run rows and their counters, exchanges, denials | callbacks of the bridge, `current_run`, `close_run`, the reaper | SQLite, every other process of the engagement |
| `engagement.py` | `config.yaml`, the scope versions recorded of it | `hx new`, `open_`, `hx amend` | files, store |
| `scan.py`, `identity.py`, `checks/` | the rows of a scan, its identity window, findings | `scan.run`, the probes and verdicts of the checks | `BridgeServer.send`, store |
| `tools/`, `session.py`, `issue.py` | the context of one conversation: its bound run, its Burp, its registered identities; the journal | `run.start`, `run.finish`, `http.send`, `replay_as`, `scan.run` | Burp, bridge, store |
| `crawl/` | queue, seen set, budgets | the crawl loop, one visit | browser, run ledger |
| `cli.py`, `web/`, `report.py`, `triage.py`, `delta.py` | what they present | commands, pages, reports | store |

Three things make it hard. **Threads and processes**: the extension has a read loop, a sentinel poller, a
drain and any number of Burp's proxy threads; hx has a serve thread beside every command, and several
commands share one store. **Failure**: either end of the socket may die between any two steps, the poller may
hang on a dead mount, a statement may fail, a command may be killed between a file and a row, a session may be
logged out by the target. **Time**: rates, staleness, deadlines, idle windows and a wall clock that may be set
back.

What makes each component correct is in the table of runs; the hazards behind the properties are in
`PROJECT.json`, each at the line where it bites.

## Modules

| Module | Models | State corresponds to |
| --- | --- | --- |
| `Limiter` | `Limiter.check`, the clock | the four fields; an observer that may start counting at any moment |
| `HaltSwitch` | the halted flag and its poller | the `State` record, with `clock - lastPollUs` for the stamp; the poll in its four steps (ask for the file, ask for its directory, read the clock, publish), between any two of which any time may pass |
| `OperatorHalt` | the commands that halt and resume, composed with `HaltSwitch` through the sentinel file | file, the newest row by timestamp and the last one in, where each command is |
| `SendPath` | `BridgeClient`'s permission state, `Sender`'s decision order, `Limits`, `ProxyGate` | `committed`, `configured`, `closed`, `limiter`; the frame the read loop works on; the request each proxy thread decides |
| `Bridge` | `BridgeServer` and the client's read loop over successive connections | frames in flight per connection; state, epoch, generation; pending requests, set events, replies; where each caller is |
| `Recording` | `Capture`, `Pending`, the proxy handlers, load and unload | queue, counters, `reported`, `reportLock`, `accepting`, `running`; what each thread holds between two steps |
| `Distress` | the monitor of the targets | the window, the first latencies and the streak of each host; the stop; beside them the whole history, which only the properties read |
| `Runs` | the statements of `run.py` and `records.py` on the run table | a sequence of run rows; an id is a place in it |
| `Ledger` | the processes that record into one store, over `Runs` | per thread, the statement it is at and the run it found; per source, what was handed over, swallowed and lost |
| `Engagement` | `config.yaml` and the scope versions; the process that reads them once | the file's meaning, whether it is in the words of `dumps()`, who wrote it; the versions |
| `Tools` | one `hx mcp` conversation, over `Engagement` and `Runs` | `ToolContext` (bound run, owner of the session, registered identities), what the extension holds, the call being served, its journal row |
| `ActiveChecks` | the checks' own loops over insertion points, their verdicts, `ProbeSender` | the locals of the open row's loop, the sender's counters |
| `Scan` | `scan.run` over `ActiveChecks`: rows, canaries, findings, retirement, closing | the loop's position, the `IdentityWindow`, the `check_run` rows, the findings on file, the run row |
| `ScanPromise` | what a scan promises to a reader of the store (abstract) | implemented by `Scan` under `Scan!Promise` |
| `Crawl` | `crawl.run.crawl` over its frontier | queue, seen, the charges, the counts by page state, the run row; beside them what each page really requested |
| `Subsequences` | what is left of a sequence when some of it is taken, in its order; for `Distress`, `Crawl` and `ActiveChecks` | |
| `MCSendPath`, `MCLedger`, `MCTools`, `MCScan`, `MCCrawl` | constants for TLC | |
| `TrafficProofs`, `HaltProofs`, `SendProofs`, `RecordingProofs`, `BridgeProofs`, `LedgerProofs`, `ToolsProofs`, `ScanProofs` | theorems | |

A step of a module is what one thread does under one lock, or between two accesses to state that another
thread or process can change. `Limiter.check` and `Distress.record` are synchronized and one step;
a poll is two calls to the file system, either of which may hang for any time, the clock, read outside the lock, and the publication under it; a configure is the guard's verdict and the commit;
`offer` is the enqueue, the eviction, the count and the look at `accepting`. A transaction of the store is one
step and either happens or raises; two statements outside a transaction are two steps, and any process may die
between them.

How modules fit. `OperatorHalt` extends `HaltSwitch` and adds the writers of the file it polls. `SendPath`
sees the switch, the monitor and the policy through their answers, and takes from `Limiter` only the budget
(a refusal for rate is a refusal at any time). `Bridge` sees a send through its outcomes, which are
`SendPath`'s: refused, or issued under the committed epoch. `Recording` shares with them only the socket.
`Runs` is used by `Ledger` and by `Tools`: the same statements, issued by different actors. `Scan` extends
`ActiveChecks` with the rest of the runner and sees the bridge as a call that answers, is refused, or is lost
on its way.

Ghost variables record what really happened where the code cannot: when the observer of the limiter began,
how long a sentinel that is there has been overlooked, which requests a page made whether or not hx was told, what each epoch was granted, which records were owed, whether a session
was really logged in when a probe left (`Scan!live`, `truth`), how many requests reached the network and are in
no row yet (`left`). They guard no action, except that `live` decides what a canary and a probe see, which is
the target's to decide.

## Runs

| Run | Question | Bounds, and why they suffice |
| --- | --- | --- |
| `limiter` | Is the published rate kept, and the retry-after exact? | A second of four ticks, three tokens a second, a burst of two, a horizon past two seconds: refills are partial, capped and rounded, and the budget runs out. |
| `halt` | Does a durable halt reach the extension, and lift itself only when it may? | Stale after one tick, a clock set back by one under any answer, one command at a time and as many as there are, rows stamped at either of two instants in any order; the file system may hang in either call, the directory be locked, vanish and return, the poller die or fail. One tick of staleness is the least that has a fresh answer and a stale one; the window is then three, and a sentinel overlooked for two of them is reached. |
| `sendpath` | Does anything leave without authority? | Three configurations (narrow, wide with a budget, unusable budget), two targets, two epochs, one proxy thread beside the read loop and the unloader: every pair of threads that share a lock or a snapshot. The proofs cover more threads. |
| `bridge` | Do both ends agree, does a halt get through, does every call return? | Two connections, two requests, one halt by hand: a late answer to the previous connection, a reset between any two steps of a call, and a halt in every phase of a connection. |
| `recording` | Is every record accounted for, and does nobody wait? | A queue of one and one request waiting, so the second of either evicts; two proxy threads, one drain (the extension starts one), two messages. The proofs cover any number of drains. |
| `distress` | Does a host in distress stop the run, and only such a host? | Five reports over two hosts, a window of four samples that may also expire, a baseline of two, a streak of two: the window turns over by count and by time, and it is the smallest that leaves no mix of failures unseen. Two instants in any order are a clock that jumps ahead and is set back; a latency is negative, clamped or above every threshold. |
| `ledger` | Do the books agree with the rows, does a record ever disappear, does a run end once? | A capture that reports two sources beside a crawl, two runs (so one kind can be opened twice, or two kinds), two records (a second one meets the first one's run at any stage), two mishaps (a fault while another is being handled), three instants: the second is still within the idle window of the first, the third past the idle window of both and past the reaper's of the first. A quarter of an hour does not pass between two statements: the clock moves when every thread waits. |
| `tools` | Is no Burp left behind, does a call name one run, was what is authorised recorded? | Four calls (open, use, end, open again), three runs of which another process may open some, one mishap (Burp dies, a step raises, the operator halts or the process is stopped), one edit and two versions, an identity from the environment and one that is minted, two generations. |
| `identity_kept` | Does a second scan of a conversation carry its credential? | Violated: finding 6. |
| `scan` | Is only what was looked for and is gone retired, are the books right, does the run describe itself truly? | Three surfaces at two origins, of which one honours the credential; thirteen scans of one or two checks that cover every shape of loop, every reason to skip, every refresh strategy and a run without a bridge; two attempts at a probe, a canary after two probes. Findings of any earlier scan are on file at the start. |
| `scan_partial` | Does a check whose finding could not be stored retire nothing? | Violated: finding 5. |
| `crawl` | Do the budgets hold, and does "complete" mean complete? | Four pages, two spellings of one, a cycle, a link to another origin and one that is no page; every budget up to four pages, six requests, two seconds; at most two requests of a page, each charged to it, to the next or never, one of them late at a time. |

Every property of a passing run has a mutant: a plausible bug in a definition that models code, under which
TLC finds the property violated. They stand beside the definition they would replace, named `Mutant...`.

`CHECK_DEADLOCK FALSE` is set where the system may stop: an extension that is unloaded, traffic that is
through, a bridge that has used up its connections, a scan, crawl or conversation that is over.

Modules state more properties than the runs check. The type invariants, `Limiter!PeakPerSecond` and `SumFits`,
`HaltSwitch!FrameHalfStands` are proved instead; `StaleIsNoAnswer`, `NewestRowAgrees`, `MadeWithinBudget`,
`BudgetMeansUnfinished`, `HaltBeforeScope`, `FlushIsTold`, `LimitsInForce`,
`SessionCanBeFreed`, `AuthorisedIsRecorded`, `EveryExchangeHasARun` and `DivergenceCanBeMended` do not hold and
belong to the findings.

### Fairness

Only what the runtime gives is assumed, and less where that suffices.

* `OperatorHalt`: time passes, and nothing else is fair: a poller that is dead, or that hangs in one of its calls
  for ever, is a behaviour, and `HaltLands` holds with it. `HaltLands` assumes in its own statement that the
  directory stops changing (`DirectoryStays`): a directory that vanishes and returns at every poll may show each
  of them its missing side. `ClearsItself` assumes, in its own statement too, that the poller polls
  (`PollerLives`): its calls return, it does not fail for ever, and it gets to publish some stamps before they are
  stale; a thread that is always suspended for five intervals between the clock and the lock never clears anything.
* `Bridge`: the extension's read loop handles frames that are there, the serve thread reads, a caller that
  has been woken goes on. No timeout is counted on, no peer dials or dies by obligation.
* `Recording`: a proxy thread in `offer` and the stopping thread go on, as no step of theirs waits on
  another thread. The drain and the sink are not fair: they may hang, and `NobodyWaitsForTheDrain` says
  that nobody waits for them. `LossesGetOut` assumes in its own statement a drain that
  runs and a bridge that takes frames.
* `Scan`: the scan itself goes on, because every call it makes returns (a send has a timeout, the refresh
  command 60 seconds, a transaction the store's busy timeout). Nothing is assumed of what those calls return:
  `ScanEnds` holds because points, attempts, surfaces and checks run out.

The other modules have safety properties only and state no fairness.

## Findings

Each is a line of the repository that what the code does contradicts. Where a run is not kept for it, the way
to see it is given: the property, put into the named `.cfg`, is violated within seconds.

1. **Overlapping halt and resume.** `halt.py:65-67` relies on a lock of one `OperatorHalt`
   object; each command and each web request builds its own. A halt between a resume's row and its unlink
   leaves a latest row that says halt and no file: hx refuses to send, the extension is not halted.
   (`OperatorHalt.cfg` with two `Commands` and `Overlap = TRUE`: `FileAndRowAgree`.)
2. **A configure's limits acknowledged and not enforced.** The guard of `Limits.java:142-186`
   looks before the commit; a proxy thread may arm from the previous snapshot in between.
   `LimitsInForceWhenLoopArmed`, checked and proved, shows that this is the only way. (`SendPath.cfg`:
   `LimitsInForce`.)
3. **A configure before the re-asserted halt.** `server.py:420-422` publishes
   "connected" before `_reassert_halt()` runs, against the comment at 423-427. The halt follows, and until
   then the extension's own sentinel poll is what holds. (`Bridge.cfg`: `HaltBeforeScope`.)
4. **The flush at unload is told to nobody.** `HxExtension.java:624-636` closes the
   bridge before it stops the capture. With the two in the other order `FlushIsTold` holds in the model.
   (`Recording.cfg`: `FlushIsTold`.)
5. **A finding seen again and retired** (`scan_partial`). `scan.py:671` takes an accepted verdict for grounds of
   retirement before its findings are written; when writing one of a passive check fails, the row is closed as an
   error and the finding is retired all the same, against `scan.py:1898-1903`. For checks that probe, a finding
   is no ground for anything, and `KeepsItsPromise` is checked and proved.
6. **A credential acknowledged and not taken** (`identity_kept`). `identity.py:60` is safe "only because no
   registry outlives one run"; `hx mcp` holds one session for a whole conversation, and its second scan registers
   its new credential at a generation the extension already holds.
7. **Clean without a comparison.** `sql_behaviour.py:86-89` says that bodies too large to diff must not read as no
   difference, and the next line takes them for that. (`Scan.cfg` with `LargeBodies = TRUE`:
   `CleanMeansExamined`.)
8. **A session nothing frees.** `live.py:153-161` names the run whose finish frees the session; once that run was
   closed by the scan that joined it and another kind is bound, no `run.finish` reaches it.
   (`Tools.cfg`: `SessionCanBeFreed`.)
9. **The hash of one configuration, the boundary of another.** `session.py:906` reads the newest recorded version,
   959 the configuration the process loaded at its start; an amend in between separates them, against 672-679.
   (`Tools.cfg`: `AuthorisedIsRecorded`. `RecordedFirst` says what does hold.)
10. **An exchange under no run.** `tools/impl/http.py:296` sends with the session, not with a run; with none or
    several running the exchange is stored under none, against `tools/impl/run.py:158`. (`Tools.cfg`:
    `EveryExchangeHasARun`.)
11. **A divergence that cannot be mended.** `engagement.py:246-251` compares texts and sends the operator to
    `hx amend`, which compares parsed meanings and finds nothing to amend. (`Tools.cfg`:
    `DivergenceCanBeMended`.)
12. **A dead run called completed.** `run.py:176` ends a silent run of its kind as completed within the reaper's
    window, against `run.py:6-13` (`Ledger`: `Crash`, then `CloseIdle`).
13. **Burp left behind by `hx scan` and `hx crawl`.** `cli.py:745` and 953 open a session without the SIGTERM
    handler that `cli.py:286` speaks of. Read, not modelled: `Tools` is `hx mcp`, which has it.
14. **A stale answer under a fresh stamp.** `HaltSwitch.java:58-60`: "A stale answer to 'is the operator holding the
    stop button' is not an answer". The clock is read (351) when the second of a poll's two file system calls
    (270, 328) has returned; one that hung publishes a "no file" of any age, good for five more intervals.
    `ExposureIsBounded`, checked and proved, says what holds: a sentinel is overlooked for two windows at most,
    since only one poll can have asked before it was there. (`OperatorHalt.cfg`: `StaleIsNoAnswer`.)
15. **A resume that sorts behind its halt.** `halt.py:85-86` orders the rows as inserted ("the later INSERT is the
    later event"); rows are stamped with the wall clock (57-58) and read newest first (80-84). A clock set back
    between a halt and its resume leaves no file, an extension that sends, and an hx that reads "halted" and
    refuses, until a resume after the clock has caught up. `FileAndRowAgree` and `LiftIsRecorded`, checked and
    proved for any clock, say that the *last row in* is right, and that only a timestamp ahead of it can hide it.
    (`OperatorHalt.cfg`: `NewestRowAgrees`.)
16. **Requests the budget never sees.** `crawl/run.py:104-107` charges as it goes, so that a page of a thousand
    requests is a thousand "against the target". Charged are the request ids read while a page is judged
    (`page.py:195`, 289): the hops of a redirect share one, what is reported later is discarded (342) or charged to
    the next page, and of a navigation that fails nothing is read (295-302). `BudgetHolds` is therefore about what
    hx charges. (`Crawl.cfg`: `MadeWithinBudget`.)
17. **Truncated though complete.** `frontier.py:112-115` and `tests/test_crawl_frontier.py:171`: a crawl that visited
    everything "must not report a budget as its reason for stopping". `next()` looks at the budgets before the
    queue: a site of exactly `max_pages` pages is reported as truncated. (`Crawl.cfg`: `BudgetMeansUnfinished`.)

Two things the runs of `Distress` show are narrower than its comments. `FailingIsSeen` needs
`windowRequests >= baselineRequests * maxConsecutiveErrors`. The wired values (50, 10, 5) meet it with equality;
the constructor, which refuses values that disable one rule, does not ask it of the three together: with six
allowed errors a host that refuses five requests and answers the sixth with a 503, for ever, trips nothing. And a
sample stamped while the clock ran ahead may outlast the "last `windowRequests` requests": the count is of what is
kept, and what stood behind it may have expired. `SlowIsSeen` and `BlameIsEarned` allow for those samples (`Ahead`).

## Proofs

| Theorem | Says | Argument |
| --- | --- | --- |
| `TrafficProofs!TypeCorrect`, `PeakHolds`, `SustainedHolds`, `SetBackHolds`, `SumHolds` | the limiter's properties | The invariant is a ledger: tokens held and tokens spent since the observer began are at most a bucketful and the refill of the ground `lastRefillUs` has covered, and that mark is never behind the observer unless the clock is (`IInv`). The window properties follow by arithmetic from `FullRefillBound`. |
| `TrafficProofs!RetryHolds` | the retry-after is exact | After a refusal the bucket is what it was refilled to, until the next check; `RetryUs` is the ceiling of the shortfall. |
| `TrafficProofs!FailingStops`, `SlowStops`, `BlameStands`, `DistressBounded` | a host that only fails, or has become slow, stops the run; no other host is blamed; what is kept is bounded | The properties judge by the whole history, the code by what it kept. `DistressInv` says how they meet: the window is an increasing choice of the unexpired reports, with every recent one, and with any one every later one (`KeptFrom`); the streak is the errors the history ends with (`Streak`); the baseline is the first answers' (`Learned`). So the counts of the rules are counts over the history (`HeldCount`, `P50Is`), and no streak of the limit's length is behind a running host (`NoLongStreak`). `FailingStops` then cuts a window into blocks of `MaxErrors`, each with an answer (`Blocks`). |
| `TrafficProofs!BudgetStands`, `ClosedStands` | a crawl keeps the budgets of pages, requests and time as hx charges them, and visits no page twice; a complete one missed nothing it knew of | Every known page is in one place, waiting, being visited or visited (`PagesInv`), and nothing wanted is unknown (`ClosedInv`): what an offer adds is each new page at the first link to it (`OfferedFacts`). A page is begun only while none of the three budgets is spent, and what was charged for the pages is the sum the frontier has noted (`SpendingInv`, `ChargesAdd`). |
| `TrafficProofs!CrawlNears` | a crawl takes at most `2 * pages + 2` steps besides the clock's | `StepsLeft` counts two for each page the budget still allows and the rest of the page at hand: a page is taken only while the budget allows one, whatever the pages link to. |
| `HaltProofs!SwitchTypes`, `ExposureHolds`, `FrameHalfHolds` | a sentinel is overlooked for two windows at most; frames and polls do not overwrite each other | What a switch has overlooked and what the standing answer is still good for are together within one window, or two if that answer, or the poll under way, was given before the file was there. Such a poll is the only one: the next asks anew and finds it. No bound on either call is used. The commands move only the file, so the invariant of the switch is one of the system. |
| `HaltProofs!AgreementHolds`, `LiftHolds` | file and record agree, for commands one at a time and any readings of the clock | Under `~Overlap` at most one command is under way; what the file and the last row may be then depends on where it stands, a crash included, and the newest row is never stamped before the last. |
| `SendProofs!SendTypes`, `GrantHolds`, `BudgetHolds`, `ClosedHolds`, `HoldHolds`, `LimitsHold` | the safety of the send path | Every snapshot a thread works from is one that was committed whole; the counter of the limiter is the number spent; a hold seen at the start stays in the frame's record until it lifts; what is being armed is what is committed, or nothing is. |
| `RecordingProofs!ToldHolds` | no loss is told twice | A pass is made under `reportLock`, what it has read lies between what was acknowledged and what was counted, and only an acknowledged report moves the mark. |
| `RecordingProofs!StoppedHolds` | a stopped capture holds nothing | A record that gets in after the stop has a thread behind it that has still to look at `accepting`. |
| `RecordingProofs!AccountedHolds` | every record is queued, in somebody's hands, delivered or counted lost, once | What threads and drains hold are sets of pairs (who, which record), so a step moves one pair; the drain's hand and the queue are disjoint places of the same records (`AccountInv`). |
| `BridgeProofs!TripHolds` | a trip is known before its reply | The announcement and the reply are put on one connection in that order, the serve thread takes them in order, and a reply waits for whoever asked on the connection it came by: `seen` follows from the place of the reply, in flight, taken, or handed over. |
| `BridgeProofs!EpochHolds`, `AgreeHolds` | no epoch without a peer; both sides agree when nothing is on its way | Every epoch in a frame or a hand was given out by the peer of that connection (`EpochInv`). With one configurer at most one configure is under way, and the two sides are apart by exactly what is under way (`Level`, `OneApart`): the frame, the answer, or the caller that has it. |
| `BridgeProofs!ReachHolds` | a halt reaches the peer, or the next one | With one operator the last command written to a connection is the one that stands, or its writer has still to write it (`ReachInv`). |
| `BridgeProofs!WaitsHeld` | no wake-up is lost | A request from its registration to its end is in `pending` or `woken` (`Owned`); a number is its caller's alone, even while the caller is giving it up (`Numbered`), so nobody takes another's event away; a reset wakes all that are pending, so who still waits waits on the connection that is current (`Linked`). `Caused`: without a reply only a reset wakes. |
| `LedgerProofs!BooksHold`, `EndingsStand` | the counters are the rows; a run ends once | The run a thread found is one of the table's wherever the thread stands (`Fit`), since no statement removes a run; so a count meets its row's run although the run was closed meanwhile. Each statement touches only rows that run (`EndRunsKeeps`, `OpenRunAdds`, `CountersCount`). |
| `LedgerProofs!FloorStands` | every record handed over is filed, dropped, in hand, swallowed or lost | A thread that holds a record is past the callback and before the row or the drop, and each of these moves exactly one record; the rows and drops of all runs of a kind are counted as a set of places, to which a statement on one run adds at most one. |
| `ToolsProofs!OneRunPerCall` | a call names one run | Once a call has filed anything its run is settled, by the binding or by the set of open runs it has read, and neither changes within a call. |
| `ToolsProofs!SessionHeld` | no Burp without an owner, no identity taken for registered that is not held | A living Burp is owned or being brought up (`HeldByUs`); what is registered has the generation it was registered at, or a later one, and every generation and credential is a count (`Credentials`), for which the ids of runs have to be typed (`RunsTyped`). |
| `ToolsProofs!RecordComesFirst` | the record precedes file and authorisation | Versions are only added; a file of hx's holds a recorded one, and the version a session looked up is one of those recorded (`RecordKept`, `Authorised`). |
| `ScanProofs!SpentHolds` | what a scan accounts for covers what it sent | What has left and is in no row is at most what the open row's sender counted, and nothing where no row is open. |
| `ScanProofs!ProvenHolds` | `proven` is earned | Once a probe left logged out, the session is dead or a canary after the first has failed; only a refresh revives it, and a refresh follows such a failure, or precedes every probe. So a closing canary that passes with no failure before it proves every probe. |
| `ScanProofs!PromiseHolds` | `Scan` implements `ScanPromise`, where only findings of checks that probe may fail to be stored | The invariant is the walk: every pair behind the loop has its verdict, the one it is at is pending, the others have none (`RowsInv`); what is offered for retirement belongs to a row that closed, or is closing, as clean or finding (`OfferInv`); nothing is retired before the last verdict (`BookInv`). Then each step is one of the promise's, or is not seen in the records. |
| `ScanProofs!TruncationHolds` | the run says `truncated` exactly when something is missing | What was refused is in the tallies or in the open row's sender; what was skipped has a row. |
| `ScanProofs!CleanHolds` | `clean` means an answer was read at every point | While a loop has neither a finding nor a gap, what it has compared and what it has still to do are together what the check wants (`Covers`), for each of the four shapes of loop. |
| `ScanProofs!RetiredHolds` | what is retired was looked for and was gone | Four things beside the two above: a run that is proven met the application logged in at every probe of its origin, so a loop there is not dark (`ViewInv`, over `ProvenInv`); a clean loop that is not dark offers only what was absent (`OffersInv`, over `CleanInv`); a check of captured traffic that found something has written it, or is about to (`SeenInv`); and a finding has the key its own check gives it (`KnownInv`), so that what was written again is recognised. |
| `ScanProofs!ScanNears` | every step brings a scan nearer to its end | A lexicographic rank of seven naturals (`Rank`): the phase, the surfaces left, the checks left, the stage of its canary or its row, the requests its loop may still make or the findings it has still to write, the tries of the request at hand, the life of the session. Each step lowers one entry and leaves those before it: a retry the tries, a canary's refresh the stage. `FarInv` is what makes them naturals. |

All are for every value of the constants, from the assumptions each module states on its own, which TLC
evaluates in every run. Some hold under a hypothesis, which stands in the theorem and is met by the run that
checks the property; without it TLC finds a counterexample, so it says what the code relies on:

* `~Overlap` (`AgreementHolds`, `LiftHolds`): commands one at a time; finding 1.
* `OneConfigurer` (`AgreeHolds`): with two, the commits can come in one order and the answers in the other. A
  session configures from one thread.
* `OneOperator` (`ReachHolds`): with two, a halt is overtaken by the frame of an earlier resume. `BridgeServer`
  serialises the writes of a frame, not the decision and its frame.
* `FailingWrites \subseteq {"probes"}` (`PromiseHolds`, `RetiredHolds`): finding 5.
* `~LargeBodies` (`CleanHolds`, `RetiredHolds`): finding 7.

`FailingIsSeen` carries its hypothesis in itself (`Window >= Baseline * MaxErrors`).

`Subsequences`, `Distress` and `Crawl` count and select with `Cardinality` and one ordering of indices (`Nth`)
where a fold would do for TLC: induction over a sequence is beyond the prover, and what is picked from one is
reasoned about through the least index with a property (`LeastNat`, from `WFMin`; `NthIs`, `PickedSeq`).

Model-checked only: the liveness properties `ClearsItself`, `EveryCallReturns`, `NobodyWaitsForTheDrain`,
`LossesGetOut`, `HaltLands` and `ScanEnds`, since fairness and `ENABLED` are beyond the prover. Two of them have
their safety core proved. `ScanNears` is the variant of `ScanEnds`: a scan can take no infinite sequence of steps,
and that it is never stuck before its end is left to TLC. `WaitsHeld` is the part of `EveryCallReturns` that no
fairness repairs, a caller asleep whom neither reply nor reset would wake. From either to the liveness property
takes the fairness of the specification and is not checked by the prover.

## Not modelled

* Bytes: frames, JSON, canonical URLs, redaction, status lines, and the patterns a check recognises. Modules take
  a frame as a record, a target as a value the policy allows or not, a record of the proxy as its source, an
  answer as what the loops of the checks tell apart.
* The exact SQL and the content-addressed files of the store; what a transaction changes is modelled.
* The refusals of a configure that leave the scope as it is (`BridgeClient.java:552-563`, `server.py:693-705`): for
  another engagement, or without a deadline. hx's server puts a deadline on every request (636), and its own
  engagement, which the peer's hello had to name (415), on every configure: between the two ends they do not occur.
* `BridgeServer.stop()`, `register_identity()` on the wire (`Tools` has its rule of generations);
  `send(enforce_locally=False)`.
* Rate and burst in `Limits` (one limit, the budget, stands for the three). The stop of `Distress` on an
  overflow of its window arithmetic, which a clock that counts from the epoch cannot cause.
* Of `session.py` the search for a jar, ports and the loopback check; of the crawler the browser and its
  protocol (external: it finds what it finds).
* Tools that only read, and those that write one row (triage, findings); the report and the web pages but for the
  halt button: they present what the store holds.

`PROJECT.json` lists each component with its status and reason.

## Plan

1. Done: the extension's authority and recording (`Limiter`, `HaltSwitch`, `OperatorHalt`, `SendPath`, `Bridge`,
   `Recording`, `Distress`); hx's books and its long processes (`Runs`, `Ledger`, `Engagement`, `Tools`, `Scan`,
   `Crawl`); the refinement of `Scan`; their theorems.
2. Done: every safety property that a passing run checks has its theorem, and the ends of a scan, a crawl and a
   wait have the part of it that is safety.
3. An abstract specification of evidence (what is on record is what was issued, or is counted as missing)
   which `Recording` and `Ledger` together implement.
4. The pure parts of the extension (`Policy`'s decision order and canonicalisation, the status scan, the
   redactor's ranges) over bounded inputs against reference definitions.

## Running

Inside this directory: `tlc -config Scan.cfg MCScan`, and so on for the pairs in `PROJECT.json`;
`tlapm ScanProofs.tla` for the proofs. With two workers the longest runs, `ledger` and `tools`, take a minute
and a half; the rest about a minute or less each.
