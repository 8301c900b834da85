------------------------------ MODULE Distress ------------------------------
(***************************************************************************)
(* The monitor that stops the run when a target is in distress             *)
(* (extension/src/hx/policy/Distress.java).                                *)
(*                                                                         *)
(* Every issued request is reported with its outcome; per host, a rolling  *)
(* window of reports is judged by three rules, and the first that fires    *)
(* stops the whole run for good.  `record` is synchronized: one call is    *)
(* one step.                                                               *)
(*                                                                         *)
(* The clock is the wall clock, which an adjustment may move either way,   *)
(* so a report may carry any reading.  A reading is microseconds since the *)
(* epoch and the window at most a day, so the subtraction that evict       *)
(* guards against overflow cannot overflow, and that trip is left out.     *)
(***************************************************************************)
EXTENDS Integers, Sequences, FiniteSets, Subsequences

CONSTANTS
    Hosts,
    NoHost,        \* no host is to blame: the run is not stopped
    Window,        \* windowRequests
    WindowTicks,   \* windowMs, in the units of Readings
    Baseline,      \* baselineRequests
    MaxErrors,     \* maxConsecutiveErrors
    RateNum,       \* max5xxRate is RateNum / RateDen
    RateDen,
    Multiple,      \* latencyMultiple
    Floor,         \* latencyFloorMs
    Latencies,     \* bound: the latencies a request may take
    Readings,      \* bound: the instants the clock may show
    MaxRecords     \* bound: the requests the run's budget lets out

ASSUME DistressAssumption ==
    /\ NoHost \notin Hosts
    /\ Window \in Nat \ {0}
    /\ WindowTicks \in Nat \ {0}
    /\ Baseline \in 1..Window
    /\ MaxErrors \in Nat \ {0}
    /\ RateNum \in Nat /\ RateDen \in Nat /\ RateNum < RateDen
    /\ Multiple \in Nat \ {0}
    /\ Floor \in Nat
    /\ Latencies \subseteq Nat
    /\ Readings \subseteq Nat
    /\ MaxRecords \in Nat

\* What a caller may report: it takes a latency as the difference of two
\* readings, and the clock may have been set back between them.  How long a
\* connection took to fail is kept and never used: one value stands for all.
Measured(outcome) == IF outcome = "error" THEN {0} ELSE Latencies \cup {-1}

VARIABLES
    hosts,   \* what is kept of each host
    stop,    \* the Stop: which rule fired, and for which host
    log      \* every report taken, per host (history: not in the code)

distressVars == <<hosts, stop, log>>

----------------------------------------------------------------------------
Raised(x, least) == IF x >= least THEN x ELSE least

Sample == [at: Readings, outcome: {"ok", "5xx", "error"}, ms: Nat]
Answered(s) == s.outcome # "error"

\* A host nothing is known of.  The baseline is the lower median of the
\* first latencies, once there are enough of them.
NewHost == [window |-> <<>>, firstLatencies |-> <<>>, consecutiveErrors |-> 0]
BaselineReady(h) == Len(h.firstLatencies) = Baseline

\* Nearest rank, the lower of two middles.
P50(xs) ==
    LET AtMost(x) == Cardinality({i \in DOMAIN xs : xs[i] =< x})
        Below(x)  == Cardinality({i \in DOMAIN xs : xs[i] < x})
        middle    == (Cardinality(DOMAIN xs) - 1) \div 2
    IN  CHOOSE x \in {xs[i] : i \in DOMAIN xs} : Below(x) =< middle /\ middle < AtMost(x)

\* At most Window samples, and of those the ones not older than WindowTicks,
\* wherever in the window they stand.  The mutant: a scan from
\* the front that ends at the first sample young enough.
Young(window, at) ==
    {i \in DOMAIN window : i > Len(window) - Window /\ window[i].at >= at - WindowTicks}
MutantEvictFromFront(window, at) ==
    Picked(window, {i \in DOMAIN window : \E j \in Young(window, at) : j =< i})
Evict(window, at) == Picked(window, Young(window, at))

\* What one report makes of what is kept of its host.  The mutant: an answer
\* does not break the streak.
MutantNoted(h, s) ==
    [window |-> Evict(Append(h.window, s), s.at),
     firstLatencies |->
        IF Answered(s) /\ ~BaselineReady(h) THEN Append(h.firstLatencies, s.ms)
                                            ELSE h.firstLatencies,
     consecutiveErrors |-> h.consecutiveErrors + (IF Answered(s) THEN 0 ELSE 1)]
Noted(h, s) ==
    [window |-> Evict(Append(h.window, s), s.at),
     firstLatencies |->
        IF Answered(s) /\ ~BaselineReady(h) THEN Append(h.firstLatencies, s.ms)
                                            ELSE h.firstLatencies,
     consecutiveErrors |-> IF Answered(s) THEN 0 ELSE h.consecutiveErrors + 1]

\* Rule 1: the transport is gone.
ErrorsTrip(h, s) == ~Answered(s) /\ h.consecutiveErrors >= MaxErrors

\* Rule 2: too many of the answers in the window are 5xx.  The mutant waits
\* for a full window of answers.
MutantRateTrips(h) ==
    LET answered == Cardinality({i \in DOMAIN h.window : Answered(h.window[i])})
        fivexx   == Cardinality({i \in DOMAIN h.window : h.window[i].outcome = "5xx"})
    IN  answered >= Window /\ fivexx * RateDen > RateNum * answered
RateTrips(h) ==
    LET answered == Cardinality({i \in DOMAIN h.window : Answered(h.window[i])})
        fivexx   == Cardinality({i \in DOMAIN h.window : h.window[i].outcome = "5xx"})
    IN  answered >= Baseline /\ fivexx * RateDen > RateNum * answered

\* Rule 3: the answers in the window are slow against the baseline.
LatencyTrips(h) ==
    LET answered == {i \in DOMAIN h.window : Answered(h.window[i])}
        p50      == P50([i \in answered |-> h.window[i].ms])
    IN  /\ answered # {}
        /\ p50 > Raised(P50(h.firstLatencies), 1) * Multiple
        /\ p50 >= Floor

\* The rules in their order.  The baseline must have been there before the
\* report: the reply that completes it is not measured against it.
Reason(before, after, s) ==
    IF ErrorsTrip(after, s) THEN "errors"
    ELSE IF RateTrips(after) THEN "rate"
    ELSE IF BaselineReady(before) /\ LatencyTrips(after) THEN "latency"
    ELSE "healthy"

Running == [reason |-> "healthy", host |-> NoHost]

----------------------------------------------------------------------------
DistressInit ==
    /\ hosts = [h \in Hosts |-> NewHost]
    /\ stop = Running
    /\ log = [h \in Hosts |-> <<>>]

Recorded == {r \in Hosts \X (1..MaxRecords) : r[2] =< Len(log[r[1]])}

\* Sender.issue reports a request: its answer, or the connection's failure.
\* A negative latency counts as zero.
Record(host, at, outcome, ms) ==
    LET s     == [at |-> at, outcome |-> outcome, ms |-> Raised(ms, 0)]
        noted == Noted(hosts[host], s)
        why   == Reason(hosts[host], noted, s)
    IN  /\ stop = Running
        /\ Cardinality(Recorded) < MaxRecords
        /\ hosts' = [hosts EXCEPT ![host] = noted]
        /\ stop' = IF why = "healthy" THEN stop ELSE [reason |-> why, host |-> host]
        /\ log' = [log EXCEPT ![host] = Append(@, s)]

\* A report that comes after the stop, from a request then in flight.
RecordAfterStop == stop # Running /\ UNCHANGED distressVars

DistressNext ==
    \/ \E host \in Hosts, at \in Readings, outcome \in {"ok", "5xx", "error"} :
          \E ms \in Measured(outcome) : Record(host, at, outcome, ms)
    \/ RecordAfterStop

DistressSpec == DistressInit /\ [][DistressNext]_distressVars

----------------------------------------------------------------------------
\* What the properties judge the monitor by, from the history alone: a
\* host's reports that no later report has seen to be older than WindowTicks,
\* and of those the ones among its last Window reports.
Unexpired(seq) ==
    {i \in DOMAIN seq : \A j \in i..Len(seq) : seq[j].at - seq[i].at =< WindowTicks}
Recent(seq) == {i \in Unexpired(seq) : i > Len(seq) - Window}

\* Older than that, and unexpired because the clock ran ahead when it was
\* stamped.  The window may still hold it: the count it is limited to is of
\* the samples kept, and later ones may have expired.
Ahead(seq) ==
    {i \in Unexpired(seq) \ Recent(seq) :
        \E j \in (i + 1)..Len(seq) : seq[j].at < seq[i].at}

Answers(seq, indices) == {i \in indices : Answered(seq[i])}

\* The first answers of a host, those its baseline is taken from.
First(seq) ==
    {i \in Answers(seq, DOMAIN seq) : Cardinality(Answers(seq, 1..i)) =< Baseline}
BaselineBefore(seq) == Cardinality(Answers(seq, 1..(Len(seq) - 1))) >= Baseline

SlowAgainst(ms, reference) == ms >= Floor /\ ms > Multiple * Raised(reference, 1)

\* What is kept has its type and its bounds: a window of at most Window
\* samples, a baseline of at most Baseline latencies, a streak that stops the
\* run no later than when it reaches MaxErrors.
DistressTypeOK ==
    /\ stop = Running \/ stop \in [reason: {"errors", "rate", "latency"}, host: Hosts]
    /\ DOMAIN hosts = Hosts /\ log \in [Hosts -> Seq(Sample)]
    /\ \A h \in Hosts :
          /\ hosts[h].window \in Seq(Sample) /\ Len(hosts[h].window) =< Window
          /\ hosts[h].firstLatencies \in Seq(Nat)
          /\ Len(hosts[h].firstLatencies) =< Baseline
          /\ hosts[h].consecutiveErrors \in 0..MaxErrors

\* A host that only fails stops the run, however its failures are mixed:
\* refused connections break no 5xx rate and a 503 breaks the streak, yet no
\* host stays failing through a whole window.  It takes a window with room
\* for enough answers between streaks that are each one short; 50, 10 and 5,
\* which HxExtension gives, leave exactly that, and the constructor does not
\* ask for it (extension/src/hx/policy/Distress.java:44).
FailingIsSeen ==
    Window >= Baseline * MaxErrors /\ stop = Running =>
        \A h \in Hosts :
            Cardinality(Recent(log[h])) = Window =>
                \E i \in Recent(log[h]) : log[h][i].outcome = "ok"

\* A host that has become slow stops the run: when most of its recent answers
\* are too slow even against the slowest of its first ones.  Nothing old hides
\* it but what the clock stamped ahead of its time
\* (extension/src/hx/policy/Distress.java:366).
SlowIsSeen ==
    stop = Running =>
        \A h \in Hosts :
            LET seq    == log[h]
                recent == Answers(seq, Recent(seq))
                slow   == {i \in recent : \A k \in First(seq) : SlowAgainst(seq[i].ms, seq[k].ms)}
            IN  BaselineBefore(seq) =>
                    2 * Cardinality(slow) =< Cardinality(recent \cup Answers(seq, Ahead(seq)))

\* A run is not stopped without cause, and the host named is the one that
\* gave it: its own last MaxErrors reports were errors, or more of its own
\* recent answers than allowed were 5xx, or it had a baseline and gave a
\* recent answer slow against some of its first ones.
BlameIsEarned ==
    LET seq    == log[stop.host]
        n      == Len(seq)
        recent == Answers(seq, Recent(seq))
        judged == recent \cup Answers(seq, Ahead(seq))
    IN  /\ stop.reason = "errors" =>
              n >= MaxErrors /\ Answers(seq, (n - MaxErrors + 1)..n) = {}
        /\ stop.reason = "rate" =>
              /\ Cardinality(judged) >= Baseline
              /\ RateDen * Cardinality({i \in judged : seq[i].outcome = "5xx"})
                    > RateNum * Cardinality(recent)
        /\ stop.reason = "latency" =>
              /\ BaselineBefore(seq)
              /\ \E i \in judged, k \in First(seq) : SlowAgainst(seq[i].ms, seq[k].ms)

=============================================================================
