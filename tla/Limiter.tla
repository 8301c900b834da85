------------------------------ MODULE Limiter ------------------------------
(***************************************************************************)
(* The token bucket in front of every issued request                       *)
(* (extension/src/hx/policy/Limiter.java).                                 *)
(*                                                                         *)
(* Time is the injected clock, in ticks.  OneRequest is both the number of *)
(* ticks in a second and the number of micro-tokens a request costs: the   *)
(* code uses 10^6 for each, so that a second refills RatePerSecond tokens. *)
(* `check` is synchronized, so one call is one step whichever thread makes *)
(* it.  The clock is wall-clock time (Instant.now), which an adjustment    *)
(* may set back: ClockSetBack.                                             *)
(***************************************************************************)
EXTENDS Integers

CONSTANTS
    OneRequest,     \* ticks per second, and micro-tokens per request
    RatePerSecond,  \* limit.rate_rps
    Burst,          \* limit.rate_burst
    MaxRequests,    \* limit.max_requests
    Horizon         \* bound: the last instant the clock can show

ASSUME LimiterAssumption ==
    /\ OneRequest \in Nat \ {0}
    /\ RatePerSecond \in Nat \ {0}
    /\ Burst \in Nat
    /\ MaxRequests \in Nat
    /\ Horizon \in Nat

VARIABLES
    now,            \* what clock.nowUs() answers
    tokensMicro,    \* tokens in the bucket, as of lastRefillUs
    lastRefillUs,
    issued,
    answer,         \* the latest Decision, and when it was given
    \* An observer that may start counting at any moment (not in the code):
    winStart,       \* when it started
    winRefill,      \* lastRefillUs at that moment
    winIssued,      \* requests allowed since
    winSetBack      \* whether the clock has been set back since

bucketVars == <<tokensMicro, lastRefillUs, issued, answer>>
winVars    == <<winStart, winRefill, winIssued, winSetBack>>
vars       == <<now, bucketVars, winVars>>

----------------------------------------------------------------------------
Smaller(a, b) == IF a =< b THEN a ELSE b
Larger(a, b)  == IF a =< b THEN b ELSE a

Capacity   == Larger(OneRequest, Burst * OneRequest)
FullRefill == Capacity \div RatePerSecond + 1

\* The time the refill counts, and the sum it computes before capping it.
Elapsed  == Smaller(Larger(now - lastRefillUs, 0), FullRefill)
Sum      == tokensMicro + Elapsed * RatePerSecond
Refilled == Smaller(Sum, Capacity)

MutantRetryUs(tokens) == (OneRequest - tokens) \div RatePerSecond
RetryUs(tokens) == (OneRequest - tokens + RatePerSecond - 1) \div RatePerSecond

Decision == {"none", "allow", "rate_limited", "budget_exhausted"}

Init ==
    /\ now \in 0..Horizon
    /\ tokensMicro = Capacity
    /\ lastRefillUs = now
    /\ issued = 0
    /\ answer = [kind |-> "none", at |-> now, retry |-> 0]
    /\ winStart = now
    /\ winRefill = now
    /\ winIssued = 0
    /\ winSetBack = FALSE

\* Mutants: a refusal that refills without moving the mark, and a mark that
\* follows the clock back.
MutantRefillUnmarked(spent) ==
    /\ tokensMicro' = Refilled - spent
    /\ lastRefillUs' = IF spent = 0 THEN lastRefillUs ELSE Larger(now, lastRefillUs)
MutantRefillBack(spent) ==
    /\ tokensMicro' = Refilled - spent
    /\ lastRefillUs' = now

\* The refill every check performs first, whatever it then answers.  A clock
\* behind lastRefillUs refills nothing and leaves lastRefillUs ahead of it.
Refill(spent) ==
    /\ tokensMicro' = Refilled - spent
    /\ lastRefillUs' = Larger(now, lastRefillUs)

Answer(kind, retry) == answer' = [kind |-> kind, at |-> now, retry |-> retry]

RateLimited ==
    /\ Refilled < OneRequest
    /\ Refill(0)
    /\ Answer("rate_limited", RetryUs(Refilled))
    /\ UNCHANGED <<now, issued, winVars>>

BudgetExhausted ==
    /\ Refilled >= OneRequest
    /\ issued >= MaxRequests
    /\ Refill(0)
    /\ Answer("budget_exhausted", 0)
    /\ UNCHANGED <<now, issued, winVars>>

Allow ==
    /\ Refilled >= OneRequest
    /\ issued < MaxRequests
    /\ Refill(OneRequest)
    /\ issued' = issued + 1
    /\ Answer("allow", 0)
    /\ winIssued' = winIssued + 1
    /\ UNCHANGED <<now, winStart, winRefill, winSetBack>>

Check == RateLimited \/ BudgetExhausted \/ Allow

----------------------------------------------------------------------------
ClockAdvance ==
    /\ now' \in now + 1 .. Horizon
    /\ UNCHANGED <<bucketVars, winVars>>

ClockSetBack ==
    /\ now' \in 0 .. now - 1
    /\ winSetBack' = TRUE
    /\ UNCHANGED <<bucketVars, winStart, winRefill, winIssued>>

Observe ==
    /\ winStart' = now
    /\ winRefill' = lastRefillUs
    /\ winIssued' = 0
    /\ winSetBack' = (now < lastRefillUs)
    /\ UNCHANGED <<now, bucketVars>>

Next == Check \/ ClockAdvance \/ ClockSetBack \/ Observe

Spec == Init /\ [][Next]_vars

----------------------------------------------------------------------------
\* Types: the bucket never holds more than its capacity nor less than nothing.
TypeOK ==
    /\ now \in 0..Horizon
    /\ tokensMicro \in 0..Capacity
    /\ lastRefillUs \in 0..Horizon
    /\ issued \in 0..MaxRequests
    /\ answer \in [kind : Decision, at : 0..Horizon, retry : Nat]
    /\ winStart \in 0..Horizon
    /\ winRefill \in 0..Horizon
    /\ winIssued \in Nat
    /\ winSetBack \in BOOLEAN

\* The published guarantee (Limiter.java:35-42): in any one second the target
\* sees at most burst + ratePerSecond requests.  The second is [t, t + 1s],
\* for every t at which the observer may have started.
PeakPerSecond ==
    ~winSetBack /\ now - winStart =< OneRequest
        => winIssued =< Larger(Burst, 1) + RatePerSecond

\* The sustained rate: over a window of any length, what is issued is one
\* bucketful plus what the elapsed time refills.
SustainedRate ==
    ~winSetBack =>
        winIssued * OneRequest =<
            Capacity + RatePerSecond * (Larger(lastRefillUs, winStart) - winStart)

\* A clock set back fails closed (Limiter.java:211-217): whatever the clock
\* does, tokens spent and tokens held never exceed one bucketful plus the
\* refill of the ground lastRefillUs has actually covered, so no instant is
\* ever credited twice.
SetBackNeverMints ==
    winIssued * OneRequest + tokensMicro =<
        Capacity + RatePerSecond * (lastRefillUs - winRefill)

\* `elapsed * ratePerSecond` cannot overflow a long (Limiter.java:207-209):
\* the sum computed before the cap stays within two bucketfuls and one
\* second's rate, 2 * 10^10 + 10^4 at the code's ceilings.
SumFits == Sum =< 2 * Capacity + RatePerSecond

\* The retry-after of a refusal is exact (Limiter.java:227-231): as long as no
\* token is spent meanwhile, a check made retry ticks later is not refused for
\* rate, and a check made earlier is.  Stated for a refusal given while the
\* clock was not behind the last refill: behind it, the wait is longer.
RetryIsExact ==
    [][ answer.kind = "rate_limited" /\ answer.at = lastRefillUs /\ Check =>
        (answer'.kind = "rate_limited" <=> now < answer.at + answer.retry) ]_vars
=============================================================================
