------------------------------- MODULE Crawl --------------------------------
(***************************************************************************)
(* One crawl (hx.crawl.run.crawl) over its frontier (hx.crawl.frontier):    *)
(* pages of the seeds' origins, each visited once, until none is left or a  *)
(* budget is spent.  The browser and the site are external: what a visit    *)
(* finds is theirs to choose, and what hx makes of it is here.              *)
(***************************************************************************)
EXTENDS Integers, Sequences, FiniteSets, Subsequences

CONSTANTS
    Urls,           \* normalised
    Hrefs,          \* as a page writes them
    Normal,         \* [Hrefs -> Urls, or None where there is nothing to visit]
    Origin,         \* [Urls -> the origin of each]
    LinksOn,        \* [Urls -> the hrefs of each page, in their order]
    Seeds,          \* a sequence of hrefs
    None,
    OtherHosts,          \* other origins a page may want things of
    PerPage,        \* most requests of one visit
    MostLate,       \* bound: requests made that hx may still be told of
    MostPages, MostRequests, MostSeconds   \* the budgets an operator may give are
                                        \* these or less

ASSUME CrawlAssumptions ==
    /\ Normal \in [Hrefs -> Urls \cup {None}]
    /\ LinksOn \in [Urls -> Seq(Hrefs)]
    /\ Seeds \in Seq(Hrefs)
    /\ {PerPage, MostLate, MostPages, MostRequests, MostSeconds} \subseteq Nat

VARIABLES
    pc,
    budget,             \* pages, requests, seconds
    queue, seen,        \* the frontier's
    visited,            \* how many pages it has handed out
    noted,              \* the requests charged so far
    exhausted,          \* the budget that stopped it, or "none"
    seconds,            \* since it started
    current, since,     \* the page being visited, and when it was taken
    late,               \* requests made that no page has been charged for and
                        \* that the browser may yet report
    counts,             \* pages by state
    sent,               \* history: of each page visited, when it was taken, the
                        \* requests made and those charged, and its links
    run                 \* the run row: its status and whether it says why it ended

visitVars == <<current, since, late, counts, sent>>
crawlVars == <<pc, budget, queue, seen, visited, noted, exhausted, seconds, visitVars, run>>

-----------------------------------------------------------------------------
(* The frontier. *)

Origins == {Origin[Normal[Seeds[n]]] : n \in {n \in DOMAIN Seeds : Normal[Seeds[n]] # None}}

\* _enqueue, for one href after the other: the first that names each page of
\* the seeds' origins that is not known yet.
Offered(q, known, hrefs) ==
    LET page(n) == Normal[hrefs[n]]
        fresh == {n \in DOMAIN hrefs :
                    /\ page(n) # None /\ page(n) \notin known /\ Origin[page(n)] \in Origins
                    /\ \A m \in 1..(n - 1) : page(m) # page(n)}
        taken == Picked(hrefs, fresh)
    IN  [queue |-> q \o [k \in DOMAIN taken |-> Normal[taken[k]]],
         known |-> known \cup {page(n) : n \in fresh}]

CrawlInit ==
    LET start == Offered(<<>>, {}, Seeds) IN
    /\ pc = "launch"
    /\ budget \in [pages : 1..MostPages, requests : 1..MostRequests, seconds : {MostSeconds}]
    /\ queue = start.queue /\ seen = start.known
    /\ visited = 0 /\ noted = 0 /\ exhausted = "none" /\ seconds = 0
    /\ current = None /\ since = 0 /\ late = 0
    /\ counts = [rendered |-> 0, degraded |-> 0, failed |-> 0]
    /\ sent = <<>>
    /\ run = [status |-> "running", why |-> "none"]

\* The budgets come before the queue.
SpentOf(used) ==
    IF used.pages >= budget.pages THEN "max_pages"
    ELSE IF used.requests >= budget.requests THEN "max_requests"
    ELSE IF used.seconds >= budget.seconds THEN "max_seconds"
    ELSE "none"

\* Mutant: > for >=.
MutantSpent == SpentOf([pages |-> visited, requests |-> noted - 1, seconds |-> seconds])
Spent == SpentOf([pages |-> visited, requests |-> noted, seconds |-> seconds])

frontierVars == <<budget, queue, seen, visited, noted, exhausted>>

-----------------------------------------------------------------------------
(* The loop. *)

\* The browser comes up, or the run is closed as an error.
Launch ==
    /\ pc = "launch"
    /\ pc' = "next"
    /\ UNCHANGED <<frontierVars, seconds, visitVars, run>>

Fail == /\ run' = [status |-> "error", why |-> "raised"]
        /\ pc' = "done"

LaunchFails ==
    /\ pc = "launch"
    /\ Fail
    /\ UNCHANGED <<frontierVars, seconds, visitVars>>

Take ==
    /\ pc = "next" /\ Spent = "none" /\ queue # <<>>
    /\ visited' = visited + 1
    /\ current' = Head(queue)
    /\ since' = seconds
    /\ queue' = Tail(queue)
    /\ pc' = "visit"
    /\ UNCHANGED <<budget, seen, noted, exhausted, seconds, late, counts, sent, run>>

\* Nothing more to visit, or nothing left to visit it with: the run says which.
MutantStop ==
    /\ pc = "next" /\ (Spent # "none" \/ queue = <<>>)
    /\ exhausted' = Spent
    /\ run' = [status |-> "completed",
               why |-> IF visited >= budget.pages THEN "max_pages" ELSE "none"]
    /\ pc' = "done"
    /\ UNCHANGED <<budget, queue, seen, visited, noted, seconds, visitVars>>

Stop ==
    /\ pc = "next" /\ (Spent # "none" \/ queue = <<>>)
    /\ exhausted' = Spent
    /\ run' = [status |-> "completed", why |-> Spent]
    /\ pc' = "done"
    /\ UNCHANGED <<budget, queue, seen, visited, noted, seconds, visitVars>>

\* What hx reads out of the events of a page: its document failed or never
\* was asked for; something of its own failed to load, or it yielded nothing
\* while a host was dropped; or it is rendered.
StateOf(e) ==
    IF e.requests = 0 \/ e.documentLost THEN "failed"
    ELSE IF e.loadErrors THEN "degraded"
    ELSE IF e.links = <<>> /\ ~e.ownRequests /\ e.dropped # {} THEN "degraded"
    ELSE "rendered"

\* What the browser does for a page and reports of it.  hx charges the distinct
\* request ids of the events it has read when it judges the page.  The requests
\* made may be more: a redirect goes under the id of the first request, what is
\* reported after the page is judged is thrown away before the next one or
\* charged to that, and of a navigation that fails hx reads nothing.  Of the
\* links none are read when the document cannot be.
Events ==
    [made : 0..PerPage, requests : 0..PerPage, documentLost : BOOLEAN, loadErrors : BOOLEAN,
     ownRequests : BOOLEAN, dropped : {{}, OtherHosts}, links : {<<>>, LinksOn[current]}]
Possible(e) ==
    /\ e.requests <= e.made + late
    /\ e.ownRequests => e.requests > 1
    /\ e.dropped # {} => e.requests > 1
    /\ e.documentLost => e.requests > 0

\* A visit, its counts, and what it offers the frontier.  A page of which
\* nothing could be asked is failed, without requests and links.
Visit ==
    /\ pc = "visit"
    /\ \E e \in {e \in Events : Possible(e)} :
         LET offered == Offered(queue, seen, e.links) IN
         /\ counts' = [counts EXCEPT ![StateOf(e)] = @ + 1]
         /\ noted' = noted + e.requests
         /\ late' \in 0..MostLate /\ late' <= late + e.made - e.requests
         /\ sent' = Append(sent, [url |-> current, began |-> since, made |-> e.made,
                                  charged |-> e.requests, links |-> e.links])
         /\ queue' = offered.queue
         /\ seen' = offered.known
    /\ pc' = "next"
    /\ current' = None
    /\ UNCHANGED <<budget, visited, exhausted, seconds, since, run>>

\* The connection to the browser is gone, or the command is interrupted.
VisitRaises ==
    /\ pc = "visit"
    /\ Fail
    /\ UNCHANGED <<frontierVars, seconds, visitVars>>

TimePasses ==
    /\ pc \in {"next", "visit"}
    /\ seconds < budget.seconds
    /\ seconds' = seconds + 1
    /\ UNCHANGED <<pc, frontierVars, visitVars, run>>

TheCrawl == Launch \/ LaunchFails \/ Take \/ Stop \/ Visit \/ VisitRaises

CrawlNext == TheCrawl \/ TimePasses

CrawlSpec == CrawlInit /\ [][CrawlNext]_crawlVars
-----------------------------------------------------------------------------
(* The budgets, as hx charges them: no more pages than asked for, none begun *)
(* when the time was up or the requests charged for the pages before it had  *)
(* reached their budget, each page of a seeded origin, and none twice        *)
(* (frontier.Frontier).  One page may still charge any number.               *)
ChargedFor(pages) ==
    Cardinality({v \in (DOMAIN pages) \X (1..PerPage) : v[2] <= pages[v[1]].charged})

BudgetHolds ==
    /\ Len(sent) <= budget.pages
    /\ pc = "visit" => /\ Len(sent) < budget.pages /\ since < budget.seconds
                       /\ ChargedFor(sent) < budget.requests
    /\ Len(sent) > 0 => ChargedFor(SubSeq(sent, 1, Len(sent) - 1)) < budget.requests
    /\ \A n \in DOMAIN sent :
          /\ sent[n].began < budget.seconds
          /\ Origin[sent[n].url] \in Origins
          /\ \A m \in 1..(n - 1) : sent[m].url # sent[n].url

(* The budget of requests as the client's application sees it: "one page     *)
(* that fires a thousand XHR is a thousand requests against the target"      *)
(* (crawl/run.py:104-107).  It does not hold: what is made and not charged   *)
(* leaves room for another page.                                             *)
MadeFor(pages) ==
    Cardinality({v \in (DOMAIN pages) \X (1..PerPage) : v[2] <= pages[v[1]].made})

MadeWithinBudget ==
    Len(sent) > 0 => MadeFor(SubSeq(sent, 1, Len(sent) - 1)) < budget.requests

(* A crawl that ends without saying that a budget stopped it has visited     *)
(* every page of its origins that it was given or that it read a link to.    *)
Visited == {sent[n].url : n \in DOMAIN sent}
Given == {Normal[Seeds[n]] : n \in DOMAIN Seeds}
Linked == UNION {{Normal[sent[n].links[k]] : k \in DOMAIN sent[n].links} : n \in DOMAIN sent}
Wanted == {u \in (Given \cup Linked) \ {None} : Origin[u] \in Origins}

CompleteMeansClosed ==
    run.status = "completed" /\ run.why = "none" => Wanted \subseteq Visited

(* The other direction: "a crawl that visited everything is COMPLETE, and    *)
(* must not report a budget as its reason for stopping"                      *)
(* (frontier.py:112-115).  It does not hold: the budgets are looked at       *)
(* before the queue, and both may have run out.                              *)
BudgetMeansUnfinished ==
    run.status = "completed" /\ run.why # "none" => ~(Wanted \subseteq Visited)
=============================================================================
