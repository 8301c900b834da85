------------------------------ MODULE Recording ------------------------------
(***************************************************************************)
(* What becomes of the traffic Burp's proxy lets through: the requests     *)
(* waiting for their responses (extension/src/hx/proxy/Pending.java), the  *)
(* bounded queue of records and the thread that drains it                  *)
(* (proxy/Capture.java), and the proxy handlers that feed both             *)
(* (HxExtension.java).                                                     *)
(*                                                                         *)
(* Proxy threads offer and never wait; one drain hands records to the      *)
(* bridge and reports how many were lost; the thread that loads and        *)
(* unloads the extension starts and stops the drain.  A drain that does    *)
(* not end within the bounded join is left to itself, so a later start     *)
(* makes a second one.  The bridge may be down, and may keep whoever calls *)
(* it waiting for any time.                                                *)
(*                                                                         *)
(* A record is its source; a step is what one thread does between two      *)
(* accesses to state another thread can change.                            *)
(***************************************************************************)
EXTENDS Integers, Sequences, FiniteSets

CONSTANTS
    Spelled,          \* the sources the far side has a name for
    Unattributed,     \* the one it has none for
    Proxies,          \* proxy threads
    Unloader,         \* the thread that loads and unloads the extension
    None,
    Capacity,         \* of the queue
    PendingCapacity,  \* of the requests waiting
    MaxMessages,      \* bound on requests through the proxy
    MaxStarts         \* bound on start() and on stop()

Sources   == Spelled \cup {Unattributed}
Drains    == 1..MaxStarts
Reporters == Drains \cup {Unloader}
Threads   == Reporters \cup Proxies

ASSUME RecordingAssumption ==
    /\ Unattributed \notin Spelled
    /\ Capacity \in Nat \ {0}
    /\ PendingCapacity \in Nat
    /\ MaxMessages \in Nat
    /\ MaxStarts \in Nat
    /\ Proxies \cap Reporters = {}
    /\ Unloader \notin Drains
    /\ None \notin Sources \cup Reporters

VARIABLES
    pending,        \* Pending.live: the requests waiting, oldest first
    queue, accepting, running, drain, dropped, reported, lock,   \* Capture
    starts, stops,
    unload,         \* whether the extension is being unloaded, and with what bridge
    pc,             \* where each thread is
    hand,           \* the records each thread has taken and not yet counted
    mine,           \* the record each proxy thread is offering
    rep,            \* the reporting pass each reporter is in
    interrupted,    \* the drain's interrupt flag
    sinkUp,         \* the bridge takes frames
    \* What really happened (not in the code):
    messages,       \* requests seen by the proxy
    answered,       \* those whose response was seen
    due,            \* records hx might have had, by source, but for refusals
                    \* of which no record could be made
    delivered,      \* records that reached the bridge, by source
    told,           \* losses reported to the bridge, by source
    owed            \* losses counted when a stop that unloads came to report

captureVars == <<queue, accepting, running, drain, dropped, reported, lock>>
threadVars  == <<pc, hand, mine, rep, interrupted>>
ghostVars   == <<messages, answered, due, delivered, told, owed>>
lifeVars    == <<starts, stops, unload>>
vars == <<pending, captureVars, lifeVars, threadVars, sinkUp, ghostVars>>

Nothing == [s \in Sources |-> 0]
NoPass  == [todo |-> {}, source |-> None, now |-> 0]
More(f, s) == [f EXCEPT ![s] = @ + 1]

Init ==
    /\ pending = <<>>
    /\ queue = <<>>
    /\ accepting = TRUE /\ running = FALSE /\ drain = None
    /\ dropped = Nothing /\ reported = Nothing
    /\ lock = None
    /\ starts = 0 /\ stops = 0 /\ unload = "no"
    /\ pc = [t \in Threads |-> "idle"]
    /\ hand = [t \in Threads |-> Nothing]
    /\ mine = [p \in Proxies |-> None]
    /\ rep = [r \in Reporters |-> NoPass]
    /\ interrupted = [d \in Drains |-> FALSE]
    /\ sinkUp = FALSE
    /\ messages = 0 /\ answered = {}
    /\ due = Nothing /\ delivered = Nothing /\ told = Nothing /\ owed = Nothing

Queued(s) == Cardinality({ i \in 1..Len(queue) : queue[i] = s })

GoTo(t, l) == pc' = [pc EXCEPT ![t] = l]

----------------------------------------------------------------------------
(* The proxy handlers, on Burp's threads. *)

\* Pending.put(): the oldest request waiting goes when there are too many.
Put(m, s) ==
    LET all == Append(pending, [id |-> m, source |-> s])
    IN  pending' = IF Len(all) > PendingCapacity THEN Tail(all) ELSE all

\* offer(), for a record whose source has a spelling; any other is refused
\* and counted.
Offers(p, s) ==
    IF s \in Spelled
    THEN /\ mine' = [mine EXCEPT ![p] = s]
         /\ GoTo(p, "offer")
         /\ UNCHANGED dropped
    ELSE /\ dropped' = More(dropped, s)
         /\ UNCHANGED <<mine, pc>>

\* handleRequestReceived(), allowed: the request is noted and goes out.
RequestAllowed(p, s) ==
    /\ pc[p] = "idle"
    /\ messages < MaxMessages
    /\ messages' = messages + 1
    /\ Put(messages + 1, s)
    /\ UNCHANGED <<captureVars, lifeVars, threadVars, sinkUp, answered, due,
                   delivered, told, owed>>

\* handleRequestReceived(), refused: the refusal is a record of its own.
RequestDenied(p, s) ==
    /\ pc[p] = "idle"
    /\ messages < MaxMessages
    /\ messages' = messages + 1
    /\ answered' = answered \cup {messages + 1}
    /\ due' = More(due, s)
    /\ Offers(p, s)
    /\ UNCHANGED <<pending, queue, accepting, running, drain, reported, lock, lifeVars,
                   hand, rep, interrupted, sinkUp, delivered, told, owed>>

\* A refusal of which no record can be made: the throw is swallowed, and the
\* loss is the one that is not counted.
DenialUnrecorded(p) ==
    /\ pc[p] = "idle"
    /\ messages < MaxMessages
    /\ messages' = messages + 1
    /\ answered' = answered \cup {messages + 1}
    /\ UNCHANGED <<pending, captureVars, lifeVars, threadVars, sinkUp, due,
                   delivered, told, owed>>

\* handleResponseReceived(): a response with no request waiting for it is
\* lost, charged to nobody; one that cannot be made safe to keep is lost,
\* charged to its source.
Response(p, m) ==
    /\ pc[p] = "idle"
    /\ m \notin answered
    /\ answered' = answered \cup {m}
    /\ LET live == { i \in 1..Len(pending) : pending[i].id = m }
           s    == IF live = {} THEN Unattributed ELSE pending[CHOOSE i \in live : TRUE].source
       IN
       /\ pending' = SelectSeq(pending, LAMBDA e : e.id # m)
       /\ due' = More(due, s)
       /\ \/ live # {} /\ Offers(p, s)
          \/ dropped' = More(dropped, s) /\ UNCHANGED <<mine, pc>>
    /\ UNCHANGED <<queue, accepting, running, drain, reported, lock, lifeVars,
                   hand, rep, interrupted, sinkUp, messages, delivered, told, owed>>

\* queue.offer(): in, or the queue is full.
Enqueue(p) ==
    /\ pc[p] = "offer"
    /\ IF Len(queue) < Capacity
       THEN /\ queue' = Append(queue, mine[p])
            /\ mine' = [mine EXCEPT ![p] = None]
            /\ GoTo(p, "look")
       ELSE GoTo(p, "evict") /\ UNCHANGED <<queue, mine>>
    /\ UNCHANGED <<pending, accepting, running, drain, dropped, reported, lock, lifeVars,
                   hand, rep, interrupted, sinkUp, ghostVars>>

\* queue.poll(): the oldest goes, if it is still there.
Evict(p) ==
    /\ pc[p] = "evict"
    /\ IF queue = <<>> THEN UNCHANGED <<queue, hand>>
       ELSE /\ hand' = [hand EXCEPT ![p] = More(@, Head(queue))]
            /\ queue' = Tail(queue)
    /\ GoTo(p, "count")
    /\ UNCHANGED <<pending, accepting, running, drain, dropped, reported, lock, lifeVars,
                   mine, rep, interrupted, sinkUp, ghostVars>>

MutantLookAccepting(p) ==
    /\ pc[p] = "look"
    /\ GoTo(p, "idle")
    /\ UNCHANGED <<pending, captureVars, lifeVars, hand, mine, rep, interrupted, sinkUp,
                   ghostVars>>

\* After the record is in: has the capture been stopped underneath it?
LookAccepting(p) ==
    /\ pc[p] = "look"
    /\ GoTo(p, IF accepting THEN "idle" ELSE "discard")
    /\ UNCHANGED <<pending, captureVars, lifeVars, hand, mine, rep, interrupted, sinkUp,
                   ghostVars>>

----------------------------------------------------------------------------
(* Counting losses. *)

\* discardQueued(): drainTo empties the queue in one step ...
Discard(t) ==
    /\ pc[t] = "discard"
    /\ queue' = <<>>
    /\ hand' = [hand EXCEPT ![t] =
           [s \in Sources |-> @[s] + Queued(s)]]
    /\ GoTo(t, "count")
    /\ UNCHANGED <<pending, accepting, running, drain, dropped, reported, lock, lifeVars,
                   mine, rep, interrupted, sinkUp, ghostVars>>

\* ... and what was taken is counted, one source's counter at a time.
CountOne(t) ==
    /\ pc[t] = "count"
    /\ \E s \in Sources :
        /\ hand[t][s] > 0
        /\ dropped' = [dropped EXCEPT ![s] = @ + hand[t][s]]
        /\ hand' = [hand EXCEPT ![t][s] = 0]
    /\ UNCHANGED <<pending, queue, accepting, running, drain, reported, lock, lifeVars,
                   pc, mine, rep, interrupted, sinkUp, ghostVars>>

Counted(t) ==
    /\ pc[t] = "count"
    /\ hand[t] = Nothing
    /\ GoTo(t, CASE t = Unloader -> "try"
                 [] t \in Proxies /\ mine[t] # None -> "offer"
                 [] OTHER -> "idle")
    /\ UNCHANGED <<pending, captureVars, lifeVars, hand, mine, rep, interrupted, sinkUp,
                   ghostVars>>

----------------------------------------------------------------------------
(* Reporting them: reportOutstanding(), under reportLock. *)

StartsPass(r) == rep' = [rep EXCEPT ![r] = [NoPass EXCEPT !.todo = Sources]]

\* One counter is read against what was acknowledged.
ReadOutstanding(r) ==
    /\ pc[r] = "report"
    /\ rep[r].source = None
    /\ \E s \in rep[r].todo :
        rep' = [rep EXCEPT ![r] =
            IF dropped[s] = reported[s] THEN [NoPass EXCEPT !.todo = rep[r].todo \ {s}]
            ELSE [todo |-> @.todo \ {s}, source |-> s, now |-> dropped[s]]]
    /\ UNCHANGED <<pending, captureVars, lifeVars, pc, hand, mine, interrupted, sinkUp,
                   ghostVars>>

\* sink.dropped(): told, or still outstanding.
MutantTell(r) ==
    /\ pc[r] = "report"
    /\ rep[r].source # None
    /\ LET s == rep[r].source IN
       IF sinkUp
       THEN /\ told' = [told EXCEPT ![s] = @ + (rep[r].now - reported[s])]
            /\ UNCHANGED reported
       ELSE UNCHANGED <<told, reported>>
    /\ rep' = [rep EXCEPT ![r] = [NoPass EXCEPT !.todo = rep[r].todo]]
    /\ UNCHANGED <<pending, queue, accepting, running, drain, dropped, lock, lifeVars,
                   pc, hand, mine, interrupted, sinkUp, messages, answered, due, delivered, owed>>
Tell(r) ==
    /\ pc[r] = "report"
    /\ rep[r].source # None
    /\ LET s == rep[r].source IN
       IF sinkUp
       THEN /\ told' = [told EXCEPT ![s] = @ + (rep[r].now - reported[s])]
            /\ reported' = [reported EXCEPT ![s] = rep[r].now]
       ELSE UNCHANGED <<told, reported>>
    /\ rep' = [rep EXCEPT ![r] = [NoPass EXCEPT !.todo = rep[r].todo]]
    /\ UNCHANGED <<pending, queue, accepting, running, drain, dropped, lock, lifeVars,
                   pc, hand, mine, interrupted, sinkUp, messages, answered, due, delivered, owed>>

Reported(r) ==
    /\ pc[r] = "report"
    /\ rep[r] = NoPass
    /\ lock' = None
    /\ GoTo(r, IF r = Unloader THEN "idle" ELSE "top")
    /\ UNCHANGED <<pending, queue, accepting, running, drain, dropped, reported, lifeVars,
                   hand, mine, rep, interrupted, sinkUp, ghostVars>>

----------------------------------------------------------------------------
(* The drain: loop(). *)

Top(d) ==
    /\ pc[d] = "top"
    /\ GoTo(d, IF running THEN "poll" ELSE "done")
    /\ UNCHANGED <<pending, captureVars, lifeVars, hand, mine, rep, interrupted, sinkUp,
                   ghostVars>>

\* Mutant: take(), which waits for the next record.
MutantPoll(d) ==
    /\ pc[d] = "poll"
    /\ \/ interrupted[d] /\ GoTo(d, "done") /\ UNCHANGED <<queue, hand>>
       \/ /\ ~interrupted[d] /\ queue # <<>>
          /\ hand' = [hand EXCEPT ![d] = More(@, Head(queue))]
          /\ queue' = Tail(queue)
          /\ GoTo(d, "deliver")
    /\ UNCHANGED <<pending, accepting, running, drain, dropped, reported, lock, lifeVars,
                   mine, rep, interrupted, sinkUp, ghostVars>>

\* queue.poll(POLL_MS): a record, nothing, or the interrupt.
Poll(d) ==
    /\ pc[d] = "poll"
    /\ \/ interrupted[d] /\ GoTo(d, "done") /\ UNCHANGED <<queue, hand>>
       \/ /\ ~interrupted[d] /\ queue = <<>>
          /\ GoTo(d, "lock") /\ UNCHANGED <<queue, hand>>
       \/ /\ ~interrupted[d] /\ queue # <<>>
          /\ hand' = [hand EXCEPT ![d] = More(@, Head(queue))]
          /\ queue' = Tail(queue)
          /\ GoTo(d, "deliver")
    /\ UNCHANGED <<pending, accepting, running, drain, dropped, reported, lock, lifeVars,
                   mine, rep, interrupted, sinkUp, ghostVars>>

\* deliver(): to the bridge, or one more loss.  What the sink does with an
\* interrupt is its own affair.
MutantDeliver(d) ==
    /\ pc[d] = "deliver"
    /\ IF sinkUp
       THEN \E s \in Sources : hand[d][s] > 0 /\ delivered' = More(delivered, s)
       ELSE UNCHANGED delivered
    /\ hand' = [hand EXCEPT ![d] = Nothing]
    /\ interrupted' \in {interrupted, [interrupted EXCEPT ![d] = FALSE]}
    /\ GoTo(d, "lock")
    /\ UNCHANGED <<pending, captureVars, lifeVars, mine, rep, sinkUp,
                   messages, answered, due, told, owed>>
Deliver(d) ==
    /\ pc[d] = "deliver"
    /\ \E s \in Sources :
        /\ hand[d][s] > 0
        /\ IF sinkUp THEN delivered' = More(delivered, s) /\ UNCHANGED dropped
           ELSE dropped' = More(dropped, s) /\ UNCHANGED delivered
    /\ hand' = [hand EXCEPT ![d] = Nothing]
    /\ interrupted' \in {interrupted, [interrupted EXCEPT ![d] = FALSE]}
    /\ GoTo(d, "lock")
    /\ UNCHANGED <<pending, queue, accepting, running, drain, reported, lock, lifeVars,
                   mine, rep, sinkUp, messages, answered, due, told, owed>>

TakeLock(d) ==
    /\ pc[d] = "lock"
    /\ lock = None
    /\ lock' = d
    /\ StartsPass(d)
    /\ GoTo(d, "report")
    /\ UNCHANGED <<pending, queue, accepting, running, drain, dropped, reported, lifeVars,
                   hand, mine, interrupted, sinkUp, ghostVars>>

----------------------------------------------------------------------------
(* start() and stop(), both synchronized. *)

Start ==
    /\ pc[Unloader] = "idle"
    /\ drain = None
    /\ starts < MaxStarts
    /\ unload = "no"
    /\ starts' = starts + 1
    /\ accepting' = TRUE /\ running' = TRUE
    /\ drain' = starts + 1
    /\ GoTo(starts + 1, "top")
    /\ UNCHANGED <<pending, queue, dropped, reported, lock, stops, unload, hand, mine, rep, interrupted,
                   sinkUp, ghostVars>>

\* The unloading handler: the bridge is closed for good, then comes the stop.
Unload ==
    /\ pc[Unloader] = "idle"
    /\ unload = "no"
    /\ stops < MaxStarts
    /\ unload' = IF sinkUp THEN "bridge_up" ELSE "bridge_down"
    /\ sinkUp' = FALSE
    /\ GoTo(Unloader, "stop")
    /\ UNCHANGED <<pending, captureVars, starts, stops, hand, mine, rep, interrupted, ghostVars>>

\* Before anything else: from here on an offer counts itself.
StopAccepting ==
    /\ pc[Unloader] \in {"idle", "stop"}
    /\ stops < MaxStarts
    /\ stops' = stops + 1
    /\ accepting' = FALSE
    /\ GoTo(Unloader, "halt")
    /\ UNCHANGED <<pending, queue, running, drain, dropped, reported, lock, starts, unload,
                   hand, mine, rep, interrupted, sinkUp, ghostVars>>

\* running = false, the drain interrupted, and the join, which is bounded: the
\* drain may have ended by then or not.
StopDrain ==
    /\ pc[Unloader] = "halt"
    /\ running' = FALSE
    /\ drain' = None
    /\ interrupted' = IF drain = None THEN interrupted
                      ELSE [interrupted EXCEPT ![drain] = (pc[drain] # "done")]
    /\ GoTo(Unloader, "discard")
    /\ UNCHANGED <<pending, queue, accepting, dropped, reported, lock, lifeVars, hand, mine,
                   rep, sinkUp, ghostVars>>

\* Mutant: a stop that waits for the lock.
MutantTryLock ==
    /\ pc[Unloader] = "try"
    /\ lock = None
    /\ lock' = Unloader /\ StartsPass(Unloader) /\ GoTo(Unloader, "report")
    /\ UNCHANGED <<pending, queue, accepting, running, drain, dropped, reported, lifeVars,
                   hand, mine, interrupted, sinkUp, ghostVars>>

\* tryLock(), never lock(): a drain stuck in the sink may be holding it.
TryLock ==
    /\ pc[Unloader] = "try"
    /\ IF lock = None
       THEN lock' = Unloader /\ StartsPass(Unloader) /\ GoTo(Unloader, "report")
       ELSE GoTo(Unloader, "idle") /\ UNCHANGED <<lock, rep>>
    /\ owed' = IF unload = "bridge_up" /\ lock = None THEN dropped ELSE owed
    /\ UNCHANGED <<pending, queue, accepting, running, drain, dropped, reported, lifeVars,
                   hand, mine, interrupted, sinkUp, messages, answered, due, delivered, told>>

----------------------------------------------------------------------------
SinkChanges ==
    /\ unload = "no"
    /\ sinkUp' = ~sinkUp
    /\ UNCHANGED <<pending, captureVars, lifeVars, threadVars, ghostVars>>

Handle(p) ==
    \/ \E s \in Spelled : RequestAllowed(p, s)
    \/ \E s \in Sources : RequestDenied(p, s)
    \/ DenialUnrecorded(p)
    \/ \E m \in 1..messages : Response(p, m)

Counting(t)  == Discard(t) \/ CountOne(t) \/ Counted(t)
Offering(p)  == Enqueue(p) \/ Evict(p) \/ LookAccepting(p) \/ Counting(p)
Reporting(r) == ReadOutstanding(r) \/ Tell(r) \/ Reported(r)
Draining(d)  == Top(d) \/ Poll(d) \/ Deliver(d) \/ TakeLock(d) \/ Reporting(d)
Stopping     == StopDrain \/ Counting(Unloader) \/ TryLock

Next ==
    \/ \E p \in Proxies : Handle(p) \/ Offering(p)
    \/ \E d \in Drains : Draining(d)
    \/ Start \/ Unload \/ StopAccepting \/ Stopping \/ Reporting(Unloader)
    \/ SinkChanges

\* A thread that has something to do of its own keeps running.  Nothing makes
\* a sink answer: a drain, and a stop that reports, may hang in it.
Fairness ==
    /\ \A p \in Proxies : WF_vars(Offering(p))
    /\ WF_vars(Stopping)

Spec == Init /\ [][Next]_vars /\ Fairness

----------------------------------------------------------------------------
PCs == {"idle", "offer", "evict", "look", "discard", "count", "top", "poll", "deliver",
        "lock", "report", "done", "stop", "halt", "try"}

TypeOK ==
    /\ pending \in Seq([id : 1..MaxMessages, source : Spelled]) /\ Len(pending) =< PendingCapacity
    /\ queue \in Seq(Spelled) /\ Len(queue) =< Capacity
    /\ {accepting, running, sinkUp} \subseteq BOOLEAN
    /\ drain \in {None} \cup Drains
    /\ lock \in {None} \cup Reporters
    /\ pc \in [Threads -> PCs]
    /\ hand \in [Threads -> [Sources -> Nat]]
    /\ mine \in [Proxies -> {None} \cup Spelled]
    /\ rep \in [Reporters -> [todo : SUBSET Sources, source : {None} \cup Sources, now : Nat]]
    /\ interrupted \in [Drains -> BOOLEAN]
    /\ {dropped, reported, due, delivered, told, owed} \subseteq [Sources -> Nat]
    /\ starts \in 0..MaxStarts /\ stops \in 0..MaxStarts
    /\ unload \in {"no", "bridge_up", "bridge_down"}
    /\ messages \in 0..MaxMessages /\ answered \subseteq 1..MaxMessages

\* What the threads have taken and not yet counted, and what they are offering.
Held(s)    == UNION { {t} \X (1..hand[t][s]) : t \in Threads }
Offered(s) == { p \in Proxies : mine[p] = s }
InHand(s)  == Cardinality(Held(s)) + Cardinality(Offered(s))

\* "A count of exits" (Capture.java:76-88): every response and every refusal
\* is a record that is queued, in a thread's hands, delivered, or counted as
\* lost to its own source, and only one of these.
Accounted ==
    \A s \in Sources :
        due[s] = delivered[s] + dropped[s] + InHand(s) + Queued(s)

\* A stopped capture holds nothing: a record offered around stop() does not
\* stay in a queue that nothing drains (Capture.java:53-61, 280-289).
StoppedHoldsNothing ==
    /\ ~accepting
    /\ \A p \in Proxies : pc[p] \notin {"look", "discard"}
    /\ pc[Unloader] \notin {"halt", "discard"}
    => queue = <<>>

\* What the far side is told is never more than what was lost, across two
\* drains, a stop, and reports that fail (Capture.java:152-180).
ToldIsLost == \A s \in Sources : told[s] =< dropped[s]

\* "THE FLUSH IS THE POINT ... this class's count is complete up to the unload"
\* (Capture.java:352-380): with a bridge that was up when the unload began and
\* a stop that reports, the losses counted by then are known.
FlushIsTold == pc[Unloader] = "idle" => \A s \in Sources : told[s] >= owed[s]

\* Nobody waits for a drain that hangs in its sink: not the unloading of the
\* extension, up to its own report (Capture.java:121-123, 399-407), and no
\* proxy thread inside offer() (Capture.java:235-240).
NobodyWaitsForTheDrain ==
    /\ pc[Unloader] = "halt" ~> pc[Unloader] \in {"idle", "report"}
    /\ \A p \in Proxies : pc[p] = "offer" ~> pc[p] = "idle"

\* A loss is reported although no traffic follows it (Capture.java:125-136):
\* with a bridge that takes frames and a drain that runs, every loss is known.
DrainLives ==
    /\ <>[](sinkUp /\ running)
    /\ \A d \in Drains : WF_vars(Draining(d))
LossesGetOut == DrainLives => <>[](told = dropped)
=============================================================================
