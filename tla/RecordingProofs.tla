--------------------------- MODULE RecordingProofs ---------------------------
(***************************************************************************)
(* Recording, for any number of proxy threads, drains, sources and records *)
(* and any capacity: a stopped capture holds nothing, what the far side is *)
(* told is never more than what was lost, and every record is accounted    *)
(* for, in one place only.                                                 *)
(***************************************************************************)
EXTENDS Recording, FiniteSetTheorems, SequenceTheorems, TLAPS

Counter == [Sources -> Nat]
Pass    == [todo : SUBSET Sources, source : {None} \cup Sources, now : Nat]

\* The types the two arguments need.
Types ==
    /\ queue \in Seq({None} \cup Spelled)
    /\ mine \in [Proxies -> {None} \cup Spelled]
    /\ pc \in [Threads -> PCs]
    /\ hand \in [Threads -> Counter]
    /\ rep \in [Reporters -> Pass]
    /\ dropped \in Counter /\ reported \in Counter /\ told \in Counter

\* A pass is made under the lock, and what it has read lies between what was
\* acknowledged and what was counted.
Ledger ==
    /\ told = reported
    /\ \A s \in Sources : reported[s] =< dropped[s]
    /\ \A r \in Reporters : pc[r] = "report" => lock = r
    /\ \A r \in Reporters : rep[r].source # None =>
            /\ pc[r] = "report"
            /\ reported[rep[r].source] =< rep[r].now
            /\ rep[r].now =< dropped[rep[r].source]

\* A drain that was never started has done nothing.
Unstarted ==
    /\ starts \in Nat
    /\ \A d \in Drains : d > starts => pc[d] = "idle"

IInv == Types /\ Ledger /\ Unstarted /\ StoppedHoldsNothing

\* Counters only grow.
Grows == \A s \in Sources : dropped[s] =< dropped'[s]

\* One more in a counter is a counter, and nowhere less.
LEMMA MoreGrows ==
    ASSUME NEW f \in Counter, NEW s
    PROVE  /\ More(f, s) \in Counter
           /\ \A x \in Sources : f[x] =< More(f, s)[x]
  <1>1. CASE s \in Sources
    BY <1>1 DEF More, Counter
  <1>2. CASE s \notin Sources
    <2>1. More(f, s) = f
      BY <1>2 DEF More, Counter
    <2>2. QED
      BY <2>1 DEF Counter
  <1>3. QED
    BY <1>1, <1>2

\* A sequence holds a natural number of records of a source.
LEMMA QueuedIsNat ==
    ASSUME queue \in Seq({None} \cup Spelled), NEW s
    PROVE  Queued(s) \in Nat
  <1>1. IsFiniteSet(1..Len(queue))
    BY FS_Interval
  <1>2. IsFiniteSet({ i \in 1..Len(queue) : queue[i] = s })
    BY <1>1, FS_Subset
  <1>3. QED
    BY <1>2, FS_CardinalityType DEF Queued

\* No counter has counted, nobody has taken anything, and no pass has begun.
LEMMA InitIInv == Init => IInv
  <1> SUFFICES ASSUME Init PROVE IInv
    OBVIOUS
  <1>1. Nothing \in Counter /\ NoPass \in Pass /\ NoPass.source = None
    BY DEF Nothing, Counter, NoPass, Pass
  <1>2. Types
    BY <1>1 DEF Init, Types, PCs
  <1>3. Ledger
    BY <1>1 DEF Init, Ledger, Nothing, Threads
  <1>4. StoppedHoldsNothing
    BY DEF Init, StoppedHoldsNothing
  <1>5. Unstarted
    BY DEF Init, Unstarted, Threads, Reporters
  <1>6. QED
    BY <1>2, <1>3, <1>4, <1>5 DEF IInv

\* A proxy thread's place is never a reporter's.
LEMMA ThreadsApart ==
    /\ \A p \in Proxies : p \in Threads /\ p \notin Reporters
    /\ \A d \in Drains : d \in Threads /\ d \in Reporters /\ d # Unloader
    /\ Unloader \in Threads /\ Unloader \in Reporters /\ Unloader \notin Proxies
  BY RecordingAssumption DEF Threads, Reporters

----------------------------------------------------------------------------
\* What the drain does to the queue: nothing, or it takes the first of it.
LEMMA PollTakes ==
    ASSUME NEW d, Poll(d)
    PROVE  \/ queue' = queue
           \/ queue # <<>> /\ queue' = Tail(queue)
  BY DEF Poll

\* What is left is of the kind that was there.
LEMMA TakenFrom ==
    ASSUME NEW T, NEW q \in Seq(T), NEW r, r = q \/ (q # <<>> /\ r = Tail(q))
    PROVE  r \in Seq(T)
  BY HeadTailProperties

\* Every step keeps the types and counts nothing back.
LEMMA TypesStep == Types /\ Ledger /\ Next => Types' /\ Grows
  <1> SUFFICES ASSUME Types, Ledger, Next PROVE Types' /\ Grows
    OBVIOUS
  <1> USE ThreadsApart DEF Types, Grows, captureVars, lifeVars, threadVars, ghostVars
  <1>g. UNCHANGED dropped => Grows
    BY DEF Counter
  <1>1. ASSUME NEW p \in Proxies, Handle(p) PROVE Types' /\ Grows
    <2>1. ASSUME NEW s, Offers(p, s), UNCHANGED <<queue, hand, rep, reported, told>>
          PROVE  Types' /\ Grows
      <3>1. CASE s \in Spelled
        BY <2>1, <3>1, <1>g DEF Offers, GoTo, PCs
      <3>2. CASE s \notin Spelled
        BY <2>1, <3>2, MoreGrows DEF Offers
      <3>3. QED
        BY <3>1, <3>2
    <2>2. CASE \E s \in Spelled : RequestAllowed(p, s)
      BY <2>2, <1>g DEF RequestAllowed
    <2>3. CASE \E s \in Sources : RequestDenied(p, s)
      BY <2>1, <2>3 DEF RequestDenied
    <2>4. CASE DenialUnrecorded(p)
      BY <2>4, <1>g DEF DenialUnrecorded
    <2>5. CASE \E m \in 1..messages : Response(p, m)
      <3>1. PICK s : /\ UNCHANGED <<queue, hand, rep, reported, told>>
                     /\ \/ Offers(p, s)
                        \/ dropped' = More(dropped, s) /\ UNCHANGED <<mine, pc>>
        BY <2>5 DEF Response
      <3>2. CASE Offers(p, s)
        BY <2>1, <3>1, <3>2
      <3>3. CASE dropped' = More(dropped, s) /\ UNCHANGED <<mine, pc>>
        BY <3>1, <3>3, MoreGrows
      <3>4. QED
        BY <3>1, <3>2, <3>3
    <2>6. QED
      BY <1>1, <2>2, <2>3, <2>4, <2>5 DEF Handle
  <1>2. ASSUME NEW t \in Threads, Counting(t) PROVE Types' /\ Grows
    <2>1. CASE Discard(t)
      <3>1. [s \in Sources |-> hand[t][s] + Queued(s)] \in Counter
        <4>1. \A s \in Sources : hand[t][s] \in Nat
          BY DEF Counter
        <4>2. \A s \in Sources : Queued(s) \in Nat
          BY QueuedIsNat
        <4>3. \A s \in Sources : hand[t][s] + Queued(s) \in Nat
          BY <4>1, <4>2
        <4>4. QED
          BY <4>3 DEF Counter
      <3>2. hand' = [hand EXCEPT ![t] = [s \in Sources |-> hand[t][s] + Queued(s)]]
        BY <2>1 DEF Discard
      <3>3. hand' \in [Threads -> Counter]
        BY <3>1, <3>2
      <3>4. QED
        BY <2>1, <3>3, <1>g DEF Discard, GoTo, PCs
    <2>2. CASE CountOne(t)
      <3>1. PICK s \in Sources : /\ dropped' = [dropped EXCEPT ![s] = @ + hand[t][s]]
                                 /\ hand' = [hand EXCEPT ![t][s] = 0]
        BY <2>2 DEF CountOne
      <3>2. hand[t] \in Counter
        OBVIOUS
      <3>3. dropped' \in Counter /\ Grows
        BY SMTT(30), <3>1, <3>2 DEF Counter
      <3>4. hand' \in [Threads -> Counter]
        BY <3>1, <3>2 DEF Counter
      <3>5. QED
        BY <2>2, <3>3, <3>4 DEF CountOne
    <2>3. CASE Counted(t)
      BY <2>3, <1>g DEF Counted, GoTo, PCs
    <2>4. QED
      BY <1>2, <2>1, <2>2, <2>3 DEF Counting
  <1>3. ASSUME NEW p \in Proxies, Offering(p) PROVE Types' /\ Grows
    <2>1. CASE Enqueue(p)
      <3>1. /\ queue' \in Seq({None} \cup Spelled)
            /\ mine' \in [Proxies -> {None} \cup Spelled]
        BY <2>1 DEF Enqueue
      <3>2. pc' \in [Threads -> PCs]
        BY <2>1 DEF Enqueue, GoTo, PCs
      <3>3. UNCHANGED <<hand, rep, dropped, reported, told>>
        BY <2>1 DEF Enqueue
      <3>4. QED
        BY <3>1, <3>2, <3>3, <1>g
    <2>2. CASE Evict(p)
      <3>1. hand' \in [Threads -> Counter]
        BY <2>2, MoreGrows DEF Evict
      <3>2. queue' \in Seq({None} \cup Spelled)
        BY <2>2 DEF Evict
      <3>3. QED
        BY <2>2, <3>1, <3>2, <1>g DEF Evict, GoTo, PCs
    <2>3. CASE LookAccepting(p)
      BY <2>3, <1>g DEF LookAccepting, GoTo, PCs
    <2>4. QED
      BY <1>3, <1>2, <2>1, <2>2, <2>3 DEF Offering
  <1>4. ASSUME NEW r \in Reporters, Reporting(r) PROVE Types' /\ Grows
    <2>1. CASE ReadOutstanding(r)
      <3>1. rep[r] \in Pass
        OBVIOUS
      <3>2. PICK s \in rep[r].todo :
              rep' = [rep EXCEPT ![r] =
                IF dropped[s] = reported[s] THEN [NoPass EXCEPT !.todo = rep[r].todo \ {s}]
                ELSE [todo |-> @.todo \ {s}, source |-> s, now |-> dropped[s]]]
        BY <2>1 DEF ReadOutstanding
      <3>3. s \in Sources /\ dropped[s] \in Nat
        BY <3>1 DEF Pass, Counter
      <3>4. /\ [NoPass EXCEPT !.todo = rep[r].todo \ {s}] \in Pass
            /\ [todo |-> rep[r].todo \ {s}, source |-> s, now |-> dropped[s]] \in Pass
        BY <3>1, <3>3 DEF Pass, NoPass
      <3>5. rep' \in [Reporters -> Pass]
        BY <3>2, <3>4
      <3>6. QED
        BY <2>1, <3>5, <1>g DEF ReadOutstanding
    <2>2. CASE Tell(r)
      <3>1. rep[r] \in Pass
        OBVIOUS
      <3>2. rep' \in [Reporters -> Pass]
        BY <2>2, <3>1 DEF Tell, Pass, NoPass
      <3>3. UNCHANGED <<queue, mine, pc, hand, dropped>>
        BY <2>2 DEF Tell
      <3>4. rep[r].now \in Nat
        BY <3>1 DEF Pass
      <3>5. reported' \in Counter
        BY <2>2, <3>4 DEF Tell, Counter
      <3>6. told' = reported'
        <4>1. told = reported /\ rep[r].source \in Sources
          BY <2>2, <3>1 DEF Ledger, Tell, Pass
        <4>2. CASE sinkUp
          <5> DEFINE s == rep[r].source
          <5>1. told[s] + (rep[r].now - reported[s]) = rep[r].now
            BY <3>4, <4>1 DEF Counter
          <5>2. told' = [told EXCEPT ![s] = rep[r].now]
            BY <2>2, <4>2, <5>1 DEF Tell
          <5>3. reported' = [reported EXCEPT ![s] = rep[r].now]
            BY <2>2, <4>2 DEF Tell
          <5>4. QED
            BY <4>1, <5>2, <5>3
        <4>3. CASE ~sinkUp
          BY <2>2, <4>1, <4>3 DEF Tell
        <4>4. QED
          BY <4>2, <4>3
      <3>7. QED
        BY <3>2, <3>3, <3>5, <3>6, <1>g
    <2>3. CASE Reported(r)
      BY <2>3, <1>g DEF Reported, GoTo, PCs
    <2>4. QED
      BY <1>4, <2>1, <2>2, <2>3 DEF Reporting
  <1>5. ASSUME NEW d \in Drains, Draining(d) PROVE Types' /\ Grows
    <2>1. CASE Top(d)
      BY <2>1, <1>g DEF Top, GoTo, PCs
    <2>2. CASE Poll(d)
      <3>1. hand' \in [Threads -> Counter]
        BY <2>2, MoreGrows DEF Poll
      <3>2. queue' \in Seq({None} \cup Spelled)
        BY <2>2, PollTakes, TakenFrom
      <3>3. pc' \in [Threads -> PCs]
        BY <2>2 DEF Poll, GoTo, PCs
      <3>4. QED
        BY <2>2, <3>1, <3>2, <3>3, <1>g DEF Poll
    <2>3. CASE Deliver(d)
      <3>1. hand' \in [Threads -> Counter]
        BY <2>3 DEF Deliver, Nothing, Counter
      <3>2. dropped' \in Counter /\ Grows
        BY <2>3, <1>g, MoreGrows DEF Deliver
      <3>3. QED
        BY <2>3, <3>1, <3>2 DEF Deliver, GoTo, PCs
    <2>4. CASE TakeLock(d)
      BY <2>4, <1>g DEF TakeLock, GoTo, PCs, StartsPass, NoPass, Pass
    <2>5. QED
      BY <1>4, <1>5, <2>1, <2>2, <2>3, <2>4 DEF Draining
  <1>6. CASE Start
    <2>2. pc' \in [Threads -> PCs]
      BY <1>6 DEF Start, GoTo, PCs
    <2>3. QED
      BY <1>6, <2>2, <1>g DEF Start
  <1>7. CASE Unload
    BY <1>7, <1>g DEF Unload, GoTo, PCs
  <1>8. CASE StopAccepting
    BY <1>8, <1>g DEF StopAccepting, GoTo, PCs
  <1>9. CASE Stopping
    <2>1. CASE StopDrain
      BY <2>1, <1>g DEF StopDrain, GoTo, PCs
    <2>2. CASE TryLock
      <3>1. [NoPass EXCEPT !.todo = Sources] \in Pass
        BY DEF NoPass, Pass
      <3>2. rep' \in [Reporters -> Pass]
        BY <2>2, <3>1 DEF TryLock, StartsPass
      <3>3. pc' \in [Threads -> PCs]
        BY <2>2 DEF TryLock, GoTo, PCs
      <3>4. QED
        BY <2>2, <3>2, <3>3, <1>g DEF TryLock
    <2>3. QED
      BY <1>9, <1>2, <2>1, <2>2 DEF Stopping
  <1>10. CASE SinkChanges
    BY <1>10, <1>g DEF SinkChanges
  <1>11. QED
    BY <1>1, <1>3, <1>4, <1>5, <1>6, <1>7, <1>8, <1>9, <1>10 DEF Next

----------------------------------------------------------------------------
\* A step that reports nothing and moves nobody in or out of a report.
Quiet ==
    /\ UNCHANGED <<reported, told, lock, rep>>
    /\ \A r \in Reporters : pc'[r] = "report" <=> pc[r] = "report"

\* Such a step leaves the ledger as it is.
LEMMA QuietStep == Types /\ Types' /\ Ledger /\ Grows /\ Quiet => Ledger'
  <1> SUFFICES ASSUME Types, Types', Ledger, Grows, Quiet PROVE Ledger'
    OBVIOUS
  <1>1. told' = reported'
    BY DEF Ledger, Quiet
  <1>2. \A s \in Sources : reported'[s] =< dropped'[s]
    BY DEF Ledger, Quiet, Grows, Types, Counter
  <1>3. \A r \in Reporters : pc'[r] = "report" => lock' = r
    BY DEF Ledger, Quiet
  <1>4. ASSUME NEW r \in Reporters, rep'[r].source # None
        PROVE  /\ pc'[r] = "report"
               /\ reported'[rep'[r].source] =< rep'[r].now
               /\ rep'[r].now =< dropped'[rep'[r].source]
    <2>1. rep'[r] = rep[r] /\ rep[r] \in Pass
      BY DEF Quiet, Types
    <2>2. /\ pc[r] = "report"
          /\ reported[rep[r].source] =< rep[r].now
          /\ rep[r].now =< dropped[rep[r].source]
      BY <1>4, <2>1 DEF Ledger
    <2>3. rep[r].source \in Sources /\ rep[r].now \in Nat
      BY <1>4, <2>1 DEF Pass
    <2>4. QED
      BY <2>1, <2>2, <2>3 DEF Quiet, Grows, Types, Counter
  <1>5. QED
    BY <1>1, <1>2, <1>3, <1>4 DEF Ledger

\* What one reporter does, under the lock, to the ledger.
LEMMA ReportingLedger ==
    ASSUME NEW r \in Reporters, Types, Types', Ledger, Reporting(r)
    PROVE  Ledger'
  <1> USE ThreadsApart
  <1>0. rep[r] \in Pass /\ rep[r].now \in Nat
    BY DEF Types, Pass
  <1>1. CASE ReadOutstanding(r)
    <2>1. PICK s \in rep[r].todo :
            rep' = [rep EXCEPT ![r] =
              IF dropped[s] = reported[s] THEN [NoPass EXCEPT !.todo = rep[r].todo \ {s}]
              ELSE [todo |-> @.todo \ {s}, source |-> s, now |-> dropped[s]]]
      BY <1>1 DEF ReadOutstanding
    <2>2. s \in Sources
      BY <1>0 DEF Pass
    <2>3. pc[r] = "report" /\ UNCHANGED <<pc, lock, told, reported, dropped>>
      BY <1>1 DEF ReadOutstanding, captureVars, ghostVars
    <2>4. \/ rep'[r].source = None
          \/ rep'[r].source = s /\ rep'[r].now = dropped[s]
      BY <2>1 DEF Types, NoPass
    <2>5. \A q \in Reporters \ {r} : rep'[q] = rep[q]
      BY <2>1 DEF Types
    <2>6. reported[s] =< dropped[s] /\ dropped[s] \in Nat
      BY <2>2 DEF Ledger, Types, Counter
    <2>7. QED
      BY <2>2, <2>3, <2>4, <2>5, <2>6 DEF Ledger
  <1>2. CASE Tell(r)
    <2>1. /\ pc[r] = "report" /\ rep[r].source # None
          /\ UNCHANGED <<pc, lock, dropped>>
      BY <1>2 DEF Tell
    <2>2. rep[r].source \in Sources
      BY <1>0, <2>1 DEF Pass
    <2>3. rep'[r].source = None /\ \A q \in Reporters \ {r} : rep'[q] = rep[q]
      BY <1>2 DEF Tell, NoPass, Types
    <2>4. \A q \in Reporters \ {r} : rep[q].source = None
      BY <2>1 DEF Ledger
    <2>5. \A s \in Sources : reported'[s] =< dropped'[s]
      BY <1>2, <2>1, <2>2 DEF Tell, Ledger, Types, Counter
    <2>6. told' = reported'
      <3>1. CASE sinkUp
        <4> DEFINE s == rep[r].source
        <4>1. told = reported
          BY DEF Ledger
        <4>2. told[s] + (rep[r].now - reported[s]) = rep[r].now
          BY <1>0, <2>2, <4>1 DEF Types, Counter
        <4>3. told' = [told EXCEPT ![s] = rep[r].now]
          BY <1>2, <3>1, <4>2 DEF Tell
        <4>4. reported' = [reported EXCEPT ![s] = rep[r].now]
          BY <1>2, <3>1 DEF Tell
        <4>5. QED
          BY <4>1, <4>3, <4>4
      <3>2. CASE ~sinkUp
        BY <1>2, <3>2 DEF Tell, Ledger
      <3>3. QED
        BY <3>1, <3>2
    <2>7. QED
      BY <2>1, <2>3, <2>4, <2>5, <2>6 DEF Ledger
  <1>3. CASE Reported(r)
    <2>1. /\ pc[r] = "report" /\ rep[r].source = None
          /\ UNCHANGED <<rep, told, reported, dropped>>
      BY <1>3 DEF Reported, NoPass, ghostVars
    <2>2. pc'[r] # "report" /\ \A q \in Reporters \ {r} : pc'[q] = pc[q]
      BY <1>3 DEF Reported, GoTo, Types
    <2>3. \A q \in Reporters \ {r} : pc[q] # "report" /\ rep[q].source = None
      BY <2>1 DEF Ledger
    <2>4. QED
      BY <2>1, <2>2, <2>3 DEF Ledger
  <1>4. QED
    BY <1>1, <1>2, <1>3 DEF Reporting

\* A pass begins, with the lock in hand and nothing read.
LEMMA BeginLedger ==
    ASSUME NEW r \in Reporters, Types, Types', Ledger, lock = None, lock' = r,
           StartsPass(r), GoTo(r, "report"), UNCHANGED <<dropped, reported, told>>
    PROVE  Ledger'
  <1>0. r \in Threads /\ Reporters \subseteq Threads
    BY DEF Threads
  <1>1. rep'[r].source = None /\ \A q \in Reporters \ {r} : rep'[q] = rep[q]
    BY DEF StartsPass, NoPass, Types
  <1>2. pc'[r] = "report" /\ \A q \in Reporters \ {r} : pc'[q] = pc[q]
    BY <1>0 DEF GoTo, Types
  <1>3. \A q \in Reporters : pc[q] # "report" /\ rep[q].source = None
    BY RecordingAssumption DEF Ledger
  <1>4. QED
    BY <1>1, <1>2, <1>3 DEF Ledger

\* Whatever runs, the ledger stands, and a drain not started stays idle.
LEMMA LedgerStep ==
    Types /\ Types' /\ Ledger /\ Unstarted /\ Grows /\ Next => Ledger' /\ Unstarted'
  <1> SUFFICES ASSUME Types, Types', Ledger, Unstarted, Grows, Next
               PROVE  Ledger' /\ Unstarted'
    OBVIOUS
  <1> USE ThreadsApart DEF captureVars, lifeVars, threadVars, ghostVars
  <1>q. ASSUME Quiet, UNCHANGED starts,
               \A d \in Drains : pc[d] = "idle" => pc'[d] = "idle"
        PROVE  Ledger' /\ Unstarted'
    BY <1>q, QuietStep DEF Unstarted
  <1>1. ASSUME NEW p \in Proxies, Handle(p) PROVE Ledger' /\ Unstarted'
    <2>1. UNCHANGED <<reported, told, lock, rep, starts>>
      BY <1>1 DEF Handle, RequestAllowed, RequestDenied, DenialUnrecorded, Response
    <2>2. \A r \in Reporters : pc'[r] = pc[r]
      <3>1. ASSUME NEW s, Offers(p, s) PROVE \A r \in Reporters : pc'[r] = pc[r]
        BY <3>1 DEF Offers, GoTo, Types, Threads
      <3>2. UNCHANGED pc \/ \E s : Offers(p, s)
        BY <1>1 DEF Handle, RequestAllowed, RequestDenied, DenialUnrecorded, Response
      <3>3. QED
        BY <3>1, <3>2
    <2>3. QED
      BY <2>1, <2>2, <1>q DEF Quiet
  <1>2. ASSUME NEW t \in Threads, t \notin Drains, Counting(t)
        PROVE  Ledger' /\ Unstarted'
    <2>1. UNCHANGED <<reported, told, lock, rep, starts>>
      BY <1>2 DEF Counting, Discard, CountOne, Counted
    <2>2. /\ pc[t] # "report" /\ pc'[t] # "report"
          /\ \A r \in Threads \ {t} : pc'[r] = pc[r]
      <3>1. CASE Discard(t)
        BY <3>1 DEF Discard, GoTo, Types
      <3>2. CASE CountOne(t)
        BY <3>2 DEF CountOne
      <3>3. CASE Counted(t)
        BY <3>3 DEF Counted, GoTo, Types
      <3>4. QED
        BY <1>2, <3>1, <3>2, <3>3 DEF Counting
    <2>3. QED
      BY <2>1, <2>2, <1>2, <1>q DEF Quiet, Threads
  <1>3. ASSUME NEW p \in Proxies, Offering(p) PROVE Ledger' /\ Unstarted'
    <2>1. p \notin Drains
      BY RecordingAssumption DEF Reporters
    <2>2. CASE Enqueue(p) \/ Evict(p) \/ LookAccepting(p)
      <3>1. UNCHANGED <<reported, told, lock, rep, starts>>
        BY <2>2 DEF Enqueue, Evict, LookAccepting
      <3>2. \A r \in Reporters : pc'[r] = pc[r]
        BY <2>2 DEF Enqueue, Evict, LookAccepting, GoTo, Types, Threads
      <3>3. QED
        BY <3>1, <3>2, <1>q DEF Quiet
    <2>3. QED
      BY <1>2, <1>3, <2>1, <2>2 DEF Offering
  <1>4. ASSUME NEW r \in Reporters, Reporting(r) PROVE Ledger' /\ Unstarted'
    <2>1. pc[r] = "report" /\ UNCHANGED starts
      BY <1>4 DEF Reporting, ReadOutstanding, Tell, Reported
    <2>2. \A q \in Threads \ {r} : pc'[q] = pc[q]
      BY <1>4 DEF Reporting, ReadOutstanding, Tell, Reported, GoTo, Types
    <2>3. Unstarted'
      BY <2>1, <2>2 DEF Unstarted
    <2>4. QED
      BY <1>4, <2>3, ReportingLedger
  <1>5. ASSUME NEW d \in Drains, Draining(d) PROVE Ledger' /\ Unstarted'
    <2>1. CASE Top(d) \/ Poll(d) \/ Deliver(d)
      <3>1. UNCHANGED <<reported, told, lock, rep, starts>>
        BY <2>1 DEF Top, Poll, Deliver
      <3>2. /\ pc[d] \notin {"report", "idle"} /\ pc'[d] # "report"
            /\ \A q \in Threads \ {d} : pc'[q] = pc[q]
        BY <2>1 DEF Top, Poll, Deliver, GoTo, Types
      <3>3. QED
        BY <3>1, <3>2, <1>q DEF Quiet, Threads
    <2>2. CASE TakeLock(d)
      <3>1. Ledger'
        BY <2>2, BeginLedger DEF TakeLock
      <3>2. pc[d] = "lock" /\ UNCHANGED starts
        BY <2>2 DEF TakeLock
      <3>3. \A q \in Threads \ {d} : pc'[q] = pc[q]
        BY <2>2 DEF TakeLock, GoTo, Types
      <3>4. QED
        BY <3>1, <3>2, <3>3 DEF Unstarted
    <2>3. QED
      BY <1>4, <1>5, <2>1, <2>2 DEF Draining
  <1>6. CASE Start
    <2>1. UNCHANGED <<reported, told, lock, rep>> /\ starts' = starts + 1
      BY <1>6 DEF Start
    <2>2. starts + 1 \in Drains /\ starts + 1 > starts
      BY <1>6, RecordingAssumption DEF Start, Unstarted, Drains
    <2>3. /\ pc[starts + 1] = "idle" /\ pc'[starts + 1] = "top"
          /\ \A q \in Threads \ {starts + 1} : pc'[q] = pc[q]
      BY <1>6, <2>2 DEF Start, GoTo, Types, Unstarted
    <2>4. Quiet
      BY <2>1, <2>3 DEF Quiet, Threads
    <2>5. Unstarted'
      BY <2>1, <2>3 DEF Unstarted, Drains
    <2>6. QED
      BY <2>4, <2>5, QuietStep
  <1>7. CASE Unload \/ StopAccepting \/ StopDrain
    <2>1. UNCHANGED <<reported, told, lock, rep, starts>>
      BY <1>7 DEF Unload, StopAccepting, StopDrain
    <2>2. /\ pc[Unloader] # "report" /\ pc'[Unloader] # "report"
          /\ \A q \in Threads \ {Unloader} : pc'[q] = pc[q]
      BY <1>7 DEF Unload, StopAccepting, StopDrain, GoTo, Types
    <2>3. QED
      BY <2>1, <2>2, <1>q DEF Quiet, Threads
  <1>8. CASE TryLock
    <2>1. UNCHANGED <<dropped, reported, told, starts>> /\ pc[Unloader] = "try"
      BY <1>8 DEF TryLock
    <2>2. CASE lock = None
      <3>1. Ledger'
        BY <1>8, <2>1, <2>2, BeginLedger DEF TryLock
      <3>2. \A q \in Threads \ {Unloader} : pc'[q] = pc[q]
        BY <1>8, <2>2 DEF TryLock, GoTo, Types
      <3>3. QED
        BY <2>1, <3>1, <3>2 DEF Unstarted, Threads
    <2>3. CASE lock # None
      <3>1. /\ pc'[Unloader] = "idle"
            /\ \A q \in Threads \ {Unloader} : pc'[q] = pc[q]
        BY <1>8, <2>3 DEF TryLock, GoTo, Types
      <3>2. UNCHANGED <<lock, rep>>
        BY <1>8, <2>3 DEF TryLock
      <3>3. QED
        BY <2>1, <3>1, <3>2, <1>q DEF Quiet, Threads
    <2>4. QED
      BY <2>2, <2>3
  <1>9. CASE Stopping
    BY <1>2, <1>7, <1>8, <1>9, RecordingAssumption DEF Stopping, Reporters
  <1>10. CASE SinkChanges
    BY <1>10, <1>q DEF SinkChanges, Quiet
  <1>11. QED
    BY <1>1, <1>3, <1>4, <1>5, <1>6, <1>7, <1>9, <1>10 DEF Next

----------------------------------------------------------------------------
\* While a capture is stopped, a record that gets in has a thread behind it
\* that is still to look, and to take it out again.
LEMMA HoldsNothingStep ==
    Types /\ StoppedHoldsNothing /\ Next => StoppedHoldsNothing'
  <1> SUFFICES ASSUME Types, StoppedHoldsNothing, Next PROVE StoppedHoldsNothing'
    OBVIOUS
  <1> USE ThreadsApart DEF StoppedHoldsNothing, captureVars, lifeVars, threadVars, ghostVars
  \* A step of somebody's that puts nothing in and ends no one's looking.
  <1>q. ASSUME queue = <<>> => queue' = <<>>, UNCHANGED accepting,
               \A p \in Proxies : pc[p] \in {"look", "discard"} => pc'[p] = pc[p],
               pc[Unloader] \in {"halt", "discard"} => pc'[Unloader] = pc[Unloader]
        PROVE  StoppedHoldsNothing'
    BY <1>q
  <1>1. ASSUME NEW p \in Proxies, Handle(p) PROVE StoppedHoldsNothing'
    <2>1. UNCHANGED <<queue, accepting>> /\ pc[p] = "idle"
      BY <1>1 DEF Handle, RequestAllowed, RequestDenied, DenialUnrecorded, Response
    <2>2. \A t \in Threads \ {p} : pc'[t] = pc[t]
      <3>1. ASSUME NEW s, Offers(p, s) PROVE \A t \in Threads \ {p} : pc'[t] = pc[t]
        BY <3>1 DEF Offers, GoTo, Types
      <3>2. UNCHANGED pc \/ \E s : Offers(p, s)
        BY <1>1 DEF Handle, RequestAllowed, RequestDenied, DenialUnrecorded, Response
      <3>3. QED
        BY <3>1, <3>2
    <2>3. QED
      BY <2>1, <2>2, <1>q
  <1>2. ASSUME NEW t \in Threads, Counting(t) PROVE StoppedHoldsNothing'
    <2>1. CASE Discard(t)
      BY <2>1 DEF Discard
    <2>2. CASE CountOne(t)
      BY <2>2, <1>q DEF CountOne
    <2>3. CASE Counted(t)
      <3>1. UNCHANGED <<queue, accepting>> /\ pc[t] = "count"
        BY <2>3 DEF Counted
      <3>2. \A u \in Threads \ {t} : pc'[u] = pc[u]
        BY <2>3 DEF Counted, GoTo, Types
      <3>3. QED
        BY <3>1, <3>2, <1>q
    <2>4. QED
      BY <1>2, <2>1, <2>2, <2>3 DEF Counting
  <1>3. ASSUME NEW p \in Proxies, Offering(p) PROVE StoppedHoldsNothing'
    <2>1. CASE Enqueue(p)
      <3>1. CASE Len(queue) < Capacity
        BY <2>1, <3>1 DEF Enqueue, GoTo, Types
      <3>2. CASE ~(Len(queue) < Capacity)
        <4>1. UNCHANGED <<queue, accepting>> /\ pc[p] = "offer"
          BY <2>1, <3>2 DEF Enqueue
        <4>2. \A u \in Threads \ {p} : pc'[u] = pc[u]
          BY <2>1, <3>2 DEF Enqueue, GoTo, Types
        <4>3. QED
          BY <4>1, <4>2, <1>q
      <3>3. QED
        BY <3>1, <3>2
    <2>2. CASE Evict(p)
      <3>1. (queue = <<>> => queue' = <<>>) /\ UNCHANGED accepting /\ pc[p] = "evict"
        BY <2>2 DEF Evict
      <3>2. \A u \in Threads \ {p} : pc'[u] = pc[u]
        BY <2>2 DEF Evict, GoTo, Types
      <3>3. QED
        BY <3>1, <3>2, <1>q
    <2>3. CASE LookAccepting(p)
      BY <2>3 DEF LookAccepting, GoTo, Types
    <2>4. QED
      BY <1>3, <1>2, <2>1, <2>2, <2>3 DEF Offering
  <1>4. ASSUME NEW r \in Reporters, Reporting(r) PROVE StoppedHoldsNothing'
    <2>1. UNCHANGED <<queue, accepting>> /\ pc[r] = "report"
      BY <1>4 DEF Reporting, ReadOutstanding, Tell, Reported
    <2>2. \A u \in Threads \ {r} : pc'[u] = pc[u]
      BY <1>4 DEF Reporting, ReadOutstanding, Tell, Reported, GoTo, Types
    <2>3. QED
      BY <2>1, <2>2, <1>q
  <1>5. ASSUME NEW d \in Drains, Draining(d) PROVE StoppedHoldsNothing'
    <2>1. CASE Top(d) \/ Poll(d) \/ Deliver(d) \/ TakeLock(d)
      <3>1. (queue = <<>> => queue' = <<>>) /\ UNCHANGED accepting
        BY <2>1 DEF Top, Poll, Deliver, TakeLock
      <3>2. \A u \in Threads \ {d} : pc'[u] = pc[u]
        BY <2>1 DEF Top, Poll, Deliver, TakeLock, GoTo, Types
      <3>3. QED
        BY <3>1, <3>2, <1>q
    <2>2. QED
      BY <1>4, <1>5, <2>1 DEF Draining
  <1>6. CASE Start
    BY <1>6 DEF Start
  <1>7. CASE Unload
    <2>1. UNCHANGED <<queue, accepting>> /\ pc[Unloader] = "idle"
      BY <1>7 DEF Unload
    <2>2. \A u \in Threads \ {Unloader} : pc'[u] = pc[u]
      BY <1>7 DEF Unload, GoTo, Types
    <2>3. QED
      BY <2>1, <2>2, <1>q
  <1>8. CASE StopAccepting \/ StopDrain
    BY <1>8 DEF StopAccepting, StopDrain, GoTo, Types
  <1>9. CASE TryLock
    <2>1. UNCHANGED <<queue, accepting>> /\ pc[Unloader] = "try"
      BY <1>9 DEF TryLock
    <2>2. \A u \in Threads \ {Unloader} : pc'[u] = pc[u]
      BY <1>9 DEF TryLock, GoTo, Types
    <2>3. QED
      BY <2>1, <2>2, <1>q
  <1>10. CASE SinkChanges
    BY <1>10, <1>q DEF SinkChanges
  <1>11. QED
    BY <1>1, <1>2, <1>3, <1>4, <1>5, <1>6, <1>7, <1>8, <1>9, <1>10 DEF Next, Stopping

\* All of it, in every reachable state.
LEMMA RecordingIInv == Spec => []IInv
  <1>1. IInv /\ [Next]_vars => IInv'
    <2> SUFFICES ASSUME IInv, [Next]_vars PROVE IInv'
      OBVIOUS
    <2>1. CASE Next
      BY <2>1, TypesStep, LedgerStep, HoldsNothingStep DEF IInv
    <2>2. CASE UNCHANGED vars
      BY <2>2 DEF vars, captureVars, lifeVars, threadVars, ghostVars, IInv, Types,
                  Ledger, Unstarted, StoppedHoldsNothing
    <2>3. QED
      BY <2>1, <2>2
  <1>2. QED
    BY InitIInv, <1>1, PTL DEF Spec

\* However many drains a restarted capture has, whatever reports fail and
\* whatever is lost while one is being made, hx is never told of more losses
\* than there were.
THEOREM ToldHolds == Spec => []ToldIsLost
  <1>1. IInv => ToldIsLost
    BY DEF IInv, Ledger, ToldIsLost
  <1>2. QED
    BY <1>1, RecordingIInv, PTL

\* However offers fall around a stop, nothing is left in the queue of a
\* capture that has been stopped, once the threads offering have come out.
THEOREM StoppedHolds == Spec => []StoppedHoldsNothing
  <1>1. IInv => StoppedHoldsNothing
    BY DEF IInv
  <1>2. QED
    BY <1>1, RecordingIInv, PTL

----------------------------------------------------------------------------
(* Every record is somewhere, and in one place. *)

One(x, s) == IF x = s THEN 1 ELSE 0

\* A proxy thread that is not offering has nothing left to offer.
MineFits == \A p \in Proxies : pc[p] \in {"idle", "look"} => mine[p] = None

\* A drain holds the one record it is about to deliver, and otherwise none.
DrainHand == \A d \in Drains :
    IF pc[d] = "deliver" THEN \E s : hand[d] = More(Nothing, s) ELSE hand[d] = Nothing

\* However many threads there are, only finitely many hold or offer anything.
FewHold == \A s \in Sources : IsFiniteSet(Held(s)) /\ IsFiniteSet(Offered(s))

AccountInv ==
    /\ due \in Counter /\ delivered \in Counter
    /\ MineFits
    /\ DrainHand
    /\ FewHold
    /\ Accounted

\* One more in a counter, read back.
LEMMA MoreAt ==
    ASSUME NEW f \in Counter, NEW s, NEW x \in Sources
    PROVE  More(f, s)[x] = f[x] + One(x, s)
  BY DEF More, Counter, One

\* A thread's share of what is held.
LEMMA Share ==
    ASSUME NEW t, NEW n \in Nat
    PROVE  IsFiniteSet({t} \X (1..n)) /\ Cardinality({t} \X (1..n)) = n
  <1>1. IsFiniteSet(1..n) /\ Cardinality(1..n) = n
    BY FS_Interval
  <1>2. IsFiniteSet({t}) /\ Cardinality({t}) = 1
    BY FS_Singleton
  <1>3. QED
    BY SMTT(30), <1>1, <1>2, FS_Product

\* What is held changes by what the one thread that moved has gained or lost.
LEMMA HeldChange ==
    ASSUME NEW t \in Threads, NEW s, IsFiniteSet(Held(s)),
           hand[t][s] \in Nat, hand'[t][s] \in Nat,
           \A u \in Threads \ {t} : hand'[u][s] = hand[u][s]
    PROVE  /\ IsFiniteSet(Held(s)')
           /\ Cardinality(Held(s)') + hand[t][s] = Cardinality(Held(s)) + hand'[t][s]
  <1> DEFINE Rest == UNION { {u} \X (1..hand[u][s]) : u \in Threads \ {t} }
             Old  == {t} \X (1..hand[t][s])
             New  == {t} \X (1..hand'[t][s])
  <1>1. Held(s) = Rest \cup Old /\ Rest \cap Old = {}
    BY DEF Held
  <1>2. Held(s)' = Rest \cup New /\ Rest \cap New = {}
    BY DEF Held
  <1>3. /\ IsFiniteSet(Old) /\ Cardinality(Old) = hand[t][s]
        /\ IsFiniteSet(New) /\ Cardinality(New) = hand'[t][s]
    BY Share
  <1> HIDE DEF Rest, Old, New
  <1>4. IsFiniteSet(Rest) /\ Cardinality(Rest) \in Nat
    BY <1>1, FS_Subset, FS_CardinalityType
  <1>0. Cardinality({}) = 0
    BY FS_EmptySet
  <1>5. Cardinality(Held(s)) = Cardinality(Rest) + Cardinality(Old)
    <2>1. Cardinality(Rest \cup Old)
             = Cardinality(Rest) + Cardinality(Old) - Cardinality(Rest \cap Old)
      BY <1>3, <1>4, FS_Union
    <2>2. Cardinality(Rest \cap Old) = 0 /\ Cardinality(Held(s)) = Cardinality(Rest \cup Old)
      BY <1>0, <1>1
    <2>3. Cardinality(Old) \in Nat
      BY <1>3
    <2>4. QED
      BY <1>4, <2>1, <2>2, <2>3
  <1>6. /\ IsFiniteSet(Held(s)')
        /\ Cardinality(Held(s)') = Cardinality(Rest) + Cardinality(New)
    <2>1. /\ IsFiniteSet(Rest \cup New)
          /\ Cardinality(Rest \cup New)
               = Cardinality(Rest) + Cardinality(New) - Cardinality(Rest \cap New)
      BY <1>3, <1>4, FS_Union
    <2>2. /\ Cardinality(Rest \cap New) = 0
          /\ Held(s)' = Rest \cup New
      BY <1>0, <1>2
    <2>3. Cardinality(New) \in Nat
      BY <1>3
    <2>4. QED
      BY <1>4, <2>1, <2>2, <2>3
  <1>7. QED
    BY <1>3, <1>4, <1>5, <1>6

\* A thread takes a record up to offer it.
LEMMA OfferedUp ==
    ASSUME NEW p \in Proxies, mine \in [Proxies -> {None} \cup Spelled], mine[p] = None,
           NEW s, mine' = [mine EXCEPT ![p] = s],
           NEW x \in Sources, IsFiniteSet(Offered(x))
    PROVE  /\ IsFiniteSet(Offered(x)')
           /\ Cardinality(Offered(x)') = Cardinality(Offered(x)) + One(x, s)
  <1>1. x # None
    BY RecordingAssumption
  <1>2. CASE x = s
    <2>1. Offered(x)' = Offered(x) \cup {p} /\ p \notin Offered(x)
      BY <1>1, <1>2 DEF Offered
    <2>2. QED
      BY <1>2, <2>1, FS_AddElement DEF One
  <1>3. CASE x # s
    <2>1. Offered(x)' = Offered(x)
      BY <1>1, <1>3 DEF Offered
    <2>2. QED
      BY <1>3, <2>1, FS_CardinalityType DEF One
  <1>4. QED
    BY <1>2, <1>3

\* The record it was offering is in.
LEMMA OfferedDown ==
    ASSUME NEW p \in Proxies, mine \in [Proxies -> {None} \cup Spelled],
           mine' = [mine EXCEPT ![p] = None],
           NEW x \in Sources, IsFiniteSet(Offered(x))
    PROVE  /\ IsFiniteSet(Offered(x)')
           /\ Cardinality(Offered(x)) = Cardinality(Offered(x)') + One(x, mine[p])
  <1>1. x # None
    BY RecordingAssumption
  <1>0. Cardinality(Offered(x)) \in Nat
    BY FS_CardinalityType
  <1>2. CASE x = mine[p]
    <2>1. Offered(x)' = Offered(x) \ {p} /\ p \in Offered(x)
      BY <1>1, <1>2 DEF Offered
    <2>2. /\ IsFiniteSet(Offered(x)')
          /\ Cardinality(Offered(x)') = Cardinality(Offered(x)) - 1
      BY <2>1, FS_RemoveElement
    <2>3. QED
      BY <1>0, <1>2, <2>2 DEF One
  <1>3. CASE x # mine[p]
    <2>1. Offered(x)' = Offered(x)
      BY <1>1, <1>3 DEF Offered
    <2>2. QED
      BY <1>0, <1>3, <2>1 DEF One
  <1>4. QED
    BY <1>2, <1>3

\* The queue gains the record put at its end ...
LEMMA QueuedAppend ==
    ASSUME queue \in Seq({None} \cup Spelled), NEW e \in {None} \cup Spelled,
           queue' = Append(queue, e), NEW x
    PROVE  Queued(x)' = Queued(x) + One(x, e)
  <1> DEFINE At  == { i \in 1..Len(queue) : queue[i] = x }
             Now == { i \in 1..Len(queue') : queue'[i] = x }
  <1>1. IsFiniteSet(At)
    <2>1. IsFiniteSet(1..Len(queue)) /\ At \subseteq 1..Len(queue)
      BY FS_Interval
    <2>2. QED
      BY <2>1, FS_Subset
  <1>2. Cardinality(At) \in Nat
    BY <1>1, FS_CardinalityType
  <1>3. /\ Len(queue) \in Nat /\ Len(queue') = Len(queue) + 1
        /\ queue'[Len(queue) + 1] = e
        /\ \A i \in 1..Len(queue) : queue'[i] = queue[i]
    OBVIOUS
  <1>4. Queued(x) = Cardinality(At) /\ Queued(x)' = Cardinality(Now)
    BY DEF Queued
  <1>5. CASE x = e
    <2>1. Now = At \cup {Len(queue) + 1} /\ Len(queue) + 1 \notin At
      BY <1>3, <1>5
    <2> HIDE DEF At, Now
    <2>2. Cardinality(Now) = Cardinality(At) + 1
      BY <1>1, <2>1, FS_AddElement
    <2>3. QED
      BY <1>4, <1>5, <2>2 DEF One
  <1>6. CASE x # e
    <2>1. Now = At
      BY <1>3, <1>6
    <2> HIDE DEF At, Now
    <2>2. Queued(x)' = Queued(x) /\ Queued(x) \in Nat
      BY <1>2, <1>4, <2>1
    <2>3. QED
      BY <1>6, <2>2 DEF One
  <1>7. QED
    BY <1>5, <1>6

\* ... and loses the one taken from its head.
LEMMA QueuedTail ==
    ASSUME queue \in Seq({None} \cup Spelled), queue # <<>>,
           queue' = Tail(queue), NEW x
    PROVE  Queued(x)' \in Nat /\ Queued(x) = Queued(x)' + One(x, Head(queue))
  <1> DEFINE At    == { i \in 1..Len(queue) : queue[i] = x }
             Now   == { i \in 1..Len(queue') : queue'[i] = x }
             Later == { i \in 2..Len(queue) : queue[i] = x }
             Up    == [ i \in Now |-> i + 1 ]
  <1>1. IsFiniteSet(Now)
    <2>1. Len(queue') \in Nat
      OBVIOUS
    <2>2. IsFiniteSet(1..Len(queue')) /\ Now \subseteq 1..Len(queue')
      BY <2>1, FS_Interval
    <2>3. QED
      BY <2>2, FS_Subset
  <1>2. Cardinality(Now) \in Nat
    BY <1>1, FS_CardinalityType
  <1>3. /\ Len(queue) \in Nat \ {0} /\ Len(queue') = Len(queue) - 1
        /\ Head(queue) = queue[1]
        /\ \A i \in 1..Len(queue') : queue'[i] = queue[i + 1]
    OBVIOUS
  <1>4. Queued(x) = Cardinality(At) /\ Queued(x)' = Cardinality(Now)
    BY DEF Queued
  <1>5. Up \in Bijection(Now, Later)
    <2>1. Up \in [Now -> Later]
      BY <1>3
    <2>2. \A i, j \in Now : Up[i] = Up[j] => i = j
      BY <1>3
    <2>3. ASSUME NEW k \in Later PROVE \E i \in Now : Up[i] = k
      <3>1. k - 1 \in Now /\ Up[k - 1] = k
        BY <1>3
      <3>2. QED
        BY <3>1
    <2> HIDE DEF Up, Now, Later
    <2>4. QED
      BY <2>1, <2>2, <2>3 DEF Bijection, Injection, Surjection, IsInjective
  <1>6. IsFiniteSet(Later) /\ Cardinality(Later) = Cardinality(Now)
    <2> HIDE DEF Up, Now, Later
    <2>1. QED
      BY <1>1, <1>5, FS_Bijection DEF ExistsBijection
  <1>7. CASE x = Head(queue)
    <2>1. At = Later \cup {1} /\ 1 \notin Later
      BY <1>3, <1>7
    <2> HIDE DEF At, Now, Later
    <2>2. Cardinality(At) = Cardinality(Later) + 1
      BY <1>6, <2>1, FS_AddElement
    <2>3. QED
      BY <1>2, <1>4, <1>6, <1>7, <2>2 DEF One
  <1>8. CASE x # Head(queue)
    <2>1. At = Later
      BY <1>3, <1>8
    <2> HIDE DEF At, Now, Later
    <2>2. QED
      BY <1>2, <1>4, <1>6, <1>8, <2>1 DEF One
  <1>9. QED
    BY <1>7, <1>8

\* How many there are of a source, in each place.
LEMMA Counts ==
    ASSUME Types, AccountInv, NEW x \in Sources
    PROVE  /\ due[x] \in Nat /\ delivered[x] \in Nat /\ dropped[x] \in Nat
           /\ Queued(x) \in Nat
           /\ IsFiniteSet(Held(x)) /\ Cardinality(Held(x)) \in Nat
           /\ IsFiniteSet(Offered(x)) /\ Cardinality(Offered(x)) \in Nat
           /\ due[x] = delivered[x] + dropped[x]
                        + (Cardinality(Held(x)) + Cardinality(Offered(x))) + Queued(x)
  BY QueuedIsNat, FS_CardinalityType
     DEF Types, AccountInv, FewHold, Accounted, InHand, Counter

\* A step that moves no record.
LEMMA NothingMoves ==
    ASSUME AccountInv, UNCHANGED <<due, delivered, dropped, hand, mine, queue>>,
           MineFits', DrainHand'
    PROVE  AccountInv'
  <1>1. \A s \in Sources : Held(s)' = Held(s) /\ Offered(s)' = Offered(s)
    BY DEF Held, Offered
  <1>2. \A s \in Sources : Queued(s)' = Queued(s)
    BY DEF Queued
  <1>3. FewHold'
    BY <1>1 DEF AccountInv, FewHold
  <1>4. Accounted'
    BY <1>1, <1>2 DEF AccountInv, Accounted, InHand
  <1>5. QED
    BY <1>3, <1>4 DEF AccountInv

\* Nobody has a record yet.
LEMMA InitAccount == Init => AccountInv
  <1> SUFFICES ASSUME Init PROVE AccountInv
    OBVIOUS
  <1>1. Nothing \in Counter /\ \A s \in Sources : Nothing[s] = 0
    BY DEF Nothing, Counter
  <1>2. MineFits /\ DrainHand
    BY ThreadsApart DEF Init, MineFits, DrainHand
  <1>3. ASSUME NEW s \in Sources PROVE Held(s) = {} /\ Offered(s) = {} /\ Queued(s) = Cardinality({})
    <2>1. Held(s) = {}
      BY <1>1, <1>3 DEF Init, Held
    <2>2. Offered(s) = {}
      BY <1>3, RecordingAssumption DEF Init, Offered
    <2>3. { i \in 1..Len(queue) : queue[i] = s } = {}
      BY DEF Init
    <2>4. QED
      BY <2>1, <2>2, <2>3 DEF Queued
  <1>4. IsFiniteSet({}) /\ Cardinality({}) = 0
    BY FS_EmptySet
  <1>5. FewHold
    BY <1>3, <1>4 DEF FewHold
  <1>6. Accounted
    <2>1. ASSUME NEW s \in Sources PROVE InHand(s) = 0 /\ Queued(s) = 0
      BY <1>3, <1>4 DEF InHand
    <2>2. due = Nothing /\ delivered = Nothing /\ dropped = Nothing
      BY DEF Init
    <2>3. QED
      BY <1>1, <2>1, <2>2 DEF Accounted
  <1>7. QED
    BY <1>1, <1>2, <1>5, <1>6 DEF AccountInv, Init

\* One thread moves between two places that are neither a delivery nor an
\* offer made or put down, and what the drains hold stays as it is.
LEMMA PlaceFits ==
    ASSUME Types, MineFits, DrainHand, NEW t \in Threads, NEW l, GoTo(t, l),
           UNCHANGED <<mine, hand>>,
           t \in Proxies /\ l \in {"idle", "look"} => mine[t] = None,
           t \in Drains => (pc[t] = "deliver" <=> l = "deliver")
    PROVE  MineFits' /\ DrainHand'
  <1>1. pc'[t] = l /\ \A u \in Threads \ {t} : pc'[u] = pc[u]
    BY DEF GoTo, Types
  <1>2. MineFits'
    BY <1>1, ThreadsApart DEF MineFits
  <1>3. DrainHand'
    BY <1>1, ThreadsApart DEF DrainHand
  <1>4. QED
    BY <1>2, <1>3

\* The books of one source.
FitsAt(x) ==
    /\ IsFiniteSet(Held(x)) /\ IsFiniteSet(Offered(x))
    /\ due[x] = delivered[x] + dropped[x] + InHand(x) + Queued(x)

LEMMA FitsEverywhere ==
    ASSUME due' \in Counter, delivered' \in Counter, MineFits', DrainHand',
           \A x \in Sources : FitsAt(x)'
    PROVE  AccountInv'
  BY DEF AccountInv, FewHold, Accounted, FitsAt

\* The handlers: what becomes due is in the proxy thread's hand or is lost.
LEMMA ArrivesAccount ==
    ASSUME Types, AccountInv, NEW p \in Proxies, pc[p] = "idle", NEW s,
           due' = More(due, s), UNCHANGED <<queue, hand, delivered>>,
           \/ Offers(p, s)
           \/ dropped' = More(dropped, s) /\ UNCHANGED <<mine, pc>>
    PROVE  AccountInv'
  <1> USE ThreadsApart
  <1>0. due \in Counter /\ delivered \in Counter /\ dropped \in Counter /\ mine[p] = None
    BY DEF AccountInv, MineFits, Types
  <1>1. due' \in Counter /\ delivered' \in Counter
    BY <1>0, MoreGrows
  <1>2. \A x \in Sources : due'[x] = due[x] + One(x, s)
    BY <1>0, MoreAt
  <1>3. \A x \in Sources : One(x, s) \in Nat
    BY DEF One
  <1>4. ASSUME NEW x \in Sources PROVE Held(x)' = Held(x) /\ Queued(x)' = Queued(x)
    BY DEF Held, Queued
  <1>5. CASE dropped' = More(dropped, s) /\ UNCHANGED <<mine, pc>>
    <2>1. MineFits' /\ DrainHand'
      BY <1>5 DEF AccountInv, MineFits, DrainHand
    <2>2. ASSUME NEW x \in Sources PROVE FitsAt(x)'
      <3>1. Offered(x)' = Offered(x) /\ dropped'[x] = dropped[x] + One(x, s)
        BY <1>0, <1>5, MoreAt DEF Offered
      <3>2. QED
        BY <3>1, <1>2, <1>3, <1>4, Counts DEF FitsAt, InHand
    <2>3. QED
      BY <1>1, <2>1, <2>2, FitsEverywhere
  <1>6. CASE s \in Spelled /\ Offers(p, s)
    <2>1. /\ mine' = [mine EXCEPT ![p] = s] /\ UNCHANGED dropped
          /\ pc'[p] = "offer" /\ \A u \in Threads \ {p} : pc'[u] = pc[u]
      BY <1>6 DEF Offers, GoTo, Types
    <2>2. MineFits' /\ DrainHand'
      BY <2>1 DEF AccountInv, MineFits, DrainHand, Types
    <2>3. ASSUME NEW x \in Sources PROVE FitsAt(x)'
      <3>1. /\ IsFiniteSet(Offered(x)')
            /\ Cardinality(Offered(x)') = Cardinality(Offered(x)) + One(x, s)
        BY <1>0, <2>1, OfferedUp, Counts DEF Types
      <3>2. QED
        BY <2>1, <3>1, <1>2, <1>3, <1>4, Counts DEF FitsAt, InHand
    <2>4. QED
      BY <1>1, <2>2, <2>3, FitsEverywhere
  <1>7. QED
    BY <1>5, <1>6 DEF Offers

LEMMA HandleAccount ==
    ASSUME Types, AccountInv, NEW p \in Proxies, Handle(p)
    PROVE  AccountInv'
  <1>1. CASE \E s \in Spelled : RequestAllowed(p, s)
    <2>1. UNCHANGED <<due, delivered, dropped, hand, mine, queue, pc>>
      BY <1>1 DEF RequestAllowed, captureVars, threadVars
    <2>2. MineFits' /\ DrainHand'
      BY <2>1 DEF AccountInv, MineFits, DrainHand
    <2>3. QED
      BY <2>1, <2>2, NothingMoves
  <1>2. CASE \E s \in Sources : RequestDenied(p, s)
    BY <1>2, ArrivesAccount DEF RequestDenied
  <1>3. CASE DenialUnrecorded(p)
    <2>1. UNCHANGED <<due, delivered, dropped, hand, mine, queue, pc>>
      BY <1>3 DEF DenialUnrecorded, captureVars, threadVars
    <2>2. MineFits' /\ DrainHand'
      BY <2>1 DEF AccountInv, MineFits, DrainHand
    <2>3. QED
      BY <2>1, <2>2, NothingMoves
  <1>4. CASE \E m \in 1..messages : Response(p, m)
    <2>1. PICK s : /\ pc[p] = "idle" /\ due' = More(due, s)
                   /\ UNCHANGED <<queue, hand, delivered>>
                   /\ \/ Offers(p, s)
                      \/ dropped' = More(dropped, s) /\ UNCHANGED <<mine, pc>>
      BY <1>4 DEF Response
    <2>2. QED
      BY <2>1, ArrivesAccount
  <1>5. QED
    BY <1>1, <1>2, <1>3, <1>4 DEF Handle

\* A thread has taken n more: that much more is held.
LEMMA HeldGain ==
    ASSUME NEW t \in Threads, NEW s, IsFiniteSet(Held(s)), NEW n \in Nat,
           hand[t][s] \in Nat, hand'[t][s] = hand[t][s] + n,
           \A u \in Threads \ {t} : hand'[u][s] = hand[u][s]
    PROVE  /\ IsFiniteSet(Held(s)')
           /\ Cardinality(Held(s)') = Cardinality(Held(s)) + n
  <1>1. /\ IsFiniteSet(Held(s)')
        /\ Cardinality(Held(s)') + hand[t][s] = Cardinality(Held(s)) + hand'[t][s]
    BY HeldChange
  <1>2. Cardinality(Held(s)) \in Nat /\ Cardinality(Held(s)') \in Nat
    BY <1>1, FS_CardinalityType
  <1>3. QED
    BY <1>1, <1>2

\* One record goes from the queue into a thread's hand.
LEMMA TakenAccount ==
    ASSUME Types, Types', AccountInv, NEW t \in Threads, queue # <<>>,
           hand' = [hand EXCEPT ![t] = More(@, Head(queue))], queue' = Tail(queue),
           UNCHANGED <<due, delivered, dropped, mine>>, MineFits', DrainHand'
    PROVE  AccountInv'
  <1>0. PICK h : h = Head(queue)
    OBVIOUS
  <1>1. ASSUME NEW x \in Sources PROVE FitsAt(x)'
    <2>1. Queued(x) = Queued(x)' + One(x, h) /\ Queued(x)' \in Nat
      BY <1>0, QueuedTail DEF Types
    <2>2. hand[t] \in Counter /\ hand'[t] = More(hand[t], h)
      BY <1>0 DEF Types
    <2>3. hand'[t][x] = hand[t][x] + One(x, h) /\ hand[t][x] \in Nat /\ hand'[t][x] \in Nat
      BY <2>2, MoreAt, MoreGrows DEF Counter, One
    <2>4. \A u \in Threads \ {t} : hand'[u][x] = hand[u][x]
      BY DEF Types
    <2>5. /\ IsFiniteSet(Held(x)')
          /\ Cardinality(Held(x)') = Cardinality(Held(x)) + One(x, h)
      <3>1. One(x, h) \in Nat
        BY DEF One
      <3>2. QED
        BY <2>3, <2>4, <3>1, Counts, HeldGain
    <2>6. Offered(x)' = Offered(x) /\ One(x, h) \in Nat
      BY DEF Offered, One
    <2>7. /\ due[x] = delivered[x] + dropped[x]
                      + (Cardinality(Held(x)) + Cardinality(Offered(x))) + Queued(x)
          /\ due[x] \in Nat /\ delivered[x] \in Nat /\ dropped[x] \in Nat
          /\ IsFiniteSet(Offered(x))
          /\ Cardinality(Held(x)) \in Nat /\ Cardinality(Offered(x)) \in Nat
      BY Counts
    <2>8. due[x] = delivered[x] + dropped[x]
                   + (Cardinality(Held(x)') + Cardinality(Offered(x))) + Queued(x)'
      BY SMTT(30), <2>1, <2>5, <2>6, <2>7
    <2>9. QED
      BY <2>5, <2>6, <2>7, <2>8 DEF FitsAt, InHand
  <1>2. QED
    BY <1>1, FitsEverywhere DEF AccountInv

\* The queue is emptied into a thread's hand.
LEMMA DiscardAccount ==
    ASSUME Types, AccountInv, NEW t \in Threads, t \notin Drains, Discard(t)
    PROVE  AccountInv'
  <1>1. /\ pc'[t] = "count" /\ \A u \in Threads \ {t} : pc'[u] = pc[u]
        /\ UNCHANGED <<mine, due, delivered, dropped>> /\ queue' = <<>>
    BY DEF Discard, GoTo, Types, ghostVars
  <1>2. \A u \in Threads \ {t} : hand'[u] = hand[u]
    BY DEF Discard, Types
  <1>3. MineFits'
    BY <1>1, ThreadsApart DEF MineFits, AccountInv
  <1>4. DrainHand'
    BY <1>1, <1>2, ThreadsApart DEF DrainHand, AccountInv
  <1>5. ASSUME NEW x \in Sources PROVE FitsAt(x)'
    <2>1. Queued(x) \in Nat
      BY Counts
    <2>2. hand[t] \in Counter /\ hand'[t] = [s \in Sources |-> hand[t][s] + Queued(s)]
      BY DEF Discard, Types
    <2>3. hand[t][x] \in Nat /\ hand'[t][x] = hand[t][x] + Queued(x)
      BY <2>2 DEF Counter
    <2>4. /\ IsFiniteSet(Held(x)')
          /\ Cardinality(Held(x)') = Cardinality(Held(x)) + Queued(x)
      BY <1>2, <2>1, <2>3, Counts, HeldGain
    <2>5. Queued(x)' = 0
      <3>1. { i \in 1..Len(queue') : queue'[i] = x } = {}
        BY <1>1
      <3>2. QED
        BY <3>1, FS_EmptySet DEF Queued
    <2>6. Offered(x)' = Offered(x)
      BY <1>1 DEF Offered
    <2>7. QED
      BY <1>1, <2>1, <2>4, <2>5, <2>6, Counts DEF FitsAt, InHand
  <1>6. QED
    BY <1>1, <1>3, <1>4, <1>5, FitsEverywhere DEF AccountInv

\* What a thread no longer holds is added to another total.
LEMMA HeldLoss ==
    ASSUME NEW t \in Threads, NEW s, IsFiniteSet(Held(s)),
           hand[t][s] \in Nat, hand'[t][s] \in Nat,
           \A u \in Threads \ {t} : hand'[u][s] = hand[u][s],
           NEW lost \in Nat, NEW lostNow \in Nat,
           lostNow + hand'[t][s] = lost + hand[t][s]
    PROVE  /\ IsFiniteSet(Held(s)')
           /\ lostNow + Cardinality(Held(s)') = lost + Cardinality(Held(s))
  <1>1. /\ IsFiniteSet(Held(s)')
        /\ Cardinality(Held(s)') + hand[t][s] = Cardinality(Held(s)) + hand'[t][s]
    BY HeldChange
  <1>2. Cardinality(Held(s)) \in Nat /\ Cardinality(Held(s)') \in Nat
    BY <1>1, FS_CardinalityType
  <1>3. QED
    BY <1>1, <1>2

\* What a thread holds of one source is counted as lost.
LEMMA CountOneAccount ==
    ASSUME Types, AccountInv, NEW t \in Threads, t \notin Drains, CountOne(t)
    PROVE  AccountInv'
  <1>1. PICK c \in Sources : /\ dropped' = [dropped EXCEPT ![c] = @ + hand[t][c]]
                             /\ hand' = [hand EXCEPT ![t][c] = 0]
    BY DEF CountOne
  <1>2. UNCHANGED <<pc, mine, queue, due, delivered>>
    BY DEF CountOne, ghostVars
  <1>3. \A u \in Threads \ {t} : hand'[u] = hand[u]
    BY <1>1 DEF Types
  <1>4. MineFits' /\ DrainHand'
    BY <1>2, <1>3, ThreadsApart DEF MineFits, DrainHand, AccountInv
  <1>5. hand[t] \in Counter /\ hand'[t] = [hand[t] EXCEPT ![c] = 0]
    BY <1>1 DEF Types
  <1>6. ASSUME NEW x \in Sources PROVE FitsAt(x)'
    <2>1. /\ hand[t][x] \in Nat /\ hand'[t][x] \in Nat
          /\ dropped'[x] + hand'[t][x] = dropped[x] + hand[t][x]
          /\ dropped'[x] \in Nat
      <3>1. hand[t][x] \in Nat /\ dropped[x] \in Nat
        BY <1>5 DEF Counter, Types
      <3>2. CASE x = c
        <4>1. hand'[t][x] = 0 /\ dropped'[x] = dropped[x] + hand[t][x]
          BY <1>1, <1>5, <3>2 DEF Counter, Types
        <4>2. QED
          BY <3>1, <4>1
      <3>3. CASE x # c
        <4>1. hand'[t][x] = hand[t][x] /\ dropped'[x] = dropped[x]
          BY <1>1, <1>5, <3>3 DEF Counter, Types
        <4>2. QED
          BY <3>1, <4>1
      <3>4. QED
        BY <3>2, <3>3
    <2>2. /\ IsFiniteSet(Held(x)')
          /\ dropped'[x] + Cardinality(Held(x)') = dropped[x] + Cardinality(Held(x))
      BY <1>3, <2>1, Counts, HeldLoss
    <2>3. Cardinality(Held(x)') \in Nat
      BY <2>2, FS_CardinalityType
    <2>4. Offered(x)' = Offered(x) /\ Queued(x)' = Queued(x)
      BY <1>2 DEF Offered, Queued
    <2>5. /\ due[x] = delivered[x] + dropped[x]
                      + (Cardinality(Held(x)) + Cardinality(Offered(x))) + Queued(x)
          /\ due[x] \in Nat /\ delivered[x] \in Nat /\ dropped[x] \in Nat /\ Queued(x) \in Nat
          /\ IsFiniteSet(Offered(x))
          /\ Cardinality(Held(x)) \in Nat /\ Cardinality(Offered(x)) \in Nat
      BY Counts
    <2>6. due[x] = delivered[x] + dropped'[x]
                   + (Cardinality(Held(x)') + Cardinality(Offered(x))) + Queued(x)
      BY <2>1, <2>2, <2>3, <2>5
    <2>7. QED
      BY <1>2, <2>2, <2>4, <2>5, <2>6 DEF FitsAt, InHand
  <1>7. QED
    BY <1>2, <1>4, <1>6, FitsEverywhere DEF AccountInv

LEMMA CountingAccount ==
    ASSUME Types, AccountInv, NEW t \in Threads, t \notin Drains, Counting(t)
    PROVE  AccountInv'
  <1>1. CASE Counted(t)
    <2>1. UNCHANGED <<due, delivered, dropped, hand, mine, queue>>
      BY <1>1 DEF Counted, captureVars, ghostVars
    <2>2. PICK l : GoTo(t, l) /\ (t \in Proxies /\ l \in {"idle", "look"} => mine[t] = None)
      BY <1>1, ThreadsApart DEF Counted
    <2>3. MineFits' /\ DrainHand'
      BY <2>1, <2>2, PlaceFits DEF AccountInv
    <2>4. QED
      BY <2>1, <2>3, NothingMoves
  <1>2. QED
    BY <1>1, DiscardAccount, CountOneAccount DEF Counting

\* A record goes from the proxy thread that offers it into the queue.
LEMMA EnqueueAccount ==
    ASSUME Types, AccountInv, NEW p \in Proxies, Enqueue(p)
    PROVE  AccountInv'
  <1> USE ThreadsApart
  <1>0. p \notin Drains
    BY RecordingAssumption DEF Reporters
  <1>1. CASE Len(queue) < Capacity
    <2>1. /\ queue' = Append(queue, mine[p]) /\ mine' = [mine EXCEPT ![p] = None]
          /\ UNCHANGED <<due, delivered, dropped, hand>> /\ GoTo(p, "look")
      BY <1>1 DEF Enqueue, ghostVars
    <2>2. pc'[p] = "look" /\ \A u \in Threads \ {p} : pc'[u] = pc[u]
      BY <2>1 DEF GoTo, Types
    <2>3. mine[p] \in {None} \cup Spelled /\ mine'[p] = None
          /\ \A q \in Proxies \ {p} : mine'[q] = mine[q]
      BY <2>1 DEF Types
    <2>4. MineFits' /\ DrainHand'
      BY <1>0, <2>1, <2>2, <2>3 DEF MineFits, DrainHand, AccountInv
    <2>5. ASSUME NEW x \in Sources PROVE FitsAt(x)'
      <3>1. Queued(x)' = Queued(x) + One(x, mine[p])
        BY <2>1, <2>3, QueuedAppend DEF Types
      <3>2. /\ IsFiniteSet(Offered(x)')
            /\ Cardinality(Offered(x)) = Cardinality(Offered(x)') + One(x, mine[p])
        BY <2>1, Counts, OfferedDown DEF Types
      <3>3. Held(x)' = Held(x)
        BY <2>1 DEF Held
      <3>4. Cardinality(Offered(x)') \in Nat /\ One(x, mine[p]) \in Nat
        BY <3>2, FS_CardinalityType DEF One
      <3>5. QED
        BY SMTT(30), <2>1, <3>1, <3>2, <3>3, <3>4, Counts DEF FitsAt, InHand
    <2>6. QED
      BY <2>1, <2>4, <2>5, FitsEverywhere DEF AccountInv
  <1>2. CASE ~(Len(queue) < Capacity)
    <2>1. UNCHANGED <<due, delivered, dropped, hand, mine, queue>> /\ GoTo(p, "evict")
      BY <1>2 DEF Enqueue, ghostVars
    <2>2. MineFits' /\ DrainHand'
      BY <1>0, <2>1, PlaceFits DEF AccountInv
    <2>3. QED
      BY <2>1, <2>2, NothingMoves
  <1>3. QED
    BY <1>1, <1>2

LEMMA OfferingAccount ==
    ASSUME Types, Types', AccountInv, NEW p \in Proxies, Offering(p)
    PROVE  AccountInv'
  <1> USE ThreadsApart
  <1>0. p \notin Drains
    BY RecordingAssumption DEF Reporters
  <1>1. CASE Evict(p)
    <2>1. UNCHANGED <<due, delivered, dropped, mine>> /\ GoTo(p, "count")
      BY <1>1 DEF Evict, ghostVars
    <2>2. pc'[p] = "count" /\ \A u \in Threads \ {p} : pc'[u] = pc[u]
      BY <2>1 DEF GoTo, Types
    <2>3. \A u \in Threads \ {p} : hand'[u] = hand[u]
      BY <1>1 DEF Evict, Types
    <2>4. MineFits' /\ DrainHand'
      BY <1>0, <2>1, <2>2, <2>3 DEF MineFits, DrainHand, AccountInv
    <2>5. CASE queue = <<>>
      BY <1>1, <2>1, <2>4, <2>5, NothingMoves DEF Evict
    <2>6. CASE queue # <<>>
      BY <1>1, <2>1, <2>4, <2>6, TakenAccount DEF Evict
    <2>7. QED
      BY <2>5, <2>6
  <1>2. CASE LookAccepting(p)
    <2>1. UNCHANGED <<due, delivered, dropped, hand, mine, queue>> /\ pc[p] = "look"
      BY <1>2 DEF LookAccepting, captureVars, ghostVars
    <2>2. mine[p] = None
      BY <2>1 DEF AccountInv, MineFits
    <2>3. PICK l : GoTo(p, l)
      BY <1>2 DEF LookAccepting
    <2>4. MineFits' /\ DrainHand'
      BY <1>0, <2>1, <2>2, <2>3, PlaceFits DEF AccountInv
    <2>5. QED
      BY <2>1, <2>4, NothingMoves
  <1>3. QED
    BY <1>0, <1>1, <1>2, EnqueueAccount, CountingAccount DEF Offering

\* A drain's one record goes to the bridge or is lost.
LEMMA DeliverAccount ==
    ASSUME Types, Types', AccountInv, NEW d \in Drains, Deliver(d)
    PROVE  AccountInv'
  <1> USE ThreadsApart
  <1>1. PICK s \in Sources :
          /\ hand[d][s] > 0
          /\ \/ delivered' = More(delivered, s) /\ UNCHANGED dropped
             \/ dropped' = More(dropped, s) /\ UNCHANGED delivered
    BY DEF Deliver
  <1>2. /\ pc[d] = "deliver" /\ UNCHANGED <<due, mine, queue>>
        /\ hand'[d] = Nothing /\ \A u \in Threads \ {d} : hand'[u] = hand[u]
        /\ pc'[d] = "lock" /\ \A u \in Threads \ {d} : pc'[u] = pc[u]
    BY DEF Deliver, GoTo, Types
  <1>0. Nothing \in Counter /\ \A x \in Sources : Nothing[x] = 0
    BY DEF Nothing, Counter
  <1>3. hand[d] = More(Nothing, s)
    <2>1. PICK c : hand[d] = More(Nothing, c)
      BY <1>2 DEF AccountInv, DrainHand
    <2>2. hand[d][s] = One(s, c)
      BY <1>0, <2>1, MoreAt DEF One
    <2>3. QED
      BY <1>1, <2>1, <2>2 DEF One
  <1>4. MineFits' /\ DrainHand'
    BY <1>2 DEF MineFits, DrainHand, AccountInv
  <1>5. delivered \in Counter /\ dropped \in Counter /\ delivered' \in Counter
    BY <1>1, MoreGrows DEF AccountInv, Types
  <1>6. ASSUME NEW x \in Sources PROVE FitsAt(x)'
    <2>1. One(x, s) \in Nat
      BY DEF One
    <2>2. hand'[d][x] = 0 /\ hand[d][x] = One(x, s)
      BY <1>0, <1>2, <1>3, <2>1, MoreAt
    <2>3. /\ IsFiniteSet(Held(x)')
          /\ Cardinality(Held(x)') + hand[d][x] = Cardinality(Held(x)) + hand'[d][x]
      BY <1>2, <2>1, <2>2, Counts, HeldChange
    <2>4. Cardinality(Held(x)') + One(x, s) = Cardinality(Held(x))
      BY <2>2, <2>3, Counts
    <2>5. delivered'[x] + dropped'[x] = delivered[x] + dropped[x] + One(x, s)
      BY <1>1, <1>5, <2>1, MoreAt, Counts
    <2>6. Offered(x)' = Offered(x) /\ Queued(x)' = Queued(x)
      BY <1>2 DEF Offered, Queued
    <2>7. /\ due[x] = delivered[x] + dropped[x]
                      + (Cardinality(Held(x)) + Cardinality(Offered(x))) + Queued(x)
          /\ due[x] \in Nat /\ delivered[x] \in Nat /\ dropped[x] \in Nat /\ Queued(x) \in Nat
          /\ IsFiniteSet(Offered(x))
          /\ Cardinality(Held(x)) \in Nat /\ Cardinality(Offered(x)) \in Nat
      BY Counts
    <2>8. delivered'[x] \in Nat /\ dropped'[x] \in Nat /\ Cardinality(Held(x)') \in Nat
      BY <1>5, <2>3, FS_CardinalityType DEF Types, Counter
    <2>9. due[x] = delivered'[x] + dropped'[x]
                   + (Cardinality(Held(x)') + Cardinality(Offered(x))) + Queued(x)
      BY <2>1, <2>4, <2>5, <2>7, <2>8
    <2>10. QED
      BY <1>2, <2>3, <2>6, <2>7, <2>9 DEF FitsAt, InHand
  <1>7. QED
    BY <1>2, <1>4, <1>5, <1>6, FitsEverywhere DEF AccountInv

LEMMA ReportingAccount ==
    ASSUME Types, AccountInv, NEW r \in Reporters, Reporting(r)
    PROVE  AccountInv'
  <1>1. UNCHANGED <<due, delivered, dropped, hand, mine, queue>>
    BY DEF Reporting, ReadOutstanding, Tell, Reported, captureVars, ghostVars
  <1>2. CASE UNCHANGED pc
    <2>1. MineFits' /\ DrainHand'
      BY <1>1, <1>2 DEF MineFits, DrainHand, AccountInv
    <2>2. QED
      BY <1>1, <2>1, NothingMoves
  <1>3. CASE Reported(r)
    <2>1. PICK l \in {"idle", "top"} : pc[r] = "report" /\ GoTo(r, l)
      BY <1>3 DEF Reported
    <2>2. r \in Threads /\ r \notin Proxies
      BY ThreadsApart DEF Threads
    <2>3. MineFits' /\ DrainHand'
      BY <1>1, <2>1, <2>2, PlaceFits DEF AccountInv
    <2>4. QED
      BY <1>1, <2>3, NothingMoves
  <1>4. QED
    BY <1>2, <1>3 DEF Reporting, ReadOutstanding, Tell

LEMMA DrainingAccount ==
    ASSUME Types, Types', AccountInv, NEW d \in Drains, Draining(d)
    PROVE  AccountInv'
  <1> USE ThreadsApart
  <1>0. d \notin Proxies
    BY RecordingAssumption DEF Reporters
  <1>1. ASSUME pc[d] # "deliver", NEW l, l # "deliver", GoTo(d, l),
               UNCHANGED <<due, delivered, dropped, hand, mine, queue>>
        PROVE  AccountInv'
    <2>1. MineFits' /\ DrainHand'
      BY <1>0, <1>1, PlaceFits DEF AccountInv
    <2>2. QED
      BY <1>1, <2>1, NothingMoves
  <1>2. CASE Top(d)
    BY <1>1, <1>2 DEF Top, captureVars, ghostVars
  <1>3. CASE TakeLock(d)
    BY <1>1, <1>3 DEF TakeLock, ghostVars
  <1>4. CASE Poll(d)
    <2>1. pc[d] = "poll" /\ UNCHANGED <<due, delivered, dropped, mine>>
      BY <1>4 DEF Poll, ghostVars
    <2>2. CASE UNCHANGED <<queue, hand>> /\ (GoTo(d, "done") \/ GoTo(d, "lock"))
      BY <1>1, <2>1, <2>2
    <2>3. CASE /\ queue # <<>> /\ hand' = [hand EXCEPT ![d] = More(@, Head(queue))]
               /\ queue' = Tail(queue) /\ GoTo(d, "deliver")
      <3>1. hand[d] = Nothing
        BY <2>1 DEF AccountInv, DrainHand
      <3>2. /\ hand'[d] = More(Nothing, Head(queue))
            /\ \A u \in Threads \ {d} : hand'[u] = hand[u]
        BY <2>3, <3>1 DEF Types
      <3>3. pc'[d] = "deliver" /\ \A u \in Threads \ {d} : pc'[u] = pc[u]
        BY <2>3 DEF GoTo, Types
      <3>4. MineFits' /\ DrainHand'
        BY <1>0, <2>1, <3>2, <3>3 DEF AccountInv, MineFits, DrainHand
      <3>5. QED
        BY <2>1, <2>3, <3>4, TakenAccount
    <2>4. QED
      BY <1>4, <2>2, <2>3 DEF Poll
  <1>5. QED
    BY <1>2, <1>3, <1>4, DeliverAccount, ReportingAccount DEF Draining

LEMMA AccountStep ==
    ASSUME Types, Types', Unstarted, AccountInv, Next
    PROVE  AccountInv'
  <1> USE ThreadsApart
  \* The loading thread, and the drain it starts, take nothing.
  <1>1. ASSUME UNCHANGED <<due, delivered, dropped, hand, mine, queue>>,
               NEW t \in Reporters, NEW l, GoTo(t, l),
               t \in Drains => pc[t] # "deliver" /\ l # "deliver"
        PROVE  AccountInv'
    <2>1. t \in Threads /\ t \notin Proxies
      BY RecordingAssumption DEF Threads
    <2>2. MineFits' /\ DrainHand'
      BY <1>1, <2>1, PlaceFits DEF AccountInv
    <2>3. QED
      BY <1>1, <2>2, NothingMoves
  <1>2. Unloader \notin Drains
    BY RecordingAssumption
  <1>3. CASE Start
    <2>1. starts + 1 \in Drains /\ pc[starts + 1] = "idle"
      BY <1>3, RecordingAssumption DEF Start, Unstarted, Drains
    <2>2. QED
      BY <1>1, <1>3, <2>1 DEF Start, ghostVars
  <1>4. CASE Unload \/ StopAccepting \/ StopDrain \/ TryLock
    <2>1. UNCHANGED <<due, delivered, dropped, hand, mine, queue>>
      BY <1>4 DEF Unload, StopAccepting, StopDrain, TryLock, captureVars, ghostVars
    <2>2. PICK l : GoTo(Unloader, l)
      BY <1>4 DEF Unload, StopAccepting, StopDrain, TryLock
    <2>3. QED
      BY <1>1, <1>2, <2>1, <2>2
  <1>5. CASE SinkChanges
    <2>1. UNCHANGED <<due, delivered, dropped, hand, mine, queue, pc>>
      BY <1>5 DEF SinkChanges, captureVars, threadVars, ghostVars
    <2>2. MineFits' /\ DrainHand'
      BY <2>1 DEF MineFits, DrainHand, AccountInv
    <2>3. QED
      BY <2>1, <2>2, NothingMoves
  <1>6. QED
    BY <1>2, <1>3, <1>4, <1>5, HandleAccount, OfferingAccount, DrainingAccount,
       CountingAccount, ReportingAccount DEF Next, Stopping

\* However the proxy threads, the drains and an unload fall between one
\* another, whatever the bridge refuses and however small the queue: every
\* record that was due is in one place, and a lost one is charged to its own
\* source.
THEOREM AccountedHolds == Spec => []Accounted
  <1>1. Init => AccountInv
    BY InitAccount
  <1>2. IInv /\ IInv' /\ AccountInv /\ [Next]_vars => AccountInv'
    <2> SUFFICES ASSUME IInv, IInv', AccountInv, [Next]_vars PROVE AccountInv'
      OBVIOUS
    <2>1. CASE Next
      BY <2>1, AccountStep DEF IInv
    <2>2. CASE UNCHANGED vars
      <3>1. UNCHANGED <<due, delivered, dropped, hand, mine, queue, pc>>
        BY <2>2 DEF vars, captureVars, threadVars, ghostVars
      <3>2. MineFits' /\ DrainHand'
        BY <3>1 DEF MineFits, DrainHand, AccountInv
      <3>3. QED
        BY <3>1, <3>2, NothingMoves
    <2>3. QED
      BY <2>1, <2>2
  <1>3. AccountInv => Accounted
    BY DEF AccountInv
  <1>4. QED
    BY <1>1, <1>2, <1>3, RecordingIInv, PTL DEF Spec
=============================================================================
