----------------------------- MODULE ScanProofs -----------------------------
(***************************************************************************)
(* The scan, for any corpus, surfaces, points, options and origins: what it *)
(* accounts for covers what it sent, a run it calls proven was logged in at *)
(* every probe, it keeps its promise and tells what it left out, and what   *)
(* it calls clean or gone was looked for.                                   *)
(***************************************************************************)
EXTENDS Scan, FiniteSetTheorems, TLAPS

\* What the records have, whatever they hold.
Shape ==
    /\ DOMAIN sender = {"sent", "tries", "refused"}
    /\ DOMAIN window = {"opened", "failed", "since", "due", "why"}
    /\ DOMAIN run = {"status", "told", "identity"}
    /\ DOMAIN truth = {"live", "refused"}
    /\ DOMAIN told = {"skipped", "refused"}

\* Outside a row no sender is open, and the requests of closed rows and of
\* canaries are accounted for.
SpentInv ==
    /\ left \in Nat /\ sender.sent \in Nat
    /\ pc # "done" => left <= sender.sent
    /\ pc \notin {"probing", "writing", "done"} => sender.sent = 0
    /\ SpentCoversIssued

LEMMA ScanInit == Init => Shape /\ SpentInv
  BY DEF Init, RowInit, NoSender, Unopened, Shape, SpentInv, SpentCoversIssued

LEMMA ShapeStep == Shape /\ [Next]_vars => Shape'
  <1> SUFFICES ASSUME Shape, [Next]_vars PROVE Shape'
    OBVIOUS
  <1> USE DEF Shape
  <1>c. ASSUME NEW v, CloseRow(v), UNCHANGED <<run, truth>> PROVE Shape'
    BY <1>c DEF CloseRow, Noted, NoSender
  <1>1. CASE Open \/ ResolveFails \/ Settle \/ CloseRun \/ Refresh \/ RefreshFails
    BY <1>1 DEF Open, ResolveFails, Settle, CloseRun, Refresh, RefreshFails, CanaryFor, Halt,
                Unopened, bookVars, rowVars
  <1>2. CASE CanaryPasses \/ CanaryFails
    BY <1>2 DEF CanaryPasses, CanaryFails, Opened, Halt
  <1>3. CASE EnterSurface \/ PassOver \/ SkipRest \/ LeaveSurface \/ CanaryDue \/ SkipRow
             \/ LoopDone
    BY <1>3 DEF EnterSurface, PassOver, SkipRest, LeaveSurface, CanaryDue, SkipRow, LoopDone,
                CanaryFor, bookVars, rowVars
  <1>4. CASE OpenRow
    BY <1>4 DEF OpenRow, StartRow, NoSender, rowVars
  <1>5. CASE ReadTraffic \/ Conclude \/ WriteFinding \/ MarkUnobserved
    BY <1>5 DEF ReadTraffic, Conclude, WriteFinding, MarkUnobserved, rowVars
  <1>6. CASE ProbeAnswered \/ ProbeDelayed
    BY <1>6 DEF ProbeAnswered, ProbeDelayed, Answered, RateLimited, bookVars
  <1>7. CASE PointLost
    BY <1>7 DEF PointLost, PointRefused, RefusedProbe
  <1>8. CASE ProbeRefused
    BY <1>8 DEF ProbeRefused, NoSender, Noted
  <1>9. CASE CheckRaises \/ WriteFails \/ RowDone
    BY <1>9, <1>c DEF CheckRaises, WriteFails, RowDone
  <1>10. CASE Interrupted \/ InterruptedAtClose \/ LoseSession
    BY <1>10 DEF Interrupted, InterruptedAtClose, LoseSession, Halt, SessionDies, bookVars,
                 rowVars
  <1>11. CASE UNCHANGED vars
    BY <1>11 DEF vars, bookVars, rowVars
  <1>12. QED
    BY <1>1, <1>2, <1>3, <1>4, <1>5, <1>6, <1>7, <1>8, <1>9, <1>10, <1>11 DEF Next, TheScan
-----------------------------------------------------------------------------
(* What the scan accounts for. *)

\* Nothing is sent and no row is opened or closed.
LEMMA NothingSent ==
    ASSUME SpentInv, UNCHANGED <<sender, left>>,
           pc # "done", run'.status = "error" => run.status = "error",
           pc \in {"probing", "writing"} \/ pc' \notin {"probing", "writing"},
           pc' \in {"probing", "writing", "done"} \/ pc \notin {"probing", "writing"}
    PROVE  SpentInv'
  BY DEF SpentInv, SpentCoversIssued

LEMMA SpentStep == Shape /\ SpentInv /\ [Next]_vars => SpentInv'
  <1> SUFFICES ASSUME Shape, SpentInv, [Next]_vars PROVE SpentInv'
    OBVIOUS
  <1> USE DEF Shape
  <1>h. ASSUME NEW state, Halt(state), sender' = sender, left' \in {left, left + 1}
        PROVE  SpentInv'
    BY <1>h DEF Halt, SpentInv, SpentCoversIssued
  <1>c. ASSUME NEW v, CloseRow(v), left <= sender.sent
        PROVE  SpentInv'
    <2>1. left' = 0 /\ sender'.sent = 0
      BY <1>c DEF CloseRow, Accounted, NoSender, SpentInv
    <2>2. QED
      BY <2>1 DEF SpentInv, SpentCoversIssued
  <1>1. CASE Open
    BY <1>1, NothingSent DEF Open, CanaryFor, Unopened, rowVars
  <1>2. CASE ResolveFails
    BY <1>2 DEF ResolveFails, SpentInv, SpentCoversIssued, rowVars
  <1>3. CASE CanaryPasses
    <2>1. /\ pc \in {"canary", "again"} /\ Accounted(1, left + 1)
          /\ UNCHANGED <<sender, run>>
      BY <1>3 DEF CanaryPasses
    <2>2. left = 0 /\ sender.sent = 0
      BY <2>1 DEF SpentInv
    <2>3. left' = 0
      BY <2>1, <2>2 DEF Accounted
    <2>4. QED
      BY <2>1, <2>2, <2>3 DEF SpentInv, SpentCoversIssued
  <1>4. CASE CanaryFails
    <2>1. pc \in {"canary", "again"} /\ sender' = sender
      BY <1>4 DEF CanaryFails
    <2>2. left = 0 /\ sender.sent = 0
      BY <2>1 DEF SpentInv
    <2>3. PICK refused, counted, reached \in BOOLEAN :
            /\ IF refused THEN reached => counted ELSE counted /\ reached
            /\ Accounted(One(counted), left + One(reached))
      BY <1>4 DEF CanaryFails
    <2>4. left' = 0
      BY <2>2, <2>3 DEF Accounted, One
    <2>5. QED
      BY <2>1, <2>2, <2>4 DEF SpentInv, SpentCoversIssued
  <1>5. CASE Refresh
    BY <1>5, NothingSent DEF Refresh, bookVars
  <1>6. CASE RefreshFails
    BY <1>6, <1>h DEF RefreshFails, rowVars
  <1>7. CASE EnterSurface \/ PassOver \/ SkipRest \/ LeaveSurface \/ CanaryDue \/ SkipRow
             \/ LoopDone
    BY <1>7, NothingSent DEF EnterSurface, PassOver, SkipRest, LeaveSurface, CanaryDue,
             SkipRow, RowDue, LoopDone, CanaryFor, bookVars, rowVars
  <1>8. CASE OpenRow
    <2>1. pc = "check" /\ left' = left /\ run' = run
      BY <1>8 DEF OpenRow, RowDue, StartRow, rowVars
    <2>2. sender'.sent = 0
      BY <1>8, <2>1 DEF OpenRow, StartRow, NoSender, rowVars, SpentInv
    <2>3. QED
      BY <2>1, <2>2 DEF SpentInv, SpentCoversIssued
  <1>9. CASE ReadTraffic \/ Conclude \/ WriteFinding
    <2>1. /\ pc \in {"reading", "probing", "writing"} /\ pc' = "writing"
          /\ UNCHANGED <<sender, left, run>>
      BY <1>9 DEF ReadTraffic, Conclude, WriteFinding, Accept, rowVars
    <2>2. QED
      BY <2>1 DEF SpentInv, SpentCoversIssued
  <1>10. CASE ProbeAnswered
    <2>1. /\ pc = "probing" /\ pc' = pc /\ run' = run
          /\ sender'.sent = sender.sent + 1 /\ left' = left + 1
      BY <1>10 DEF ProbeAnswered, Answered
    <2>2. QED
      BY <2>1 DEF SpentInv, SpentCoversIssued
  <1>11. CASE ProbeDelayed
    <2>1. /\ pc = "probing" /\ pc' = pc /\ run' = run
          /\ sender'.sent = sender.sent /\ left' = left
      BY <1>11 DEF ProbeDelayed, RateLimited
    <2>2. QED
      BY <2>1 DEF SpentInv, SpentCoversIssued
  <1>12. CASE PointLost
    <2>1. pc = "probing" /\ pc' = pc /\ run' = run
      BY <1>12 DEF PointLost
    <2>2. PICK counted, reached \in BOOLEAN : RefusedProbe(counted, reached)
      BY <1>12 DEF PointLost, PointRefused
    <2>3. /\ reached => counted
          /\ sender'.sent = sender.sent + (IF counted THEN 1 ELSE 0)
          /\ left' = left + (IF reached THEN 1 ELSE 0)
      BY <2>2 DEF RefusedProbe
    <2>4. QED
      BY <2>1, <2>3 DEF SpentInv, SpentCoversIssued
  <1>13. CASE ProbeRefused
    <2>1. /\ pc = "probing" /\ pc' = "check" /\ run' = run /\ sender'.sent = 0
      BY <1>13 DEF ProbeRefused, NoSender
    <2>2. PICK counted, reached \in BOOLEAN :
            /\ reached => counted
            /\ Accounted(sender.sent + One(counted), left + One(reached))
      BY <1>13 DEF ProbeRefused
    <2>3. left' = 0
      BY <2>1, <2>2 DEF Accounted, One, SpentInv
    <2>4. QED
      BY <2>1, <2>3 DEF SpentInv, SpentCoversIssued
  <1>14. CASE CheckRaises \/ WriteFails \/ RowDone
    <2>1. left <= sender.sent
      BY <1>14 DEF CheckRaises, WriteFails, RowDone, SpentInv
    <2>2. QED
      BY <1>14, <2>1, <1>c DEF CheckRaises, WriteFails, RowDone
  <1>15. CASE Settle \/ MarkUnobserved \/ CloseRun
    <2>1. /\ pc \in {"settle", "mark", "close"} /\ pc' \in {"mark", "close", "done"}
          /\ UNCHANGED <<sender, left>>
      BY <1>15 DEF Settle, MarkUnobserved, CloseRun, rowVars
    <2>2. QED
      BY <2>1 DEF SpentInv, SpentCoversIssued
  <1>16. CASE Interrupted
    BY <1>16, <1>h DEF Interrupted
  <1>17. CASE InterruptedAtClose
    BY <1>17 DEF InterruptedAtClose, rowVars, SpentInv, SpentCoversIssued
  <1>18. CASE LoseSession
    BY <1>18 DEF LoseSession, SessionDies, SpentInv, SpentCoversIssued
  <1>19. CASE UNCHANGED vars
    BY <1>19 DEF vars, rowVars, SpentInv, SpentCoversIssued
  <1>20. QED
    BY <1>1, <1>2, <1>3, <1>4, <1>5, <1>6, <1>7, <1>8, <1>9, <1>10, <1>11, <1>12, <1>13, <1>14,
       <1>15, <1>16, <1>17, <1>18, <1>19 DEF Next, TheScan

\* What is written on a scan's rows and added to its canary_requests covers
\* every request that reached the network, for any number of checks, points,
\* retries, refusals and canaries (scan._spent, ProbeSender.sent).
THEOREM SpentHolds == Spec => []SpentCoversIssued
  <1>1. (Shape /\ SpentInv) /\ [Next]_vars => (Shape /\ SpentInv)'
    BY ShapeStep, SpentStep
  <1>2. Shape /\ SpentInv => SpentCoversIssued
    BY DEF SpentInv
  <1>3. QED
    BY ScanInit, <1>1, <1>2, PTL DEF Spec
-----------------------------------------------------------------------------
(* What the scan says of its identity. *)

Canaries == {"canary", "again", "refresh"}

\* The first canary is still out: nothing was probed.
Starting == pc \in Canaries /\ window.why = "start"

\* A probe was sent logged out.
Spoilt == Bracketed /\ ~truth.live

\* Whatever was spoilt shows, in the session itself until a refresh, and for
\* good once a canary has met it; and only a settled scan calls itself proven.
ProvenInv ==
    /\ window.opened \in {"never", "passed"} /\ window.why \in {"start", "due", "finish"}
    /\ ~Bracketed => truth.live
    /\ pc = "open" \/ Starting => truth.live
    /\ Bracketed /\ pc \notin {"open", "done"} /\ ~Starting => window.opened = "passed"
    /\ pc \in {"refresh", "again"} /\ ~Starting => window.failed
    /\ Spoilt => ~live \/ window.failed
    /\ pc = "settle" /\ Spoilt => window.failed
    /\ run.identity = "proven" => truth.live /\ pc \in {"mark", "close", "done"}

LEMMA ProvenInit == Init => ProvenInv
  BY DEF Init, RowInit, Unopened, ProvenInv, Starting, Spoilt, Canaries

\* What the scan was started with stands.
LEMMA OptStays == [Next]_vars => opt' = opt
  BY DEF Next, TheScan, Open, ResolveFails, CanaryPasses, CanaryFails, Refresh, RefreshFails,
         EnterSurface, PassOver, SkipRest, LeaveSurface, CanaryDue, SkipRow, OpenRow,
         ReadTraffic, ProbeAnswered, ProbeDelayed, PointLost, ProbeRefused, Conclude,
         CheckRaises, WriteFinding, WriteFails, RowDone, LoopDone, Settle, MarkUnobserved,
         CloseRun, Interrupted, InterruptedAtClose, LoseSession, vars, loopVars

\* A step outside the bracket: no canary, no refresh, nothing settled, and what
\* a probe finds out about the session it finds while the session is as it is.
LEMMA OutsideBracket ==
    ASSUME Shape, ProvenInv, opt' = opt, live' = live \/ ~live',
           pc \notin {"open", "settle", "mark", "close", "done"} \cup Canaries,
           pc' \notin {"open", "settle", "mark", "close", "done"} \cup Canaries,
           window'.opened = window.opened, window'.failed = window.failed,
           window'.why = window.why, run' = run, truth'.live <=> truth.live
    PROVE  ProvenInv'
  <1>1. Bracketed' = Bracketed
    BY DEF Bracketed
  <1>2. ~Starting /\ ~Starting'
    BY DEF Starting
  <1>3. run.identity # "proven"
    BY DEF ProvenInv
  <1>4. Bracketed => window.opened = "passed" /\ (~truth.live => ~live \/ window.failed)
    BY <1>2 DEF ProvenInv, Spoilt
  <1>5. ~Bracketed => truth.live
    BY DEF ProvenInv
  <1>6. Spoilt' => ~live' \/ window'.failed
    BY <1>1, <1>4, <1>5 DEF Spoilt
  <1>7. /\ (~Bracketed)' => truth'.live
        /\ Bracketed' => window'.opened = "passed"
        /\ run'.identity # "proven"
    BY <1>1, <1>3, <1>4, <1>5
  <1>8. QED
    BY <1>2, <1>6, <1>7 DEF ProvenInv, Canaries

\* The scan is over, or it was broken off: nothing more is probed.
LEMMA BrokenOff ==
    ASSUME ProvenInv, opt' = opt, truth'.live = truth.live, pc' = "done",
           run'.identity # "proven",
           window'.opened = window.opened, window'.why = window.why,
           Spoilt' => ~live' \/ window'.failed
    PROVE  ProvenInv'
  BY DEF ProvenInv, Starting, Canaries, Bracketed

LEMMA ProvenStep == Shape /\ ProvenInv /\ [Next]_vars => ProvenInv'
  <1> SUFFICES ASSUME Shape, ProvenInv, [Next]_vars PROVE ProvenInv'
    OBVIOUS
  <1> USE DEF Shape
  <1>b. opt' = opt /\ Bracketed' = Bracketed
    BY OptStays DEF Bracketed
  <1>1. CASE Open
    BY <1>1, <1>b DEF Open, CanaryFor, Unopened, bookVars, rowVars, ProvenInv, Starting, Spoilt,
                      Canaries
  <1>2. CASE ResolveFails
    BY <1>2, <1>b, BrokenOff DEF ResolveFails, Unopened, bookVars, rowVars, ProvenInv, Spoilt
  <1>3. CASE CanaryPasses
    <2>1. /\ pc \in {"canary", "again"} /\ live /\ UNCHANGED <<truth, run, live>>
          /\ window' = IF window.why = "finish" THEN window ELSE Opened(window)
          /\ Proceed
      BY <1>3 DEF CanaryPasses
    <2>2. ~window.failed => ~Spoilt
      BY <2>1 DEF ProvenInv
    <2>3. window'.failed = window.failed /\ window'.why = window.why
      BY <2>1 DEF Opened
    <2>4. Bracketed => window'.opened = "passed"
      BY <2>1 DEF Opened, ProvenInv, Starting, Canaries
    <2>5. pc' \in {"surface", "check", "settle"} /\ run.identity # "proven"
      BY <2>1 DEF Proceed, ProvenInv
    <2>6. ~Starting'
      BY <2>5 DEF Starting, Canaries
    <2>7. Spoilt' => window'.failed
      BY <2>1, <2>2, <2>3, <1>b DEF Spoilt
    <2>8. window'.opened \in {"never", "passed"}
      BY <2>1 DEF Opened, ProvenInv
    <2>9. (~Bracketed)' => truth'.live
      BY <2>1, <1>b DEF ProvenInv
    <2>10. QED
      BY <2>1, <2>3, <2>4, <2>5, <2>6, <2>7, <2>8, <2>9, <1>b DEF ProvenInv
  <1>4. CASE CanaryFails
    <2>1. /\ pc \in {"canary", "again"} /\ live' = live
          /\ window' = [window EXCEPT !.failed = @ \/ window.why # "start"]
      BY <1>4 DEF CanaryFails
    <2>2. truth'.live = truth.live
      BY <1>4 DEF CanaryFails
    <2>3. \/ window.why = "finish" /\ pc' = "settle" /\ run' = run
          \/ window.why # "finish" /\ pc' = "refresh" /\ run' = run
          \/ Halt("dead")
      BY <1>4 DEF CanaryFails
    <2>4. /\ window'.opened = window.opened /\ window'.why = window.why
          /\ window'.failed = (window.failed \/ window.why # "start")
      BY <2>1
    <2>5. window.why = "start" => truth.live
      BY <2>1 DEF ProvenInv, Starting, Canaries
    <2>6. run.identity # "proven"
      BY <2>1 DEF ProvenInv
    <2>7. window.why # "start" /\ Bracketed => window.opened = "passed"
      BY <2>1 DEF ProvenInv, Starting, Canaries
    <2>8. CASE Halt("dead")
      BY <2>1, <2>2, <2>4, <2>5, <2>8, <1>b, BrokenOff DEF Halt, ProvenInv, Spoilt
    <2>9. CASE run' = run /\ pc' \in {"settle", "refresh"} /\ (pc' = "settle" => window.why = "finish")
      BY <2>1, <2>2, <2>4, <2>5, <2>6, <2>7, <2>9, <1>b
         DEF ProvenInv, Starting, Spoilt, Canaries
    <2>10. QED
      BY <2>3, <2>8, <2>9
  <1>5. CASE Refresh
    <2>1. /\ pc = "refresh" /\ pc' = "again" /\ UNCHANGED <<window, truth, run>>
      BY <1>5 DEF Refresh, bookVars
    <2>2. Starting' = Starting
      BY <2>1 DEF Starting, Canaries
    <2>3. Spoilt => window.failed
      BY <2>1 DEF ProvenInv, Starting, Spoilt, Canaries
    <2>4. QED
      BY <2>1, <2>2, <2>3, <1>b DEF ProvenInv, Spoilt
  <1>6. CASE RefreshFails
    BY <1>6, <1>b, BrokenOff DEF RefreshFails, Halt, bookVars, rowVars, ProvenInv, Spoilt
  <1>7. CASE EnterSurface \/ PassOver \/ SkipRest \/ LeaveSurface \/ SkipRow
    BY <1>7, <1>b, OutsideBracket
       DEF EnterSurface, PassOver, SkipRest, LeaveSurface, SkipRow, RowDue, bookVars, rowVars,
           Canaries
  <1>8. CASE CanaryDue
    <2>1. /\ pc = "check" /\ pc' = "canary" /\ UNCHANGED <<truth, run, live>>
          /\ window' = [window EXCEPT !.why = "due", !.due = FALSE]
      BY <1>8 DEF CanaryDue, CanaryFor, bookVars, rowVars
    <2>2. QED
      BY <2>1, <1>b DEF ProvenInv, Starting, Spoilt, Canaries
  <1>9. CASE OpenRow
    <2>1. /\ pc = "check" /\ pc' \in {"probing", "reading"}
          /\ UNCHANGED <<window, truth, run, live>>
      BY <1>9 DEF OpenRow, RowDue, StartRow, rowVars
    <2>2. QED
      BY <2>1, <1>b, OutsideBracket DEF Canaries
  <1>10. CASE ReadTraffic \/ Conclude \/ WriteFinding
    <2>1. /\ pc \in {"reading", "probing", "writing"} /\ pc' = "writing"
          /\ UNCHANGED <<window, truth, run, live>>
      BY <1>10 DEF ReadTraffic, Conclude, WriteFinding, Accept, rowVars
    <2>2. QED
      BY <2>1, <1>b, OutsideBracket DEF Canaries
  <1>11. CASE ProbeAnswered
    <2>1. /\ pc = "probing" /\ pc' = pc /\ UNCHANGED <<window, run, live>>
          /\ truth'.live = (truth.live /\ (Bracketed /\ Origin[Surface] = ProvenOrigin => live))
      BY <1>11 DEF ProbeAnswered, Answered
    <2>2. pc \notin {"open", "settle", "mark", "close", "done"} \cup Canaries
      BY <2>1 DEF Canaries
    <2>3. CASE truth'.live <=> truth.live
      BY <2>1, <2>2, <2>3, <1>b, OutsideBracket
    <2>4. CASE ~(truth'.live <=> truth.live)
      <3>1. Bracketed /\ ~live /\ ~truth'.live
        BY <2>1, <2>4 DEF ProvenInv
      <3>2. ~Starting /\ ~Starting' /\ window.opened = "passed" /\ run.identity # "proven"
        BY <2>1, <3>1 DEF ProvenInv, Starting, Canaries
      <3>3. Bracketed' /\ ~live' /\ pc' = "probing" /\ window' = window /\ run' = run
        BY <2>1, <3>1, <1>b
      <3>4. QED
        BY <3>2, <3>3 DEF ProvenInv, Spoilt
    <2>5. QED
      BY <2>3, <2>4
  <1>12. CASE ProbeDelayed
    BY <1>12, <1>b, OutsideBracket DEF ProbeDelayed, RateLimited, bookVars, Canaries
  <1>13. CASE PointLost
    <2>1. /\ pc = "probing" /\ pc' = pc /\ UNCHANGED <<window, run, live>>
          /\ truth'.live = truth.live
      BY <1>13 DEF PointLost, PointRefused, RefusedProbe
    <2>2. QED
      BY <2>1, <1>b, OutsideBracket DEF Canaries
  <1>14. CASE ProbeRefused
    <2>1. /\ pc = "probing" /\ pc' = "check" /\ UNCHANGED <<run, live>>
          /\ truth'.live = truth.live
      BY <1>14 DEF ProbeRefused
    <2>2. /\ window'.opened = window.opened /\ window'.failed = window.failed
          /\ window'.why = window.why
      BY <1>14 DEF ProbeRefused, Noted
    <2>3. QED
      BY <2>1, <2>2, <1>b, OutsideBracket DEF Canaries
  <1>15. CASE CheckRaises \/ WriteFails \/ RowDone
    <2>1. PICK v : CloseRow(v)
      BY <1>15 DEF CheckRaises, WriteFails, RowDone
    <2>2. pc \in {"reading", "probing", "writing"} /\ UNCHANGED <<truth, run, live>>
      BY <1>15 DEF CheckRaises, WriteFails, RowDone
    <2>3. /\ pc' = "check" /\ window'.opened = window.opened
          /\ window'.failed = window.failed /\ window'.why = window.why
      BY <2>1 DEF CloseRow, Noted
    <2>4. QED
      BY <2>2, <2>3, <1>b, OutsideBracket DEF Canaries
  <1>16. CASE LoopDone
    <2>1. /\ pc = "surface" /\ UNCHANGED <<truth, run, live>>
          /\ IF Bracketed
               THEN pc' = "canary" /\ window' = [window EXCEPT !.why = "finish", !.due = FALSE]
               ELSE pc' = "settle" /\ window' = window
      BY <1>16 DEF LoopDone, CanaryFor, bookVars, rowVars
    <2>2. QED
      BY <2>1, <1>b DEF ProvenInv, Starting, Spoilt, Canaries
  <1>17. CASE Settle
    <2>1. /\ pc = "settle" /\ pc' = "mark" /\ UNCHANGED <<window, truth, live>>
          /\ run'.identity = IF Bracketed THEN StateForRun ELSE "none"
      BY <1>17 DEF Settle, bookVars, rowVars
    <2>2. run'.identity = "proven" => ~window.failed /\ Bracketed
      BY <2>1 DEF StateForRun
    <2>3. run'.identity = "proven" => truth.live
      BY <2>1, <2>2 DEF ProvenInv, Spoilt
    <2>4. QED
      BY <2>1, <2>3, <1>b DEF ProvenInv, Starting, Spoilt, Canaries
  <1>18. CASE MarkUnobserved \/ CloseRun \/ InterruptedAtClose
    <2>1. /\ pc \in {"mark", "close"} /\ pc' \in {"close", "done"}
          /\ UNCHANGED <<window, truth, live>> /\ run'.identity = run.identity
      BY <1>18 DEF MarkUnobserved, CloseRun, InterruptedAtClose, bookVars, rowVars
    <2>2. QED
      BY <2>1, <1>b DEF ProvenInv, Starting, Spoilt, Canaries
  <1>19. CASE Interrupted
    BY <1>19, <1>b, BrokenOff DEF Interrupted, Halt, bookVars, ProvenInv, Spoilt
  <1>20. CASE LoseSession
    BY <1>20, <1>b DEF LoseSession, SessionDies, bookVars, ProvenInv, Starting, Spoilt
  <1>21. CASE UNCHANGED vars
    BY <1>21, <1>b DEF vars, bookVars, rowVars, ProvenInv, Starting, Spoilt
  <1>22. QED
    BY <1>1, <1>2, <1>3, <1>4, <1>5, <1>6, <1>7, <1>8, <1>9, <1>10, <1>11, <1>12, <1>13, <1>14,
       <1>15, <1>16, <1>17, <1>18, <1>19, <1>20, <1>21 DEF Next, TheScan

\* A run is called proven only when every probe at the origin its canaries were
\* sent to went out logged in, however many probes lie between two canaries and
\* whenever the session died (identity.IdentityWindow.state_for_run).
THEOREM ProvenHolds == Spec => []ProvenIsEarned
  <1>1. (Shape /\ ProvenInv) /\ [Next]_vars => (Shape /\ ProvenInv)'
    BY ShapeStep, ProvenStep
  <1>2. Shape /\ ProvenInv => ProvenIsEarned
    BY DEF ProvenInv, ProvenIsEarned
  <1>3. QED
    BY ScanInit, ProvenInit, <1>1, <1>2, PTL DEF Spec
-----------------------------------------------------------------------------
(* The walk over surfaces and checks. *)

Given(v) == v \notin {"none", "pending"}

InRow == pc \in {"reading", "probing", "writing"}
InSurface == pc = "check" \/ InRow \/ (pc \in Canaries /\ window.why = "due")
Over == pc \in {"settle", "mark", "close"} \/ (pc \in Canaries /\ window.why = "finish")

\* The pairs the walk has left behind.
Behind(j, i) == j < si \/ (j = si /\ InSurface /\ i < ci)

\* Where the walk stands.
WalkInv ==
    /\ opt \in Options
    /\ si \in Nat \ {0} /\ ci \in Nat \ {0}
    /\ window.why \in {"start", "due", "finish"}
    /\ Over => si > Len(SurfaceSeq)
    /\ InSurface => si <= Len(SurfaceSeq) /\ Chosen(Surface)
    /\ InRow => ci <= Len(opt.checks)
    /\ pc = "reading" => Check.hook # "probes"

\* What the row of the j-th surface and the i-th check holds: its verdict when
\* the walk is past it, nothing when the walk is not there yet.
RowHolds(j, i) ==
    LET v == rows[<<SurfaceSeq[j], i>>] IN
    IF Behind(j, i) THEN IF Chosen(SurfaceSeq[j]) THEN Given(v) ELSE v = "none"
    ELSE v = IF InRow /\ j = si /\ i = ci THEN "pending" ELSE "none"

RowsInv ==
    /\ DOMAIN rows = Rows
    /\ pc # "done" => \A j \in DOMAIN SurfaceSeq, i \in DOMAIN opt.checks : RowHolds(j, i)

LEMMA ChecksCounted ==
    ASSUME opt \in Options
    PROVE  /\ Len(opt.checks) \in Nat /\ DOMAIN opt.checks = 1 .. Len(opt.checks)
           /\ Len(SurfaceSeq) \in Nat /\ DOMAIN SurfaceSeq = 1 .. Len(SurfaceSeq)
           /\ \A j \in DOMAIN SurfaceSeq : SurfaceSeq[j] \in Surfaces
  BY ScanAssumptions

LEMMA WalkInit == Init => WalkInv /\ RowsInv
  <1> SUFFICES ASSUME Init PROVE WalkInv /\ RowsInv
    OBVIOUS
  <1>1. WalkInv
    BY DEF Init, WalkInv, Over, InSurface, InRow, Canaries
  <1>2. DOMAIN rows = Rows /\ \A x \in Rows : rows[x] = "none"
    BY DEF Init
  <1>3. ASSUME NEW j \in DOMAIN SurfaceSeq, NEW i \in DOMAIN opt.checks
        PROVE  RowHolds(j, i)
    <2>1. <<SurfaceSeq[j], i>> \in Rows /\ ~(j < 1)
      BY ChecksCounted, <1>1 DEF Rows, WalkInv
    <2>2. ~InSurface /\ ~InRow /\ si = 1
      BY DEF Init, InSurface, InRow, Canaries
    <2>3. QED
      BY <1>2, <2>1, <2>2 DEF RowHolds, Behind
  <1>4. QED
    BY <1>1, <1>2, <1>3 DEF RowsInv

LEMMA WalkStep == Shape /\ WalkInv /\ [Next]_vars => WalkInv'
  <1> SUFFICES ASSUME Shape, WalkInv, [Next]_vars PROVE WalkInv'
    OBVIOUS
  <1> USE DEF Shape
  <1>o. opt' = opt
    BY OptStays
  <1>s. ASSUME si' = si, ci' = ci, window'.why = window.why,
               pc' = pc \/ pc' = "done" \/ (InRow /\ pc' \in {"probing", "writing"})
        PROVE  WalkInv'
    BY <1>s, <1>o DEF WalkInv, Over, InSurface, InRow, Canaries, Surface, Check, Chosen
  <1>c. ASSUME InRow, si' = si, ci' = ci + 1, window'.why = window.why, pc' = "check"
        PROVE  WalkInv'
    BY <1>c, <1>o DEF WalkInv, Over, InSurface, InRow, Canaries, Surface, Chosen
  <1>1. CASE Open \/ ResolveFails \/ Refresh \/ RefreshFails
    <2>1. CASE Open
      BY <2>1, <1>o DEF Open, CanaryFor, loopVars, WalkInv, Over, InSurface, InRow, Canaries
    <2>2. CASE ResolveFails \/ RefreshFails
      BY <2>2, <1>s DEF ResolveFails, RefreshFails, Halt, loopVars
    <2>3. CASE Refresh
      BY <2>3, <1>o DEF Refresh, loopVars, WalkInv, Over, InSurface, InRow, Canaries, Surface,
           Chosen
    <2>4. QED
      BY <1>1, <2>1, <2>2, <2>3
  <1>2. CASE CanaryPasses
    <2>1. pc \in Canaries /\ Proceed /\ UNCHANGED loopVars /\ window'.why = window.why
      BY <1>2 DEF CanaryPasses, Opened, Canaries
    <2>2. QED
      BY <2>1, <1>o DEF Proceed, loopVars, WalkInv, Over, InSurface, InRow, Canaries, Surface,
           Check, Chosen
  <1>3. CASE CanaryFails
    <2>1. pc \in Canaries /\ UNCHANGED loopVars /\ window'.why = window.why
      BY <1>3 DEF CanaryFails, Canaries
    <2>2. pc' \in {"refresh", "done"} \/ (window.why = "finish" /\ pc' = "settle")
      BY <1>3 DEF CanaryFails, Halt
    <2>3. QED
      BY <2>1, <2>2, <1>o DEF loopVars, WalkInv, Over, InSurface, InRow, Canaries, Surface,
           Check, Chosen
  <1>4. CASE EnterSurface \/ PassOver \/ SkipRest \/ LeaveSurface \/ CanaryDue \/ SkipRow
    <2>1. CASE EnterSurface
      BY <2>1, <1>o DEF EnterSurface, WalkInv, Over, InSurface, InRow, Canaries, Surface, Chosen
    <2>2. CASE PassOver \/ SkipRest \/ LeaveSurface
      BY <2>2, <1>o DEF PassOver, SkipRest, LeaveSurface, WalkInv, Over, InSurface, InRow,
           Canaries
    <2>3. CASE CanaryDue
      BY <2>3, <1>o DEF CanaryDue, CanaryFor, loopVars, WalkInv, Over, InSurface, InRow,
           Canaries, Surface, Chosen
    <2>4. CASE SkipRow
      BY <2>4, <1>o DEF SkipRow, RowDue, WalkInv, Over, InSurface, InRow, Canaries, Surface,
           Chosen
    <2>5. QED
      BY <1>4, <2>1, <2>2, <2>3, <2>4
  <1>5. CASE OpenRow
    <2>1. /\ pc = "check" /\ ci <= Len(opt.checks) /\ UNCHANGED <<loopVars, window>>
          /\ pc' = IF Check.hook = "probes" THEN "probing" ELSE "reading"
      BY <1>5 DEF OpenRow, RowDue
    <2>2. QED
      BY <2>1, <1>o DEF loopVars, WalkInv, Over, InSurface, InRow, Canaries, Surface, Check,
           Chosen
  <1>6. CASE ReadTraffic \/ Conclude \/ WriteFinding \/ ProbeAnswered \/ ProbeDelayed
             \/ PointLost
    BY <1>6, <1>s DEF ReadTraffic, Conclude, WriteFinding, ProbeAnswered, ProbeDelayed,
         PointLost, Accept, loopVars, bookVars, InRow
  <1>7. CASE ProbeRefused
    BY <1>7, <1>c DEF ProbeRefused, Noted, InRow
  <1>8. CASE CheckRaises \/ WriteFails \/ RowDone
    BY <1>8, <1>c DEF CheckRaises, WriteFails, RowDone, CloseRow, Noted, InRow
  <1>9. CASE LoopDone
    <2>1. /\ pc = "surface" /\ si > Len(SurfaceSeq) /\ UNCHANGED loopVars
          /\ IF Bracketed
               THEN pc' = "canary" /\ window' = [window EXCEPT !.why = "finish", !.due = FALSE]
               ELSE pc' = "settle" /\ window' = window
      BY <1>9 DEF LoopDone, CanaryFor
    <2>2. QED
      BY <2>1, <1>o DEF loopVars, WalkInv, Over, InSurface, InRow, Canaries
  <1>10. CASE Settle \/ MarkUnobserved \/ CloseRun \/ InterruptedAtClose
    BY <1>10, <1>o DEF Settle, MarkUnobserved, CloseRun, InterruptedAtClose, loopVars, WalkInv,
         Over, InSurface, InRow, Canaries
  <1>11. CASE Interrupted \/ LoseSession \/ UNCHANGED vars
    BY <1>11, <1>s DEF Interrupted, LoseSession, Halt, vars, loopVars
  <1>12. QED
    BY <1>1, <1>2, <1>3, <1>4, <1>5, <1>6, <1>7, <1>8, <1>9, <1>10, <1>11 DEF Next, TheScan

\* The row of the walk is one of the scan's, and no other pair has it.
LEMMA RowIsOne ==
    ASSUME WalkInv, InSurface, ci <= Len(opt.checks)
    PROVE  /\ si \in DOMAIN SurfaceSeq /\ ci \in DOMAIN opt.checks
           /\ Row = <<SurfaceSeq[si], ci>> /\ Row \in Rows /\ Chosen(SurfaceSeq[si])
           /\ \A j \in DOMAIN SurfaceSeq, i \in DOMAIN opt.checks :
                <<SurfaceSeq[j], i>> = Row => j = si /\ i = ci
  <1>1. si \in DOMAIN SurfaceSeq /\ ci \in DOMAIN opt.checks
    BY ChecksCounted DEF WalkInv
  <1>2. Row = <<SurfaceSeq[si], ci>> /\ Row \in Rows /\ Chosen(SurfaceSeq[si])
    BY <1>1, ChecksCounted DEF WalkInv, Row, Rows, Surface
  <1>3. QED
    BY <1>1, <1>2, ScanAssumptions

\* Nothing is written and the walk does not move.
LEMMA RowsStay ==
    ASSUME RowsInv, opt' = opt, rows' = rows,
           pc' = "done" \/ /\ pc # "done"
                           /\ si' = si /\ InSurface' = InSurface /\ InRow' = InRow
                           /\ ci' = ci
    PROVE  RowsInv'
  BY DEF RowsInv, RowHolds, Behind, Rows, Chosen

LEMMA RowGiven ==
    ASSUME WalkInv, RowsInv, pc # "done", opt' = opt, InSurface, ci <= Len(opt.checks),
           NEW v, Given(v), rows' = [rows EXCEPT ![Row] = v],
           si' = si, ci' = ci + 1, pc' = "check"
    PROVE  RowsInv'
  <1>1. InSurface' /\ ~InRow' /\ Rows' = Rows
    BY DEF InSurface, InRow, Rows
  <1>2. ASSUME NEW j \in DOMAIN SurfaceSeq, NEW i \in DOMAIN opt.checks
        PROVE  RowHolds(j, i)'
    <2>1. RowHolds(j, i) /\ <<SurfaceSeq[j], i>> \in Rows /\ j \in Nat /\ i \in Nat
      BY <1>2, ChecksCounted DEF RowsInv, WalkInv, Rows
    <2>2. CASE <<SurfaceSeq[j], i>> = Row
      <3>1. j = si /\ i = ci /\ Chosen(SurfaceSeq[j])
        BY <2>2, RowIsOne
      <3>2. Behind(j, i)' /\ Given(rows'[<<SurfaceSeq[j], i>>]) /\ Chosen(SurfaceSeq[j])'
        BY <1>1, <2>1, <2>2, <3>1 DEF Behind, WalkInv, RowsInv, Chosen
      <3>3. QED
        BY <3>2 DEF RowHolds
    <2>3. CASE <<SurfaceSeq[j], i>> # Row
      <3>1. ~(j = si /\ i = ci)
        BY <2>3, RowIsOne
      <3>2. rows'[<<SurfaceSeq[j], i>>] = rows[<<SurfaceSeq[j], i>>]
        BY <2>1, <2>3 DEF RowsInv
      <3>3. Behind(j, i)' <=> Behind(j, i)
        BY <1>1, <2>1, <3>1 DEF Behind, WalkInv
      <3>4. QED
        BY <1>1, <2>1, <3>1, <3>2, <3>3 DEF RowHolds, Chosen
    <2>4. QED
      BY <2>2, <2>3
  <1>3. QED
    BY <1>1, <1>2 DEF RowsInv

LEMMA RowOpened ==
    ASSUME WalkInv, RowsInv, pc = "check", opt' = opt, ci <= Len(opt.checks),
           rows' = [rows EXCEPT ![Row] = "pending"],
           si' = si, ci' = ci, pc' \in {"reading", "probing"}
    PROVE  RowsInv'
  <1>1. InSurface /\ InSurface' /\ InRow' /\ ~InRow /\ Rows' = Rows
    BY DEF InSurface, InRow, Rows
  <1>2. ASSUME NEW j \in DOMAIN SurfaceSeq, NEW i \in DOMAIN opt.checks
        PROVE  RowHolds(j, i)'
    <2>1. RowHolds(j, i) /\ <<SurfaceSeq[j], i>> \in Rows
      BY <1>2, ChecksCounted DEF RowsInv, Rows, WalkInv
    <2>2. Behind(j, i)' <=> Behind(j, i)
      BY <1>1 DEF Behind
    <2>3. CASE <<SurfaceSeq[j], i>> = Row
      <3>1. j = si /\ i = ci /\ ~Behind(j, i)
        BY <2>3, <1>1, RowIsOne DEF Behind, WalkInv
      <3>2. rows'[<<SurfaceSeq[j], i>>] = "pending"
        BY <2>1, <2>3 DEF RowsInv
      <3>3. QED
        BY <1>1, <2>2, <3>1, <3>2 DEF RowHolds
    <2>4. CASE <<SurfaceSeq[j], i>> # Row
      <3>1. ~(j = si /\ i = ci)
        BY <2>4, <1>1, RowIsOne
      <3>2. rows'[<<SurfaceSeq[j], i>>] = rows[<<SurfaceSeq[j], i>>]
        BY <2>1, <2>4 DEF RowsInv
      <3>3. QED
        BY <1>1, <2>1, <2>2, <3>1, <3>2 DEF RowHolds, Chosen
    <2>5. QED
      BY <2>3, <2>4
  <1>3. QED
    BY <1>1, <1>2 DEF RowsInv

LEMMA SurfaceLeft ==
    ASSUME WalkInv, RowsInv, opt' = opt, pc \in {"surface", "check"},
           si \in DOMAIN SurfaceSeq, si' = si + 1, pc' = "surface", DOMAIN rows' = Rows,
           \A j \in DOMAIN SurfaceSeq, i \in DOMAIN opt.checks :
             j # si => rows'[<<SurfaceSeq[j], i>>] = rows[<<SurfaceSeq[j], i>>],
           \A i \in DOMAIN opt.checks :
             LET v == rows'[<<SurfaceSeq[si], i>>] IN
             IF Chosen(SurfaceSeq[si]) THEN Given(v) ELSE v = "none"
    PROVE  RowsInv'
  <1>1. ~InSurface' /\ ~InRow' /\ ~InRow /\ Rows' = Rows
    BY DEF InSurface, InRow, Rows, Canaries
  <1>2. ASSUME NEW j \in DOMAIN SurfaceSeq, NEW i \in DOMAIN opt.checks
        PROVE  RowHolds(j, i)'
    <2>1. RowHolds(j, i) /\ j \in Nat /\ si \in Nat
      BY <1>2, ChecksCounted DEF RowsInv, WalkInv
    <2>2. Behind(j, i)' <=> j < si \/ j = si
      BY <1>1, <2>1 DEF Behind
    <2>3. CASE j = si
      BY <2>2, <2>3 DEF RowHolds, Chosen
    <2>4. CASE j # si
      BY <1>1, <2>1, <2>2, <2>4 DEF RowHolds, Behind, Chosen
    <2>5. QED
      BY <2>3, <2>4
  <1>3. QED
    BY <1>1, <1>2 DEF RowsInv

\* What a row is closed with.
VerdictInv ==
    pc = "writing" =>
        /\ verdict.state \in {"clean", "finding", "inconclusive"}
        /\ verdict.considered # {} => verdict.state # "inconclusive"
        /\ Check.hook = "probes" /\ verdict.candidates # {} => verdict.considered = {}

LEMMA RowsStep == Shape /\ WalkInv /\ VerdictInv /\ RowsInv /\ [Next]_vars => RowsInv'
  <1> SUFFICES ASSUME Shape, WalkInv, VerdictInv, RowsInv, [Next]_vars PROVE RowsInv'
    OBVIOUS
  <1> USE DEF Shape
  <1>o. opt' = opt
    BY OptStays
  <1>1. CASE Open \/ ResolveFails \/ Refresh \/ RefreshFails
    <2>1. /\ UNCHANGED <<loopVars, rows>>
          /\ \/ pc' = "done"
             \/ pc = "open" /\ pc' = "surface"
             \/ pc = "open" /\ pc' = "canary" /\ window'.why = "start"
             \/ pc = "refresh" /\ pc' = "again" /\ window' = window
      BY <1>1 DEF Open, ResolveFails, Refresh, RefreshFails, CanaryFor, Halt, bookVars
    <2>2. pc' = "done" \/ (pc # "done" /\ InSurface' = InSurface /\ InRow' = InRow)
      BY <2>1 DEF InSurface, InRow, Canaries
    <2>3. QED
      BY <2>1, <2>2, <1>o, RowsStay DEF loopVars
  <1>2. CASE CanaryPasses
    <2>1. /\ pc \in Canaries /\ Proceed /\ UNCHANGED <<loopVars, rows>>
          /\ window'.why = window.why
      BY <1>2 DEF CanaryPasses, Opened, Canaries
    <2>2. pc # "done" /\ InSurface' = InSurface /\ InRow' = InRow
      BY <2>1 DEF Proceed, WalkInv, InSurface, InRow, Canaries
    <2>3. QED
      BY <2>1, <2>2, <1>o, RowsStay DEF loopVars
  <1>3. CASE CanaryFails
    <2>1. pc \in Canaries /\ UNCHANGED <<loopVars, rows>> /\ window'.why = window.why
      BY <1>3 DEF CanaryFails, Canaries
    <2>2. pc' \in {"refresh", "done"} \/ (window.why = "finish" /\ pc' = "settle")
      BY <1>3 DEF CanaryFails, Halt
    <2>3. pc' = "done" \/ (pc # "done" /\ InSurface' = InSurface /\ InRow' = InRow)
      BY <2>1, <2>2 DEF InSurface, InRow, Canaries
    <2>4. QED
      BY <2>1, <2>3, <1>o, RowsStay DEF loopVars
  <1>4. CASE EnterSurface
    <2>1. /\ pc = "surface" /\ pc' = "check" /\ si' = si /\ ci' = 1 /\ rows' = rows
      BY <1>4 DEF EnterSurface, bookVars
    <2>2. /\ ~InRow /\ ~InRow' /\ Rows' = Rows
          /\ \A j \in DOMAIN SurfaceSeq, i \in DOMAIN opt.checks : Behind(j, i)' = Behind(j, i)
      BY <2>1, <1>o, ChecksCounted DEF InRow, Rows, Behind, InSurface, Canaries, WalkInv
    <2>3. QED
      BY <2>1, <2>2, <1>o DEF RowsInv, RowHolds, Chosen
  <1>5. CASE PassOver
    <2>1. /\ pc = "surface" /\ pc' = "surface" /\ si \in DOMAIN SurfaceSeq /\ si' = si + 1
          /\ ~Chosen(SurfaceSeq[si]) /\ rows' = rows
      BY <1>5, ChecksCounted DEF PassOver, bookVars, Surface, WalkInv
    <2>2. ASSUME NEW i \in DOMAIN opt.checks PROVE rows[<<SurfaceSeq[si], i>>] = "none"
      BY <2>1 DEF RowsInv, RowHolds, Behind, InSurface, InRow, Canaries, WalkInv
    <2>3. QED
      BY <2>1, <2>2, <1>o, SurfaceLeft DEF RowsInv
  <1>6. CASE SkipRest
    <2>1. /\ pc = "surface" /\ pc' = "surface" /\ si \in DOMAIN SurfaceSeq /\ si' = si + 1
          /\ Chosen(SurfaceSeq[si])
          /\ rows' = [x \in Rows |-> IF x[1] = SurfaceSeq[si] THEN "skipped" ELSE rows[x]]
      BY <1>6, ChecksCounted DEF SkipRest, Surface, WalkInv
    <2>2. \A j \in DOMAIN SurfaceSeq, i \in DOMAIN opt.checks : <<SurfaceSeq[j], i>> \in Rows
      BY ChecksCounted DEF WalkInv, Rows
    <2>3. \A j \in DOMAIN SurfaceSeq, i \in DOMAIN opt.checks :
            j # si => rows'[<<SurfaceSeq[j], i>>] = rows[<<SurfaceSeq[j], i>>]
      BY <2>1, <2>2, ScanAssumptions
    <2>4. \A i \in DOMAIN opt.checks : rows'[<<SurfaceSeq[si], i>>] = "skipped"
      BY <2>1, <2>2
    <2>5. DOMAIN rows' = Rows
      BY <2>1
    <2>6. QED
      BY <2>1, <2>3, <2>4, <2>5, <1>o, SurfaceLeft DEF Given
  <1>7. CASE LeaveSurface
    <2>1. /\ pc = "check" /\ pc' = "surface" /\ si' = si + 1 /\ rows' = rows
          /\ ci > Len(opt.checks)
      BY <1>7 DEF LeaveSurface, bookVars
    <2>2. si \in DOMAIN SurfaceSeq /\ Chosen(SurfaceSeq[si])
      BY <2>1, ChecksCounted DEF WalkInv, InSurface, Surface
    <2>3. ASSUME NEW i \in DOMAIN opt.checks PROVE Given(rows[<<SurfaceSeq[si], i>>])
      <3>1. Behind(si, i)
        BY <2>1, ChecksCounted DEF Behind, InSurface, WalkInv
      <3>2. QED
        BY <2>1, <2>2, <3>1 DEF RowsInv, RowHolds
    <2>4. QED
      BY <2>1, <2>2, <2>3, <1>o, SurfaceLeft DEF RowsInv
  <1>8. CASE CanaryDue
    BY <1>8, <1>o, RowsStay DEF CanaryDue, CanaryFor, loopVars, bookVars, InSurface, InRow,
         Canaries
  <1>9. CASE SkipRow
    BY <1>9, <1>o, RowGiven DEF SkipRow, RowDue, Given, InSurface
  <1>10. CASE OpenRow
    <2>1. pc' \in {"reading", "probing"}
      BY <1>10 DEF OpenRow
    <2>2. QED
      BY <1>10, <2>1, <1>o, RowOpened DEF OpenRow, RowDue, loopVars
  <1>11. CASE ReadTraffic \/ Conclude \/ WriteFinding \/ ProbeAnswered \/ ProbeDelayed
              \/ PointLost
    <2>1. /\ pc \in {"reading", "probing", "writing"} /\ pc' \in {"probing", "writing"}
          /\ UNCHANGED <<loopVars, rows>>
      BY <1>11 DEF ReadTraffic, Conclude, WriteFinding, ProbeAnswered, ProbeDelayed, PointLost,
           Accept, bookVars
    <2>2. pc # "done" /\ InSurface /\ InSurface' /\ InRow /\ InRow'
      BY <2>1 DEF InSurface, InRow
    <2>3. InSurface' = InSurface /\ InRow' = InRow
      BY <2>2 DEF InSurface, InRow
    <2>4. QED
      BY <2>1, <2>2, <2>3, <1>o, RowsStay DEF loopVars
  <1>12. CASE ProbeRefused
    <2>1. PICK v : v = "inconclusive" /\ rows' = [rows EXCEPT ![Row] = v]
      BY <1>12 DEF ProbeRefused
    <2>2. pc = "probing" /\ pc' = "check" /\ si' = si /\ ci' = ci + 1
      BY <1>12 DEF ProbeRefused
    <2>3. InSurface /\ ci <= Len(opt.checks)
      BY <2>2 DEF InSurface, InRow, WalkInv
    <2>4. QED
      BY <2>1, <2>2, <2>3, <1>o, RowGiven DEF Given
  <1>13. CASE CheckRaises \/ WriteFails \/ RowDone
    <2>1. PICK v : CloseRow(v) /\ Given(v)
      BY <1>13 DEF CheckRaises, WriteFails, RowDone, VerdictInv, Given
    <2>2. pc \in {"reading", "probing", "writing"} /\ si' = si
      BY <1>13 DEF CheckRaises, WriteFails, RowDone
    <2>3. InSurface /\ ci <= Len(opt.checks)
      BY <2>2 DEF InSurface, InRow, WalkInv
    <2>4. QED
      BY <2>1, <2>2, <2>3, <1>o, RowGiven DEF CloseRow
  <1>14. CASE LoopDone
    <2>1. /\ pc = "surface" /\ UNCHANGED <<loopVars, rows>>
          /\ \/ pc' = "settle"
             \/ pc' = "canary" /\ window'.why = "finish"
      BY <1>14 DEF LoopDone, CanaryFor, bookVars
    <2>2. QED
      BY <2>1, <1>o, RowsStay DEF loopVars, InSurface, InRow, Canaries
  <1>15. CASE Settle \/ MarkUnobserved \/ CloseRun \/ InterruptedAtClose
    <2>1. /\ pc \in {"settle", "mark", "close"} /\ pc' \in {"mark", "close", "done"}
          /\ UNCHANGED <<loopVars, rows>>
      BY <1>15 DEF Settle, MarkUnobserved, CloseRun, InterruptedAtClose, bookVars
    <2>2. pc # "done" /\ InSurface' = InSurface /\ InRow' = InRow
      BY <2>1 DEF InSurface, InRow, Canaries
    <2>3. QED
      BY <2>1, <2>2, <1>o, RowsStay DEF loopVars
  <1>16. CASE Interrupted
    BY <1>16, <1>o, RowsStay DEF Interrupted, Halt, loopVars, bookVars
  <1>17. CASE LoseSession \/ UNCHANGED vars
    BY <1>17, <1>o DEF LoseSession, vars, loopVars, bookVars, RowsInv, RowHolds, Behind,
         InSurface, InRow, Rows, Chosen
  <1>18. QED
    BY <1>1, <1>2, <1>3, <1>4, <1>5, <1>6, <1>7, <1>8, <1>9, <1>10, <1>11, <1>12, <1>13, <1>14,
       <1>15, <1>16, <1>17 DEF Next, TheScan
-----------------------------------------------------------------------------
(* The records of the scan, and the promise. *)

\* Everything retired from was looked at by a row that closed, or is closing,
\* with a verdict that says so.
OfferInv ==
    pc # "done" =>
        \A o \in offered :
            /\ <<o[1], o[2]>> \in Rows
            /\ \/ rows[<<o[1], o[2]>>] \in {"clean", "finding"}
               \/ pc = "writing" /\ <<o[1], o[2]>> = Row /\ verdict.considered # {}

BookInv ==
    /\ \A x \in Rows : Given(rows[x]) => Chosen(x[1])
    /\ \A x \in Rows : rows[x] = "skipped" => told.skipped
    /\ pc \notin {"close", "done"} => \A f \in findings : f.observed
    /\ pc = "open" => run = Unopened
    /\ pc \notin {"open", "done"} => run.status = "running" /\ run.told = FALSE

Inv == Shape /\ WalkInv /\ RowsInv /\ VerdictInv /\ BookInv

LEMMA BookInit == Init => VerdictInv /\ OfferInv /\ BookInv
  <1> SUFFICES ASSUME Init PROVE VerdictInv /\ OfferInv /\ BookInv
    OBVIOUS
  <1>1. \A f \in findings : f.observed
    <2>1. PICK fs \in SUBSET UNION {FindingsOf(i) : i \in DOMAIN opt.checks} : findings = fs
      BY DEF Init
    <2>2. \A i \in DOMAIN opt.checks : \A f \in FindingsOf(i) : f.observed
      BY DEF FindingsOf
    <2>3. QED
      BY <2>1, <2>2
  <1>2. QED
    BY <1>1 DEF Init, VerdictInv, OfferInv, BookInv, Given

LEMMA VerdictStep == Shape /\ WalkInv /\ VerdictInv /\ [Next]_vars => VerdictInv'
  <1> SUFFICES ASSUME Shape, WalkInv, VerdictInv, [Next]_vars PROVE VerdictInv'
    OBVIOUS
  <1>1. CASE pc' # "writing"
    BY <1>1 DEF VerdictInv
  <1>2. CASE ReadTraffic
    <2>1. Check.hook # "probes" /\ opt' = opt /\ si' = si /\ ci' = ci
      BY <1>2 DEF ReadTraffic, WalkInv, loopVars
    <2>2. PICK cands, looked, readable, gaps :
            verdict' = PassiveVerdict({<<t, Whole>> : t \in cands}, looked, readable, gaps)
      BY <1>2 DEF ReadTraffic, Accept
    <2>3. /\ verdict'.state \in {"clean", "finding", "inconclusive"}
          /\ verdict'.considered # {} => verdict'.state # "inconclusive"
      BY <2>2 DEF PassiveVerdict, Finding, Clean, Inconclusive
    <2>4. QED
      BY <2>1, <2>3 DEF VerdictInv, Check
  <1>3. CASE Conclude
    <2>1. PICK type, absent :
            Accept([RowVerdict EXCEPT !.candidates = {<<type[p], p>> : p \in @}], absent)
      BY <1>3 DEF Conclude
    <2>2. /\ RowVerdict.state \in {"clean", "finding", "inconclusive"}
          /\ RowVerdict.considered # {} => RowVerdict.state = "clean"
          /\ RowVerdict.state = "clean" => RowVerdict.candidates = {}
          /\ DOMAIN RowVerdict = {"state", "candidates", "considered"}
      BY DEF RowVerdict, ActiveVerdict, Finding, Clean, Inconclusive
    <2>3. /\ verdict'.state = RowVerdict.state /\ verdict'.considered = RowVerdict.considered
          /\ verdict'.candidates = {<<type[p], p>> : p \in RowVerdict.candidates}
      BY <2>1, <2>2 DEF Accept
    <2>4. RowVerdict.candidates = {} => verdict'.candidates = {}
      BY <2>3
    <2>5. QED
      BY <2>2, <2>3, <2>4 DEF VerdictInv
  <1>4. CASE WriteFinding
    <2>1. pc = "writing" /\ opt' = opt /\ si' = si /\ ci' = ci
      BY <1>4 DEF WriteFinding, loopVars
    <2>2. PICK c \in verdict.candidates :
            verdict' = [verdict EXCEPT !.candidates = @ \ {c}]
      BY <1>4 DEF WriteFinding
    <2>3. /\ verdict'.state = verdict.state /\ verdict'.considered = verdict.considered
          /\ verdict'.candidates # {} => verdict.candidates # {}
      BY <2>2
    <2>4. QED
      BY <2>1, <2>3 DEF VerdictInv, Check
  <1>5. CASE LoseSession \/ UNCHANGED vars
    BY <1>5 DEF LoseSession, vars, bookVars, loopVars, VerdictInv, Check
  <1>6. CASE Open \/ ResolveFails \/ Refresh \/ RefreshFails \/ CanaryPasses \/ CanaryFails
    BY <1>6, <1>1 DEF Open, ResolveFails, Refresh, RefreshFails, CanaryFor, Halt, CanaryPasses,
         Proceed, CanaryFails, WalkInv
  <1>7. CASE EnterSurface \/ PassOver \/ SkipRest \/ LeaveSurface \/ CanaryDue \/ SkipRow
             \/ LoopDone \/ OpenRow
    BY <1>7, <1>1 DEF EnterSurface, PassOver, SkipRest, LeaveSurface, CanaryDue, CanaryFor,
         SkipRow, RowDue, LoopDone, OpenRow
  <1>8. CASE ProbeAnswered \/ ProbeDelayed \/ PointLost \/ ProbeRefused \/ CheckRaises
             \/ WriteFails \/ RowDone
    BY <1>8, <1>1 DEF ProbeAnswered, ProbeDelayed, PointLost, ProbeRefused, CheckRaises,
         WriteFails, RowDone, CloseRow
  <1>9. CASE Settle \/ MarkUnobserved \/ CloseRun \/ InterruptedAtClose \/ Interrupted
    BY <1>9, <1>1 DEF Settle, MarkUnobserved, CloseRun, InterruptedAtClose, Interrupted, Halt
  <1>10. QED
    BY <1>2, <1>3, <1>4, <1>5, <1>6, <1>7, <1>8, <1>9 DEF Next, TheScan

\* What is written on the rows: nothing, the row of the walk, or the rest of a
\* surface.
LEMMA RowsWritten ==
    ASSUME Shape, WalkInv, VerdictInv, [Next]_vars
    PROVE  /\ told.skipped => told'.skipped
           /\ \/ rows' = rows
              \/ SkipRest /\ told'.skipped
              \/ /\ InSurface /\ ci <= Len(opt.checks)
                 /\ \E v : rows' = [rows EXCEPT ![Row] = v] /\ (v = "skipped" => told'.skipped)
  <1> USE DEF Shape
  <1>1. CASE Open \/ ResolveFails \/ Refresh \/ RefreshFails \/ CanaryPasses \/ CanaryFails
             \/ EnterSurface \/ PassOver \/ LeaveSurface \/ CanaryDue \/ LoopDone
    <2>1. CASE CanaryFails
      BY <2>1 DEF CanaryFails
    <2>2. CASE CanaryPasses
      BY <2>2 DEF CanaryPasses
    <2>3. QED
      BY <1>1, <2>1, <2>2 DEF Open, ResolveFails, Refresh, RefreshFails, EnterSurface, PassOver,
           LeaveSurface, CanaryDue, LoopDone, bookVars
  <1>2. CASE ReadTraffic \/ Conclude \/ WriteFinding \/ ProbeAnswered \/ ProbeDelayed
             \/ PointLost \/ Settle \/ MarkUnobserved \/ CloseRun \/ InterruptedAtClose
             \/ Interrupted \/ LoseSession \/ UNCHANGED vars
    BY <1>2 DEF ReadTraffic, Conclude, WriteFinding, ProbeAnswered, ProbeDelayed, PointLost,
         Settle, MarkUnobserved, CloseRun, InterruptedAtClose, Interrupted, LoseSession, vars,
         bookVars
  <1>3. CASE SkipRest
    BY <1>3 DEF SkipRest
  <1>4. CASE SkipRow \/ OpenRow
    <2>1. InSurface /\ ci <= Len(opt.checks)
      BY <1>4 DEF SkipRow, OpenRow, RowDue, InSurface
    <2>2. CASE SkipRow
      BY <2>1, <2>2 DEF SkipRow
    <2>3. CASE OpenRow
      BY <2>1, <2>3 DEF OpenRow
    <2>4. QED
      BY <1>4, <2>2, <2>3
  <1>5. CASE ProbeRefused \/ CheckRaises \/ WriteFails \/ RowDone
    <2>1. InSurface /\ ci <= Len(opt.checks)
      BY <1>5 DEF ProbeRefused, CheckRaises, WriteFails, RowDone, WalkInv, InSurface, InRow
    <2>2. CASE ProbeRefused
      BY <2>1, <2>2 DEF ProbeRefused
    <2>3. CASE CheckRaises \/ WriteFails \/ RowDone
      <3>1. PICK v : CloseRow(v) /\ v # "skipped"
        BY <2>3 DEF CheckRaises, WriteFails, RowDone, VerdictInv
      <3>2. rows' = [rows EXCEPT ![Row] = v] /\ (told.skipped => told'.skipped)
        BY <3>1 DEF CloseRow
      <3>3. QED
        BY <2>1, <3>1, <3>2
    <2>4. QED
      BY <1>5, <2>2, <2>3
  <1>6. QED
    BY <1>1, <1>2, <1>3, <1>4, <1>5 DEF Next, TheScan

\* The row of the walk has no verdict yet, nor has any row of a surface that
\* the walk has not entered.
LEMMA RowUngiven ==
    ASSUME WalkInv, RowsInv, pc # "done"
    PROVE  /\ InSurface /\ ci <= Len(opt.checks) => ~Given(rows[Row])
           /\ pc = "surface" /\ si <= Len(SurfaceSeq) =>
                \A i \in DOMAIN opt.checks : ~Given(rows[<<SurfaceSeq[si], i>>])
  <1>1. ASSUME InSurface, ci <= Len(opt.checks) PROVE ~Given(rows[Row])
    <2>1. /\ si \in DOMAIN SurfaceSeq /\ ci \in DOMAIN opt.checks
          /\ Row = <<SurfaceSeq[si], ci>>
      BY <1>1, RowIsOne
    <2>2. ~Behind(si, ci) /\ RowHolds(si, ci)
      BY <2>1 DEF Behind, RowsInv, WalkInv
    <2>3. QED
      BY <2>1, <2>2 DEF RowHolds, Given
  <1>2. ASSUME pc = "surface", si <= Len(SurfaceSeq), NEW i \in DOMAIN opt.checks
        PROVE  ~Given(rows[<<SurfaceSeq[si], i>>])
    <2>1. si \in DOMAIN SurfaceSeq
      BY <1>2, ChecksCounted DEF WalkInv
    <2>2. ~Behind(si, i) /\ RowHolds(si, i)
      BY <1>2, <2>1 DEF Behind, InSurface, InRow, Canaries, RowsInv, WalkInv
    <2>3. QED
      BY <2>2 DEF RowHolds, Given
  <1>3. QED
    BY <1>1, <1>2

\* A verdict that is given stands, and is given only where it was asked for.
LEMMA VerdictsStand ==
    ASSUME Shape, WalkInv, VerdictInv, RowsInv, BookInv, [Next]_vars
    PROVE  \A x \in Rows : /\ Given(rows[x]) => rows'[x] = rows[x]
                           /\ Given(rows'[x]) => Chosen(x[1])
                           /\ rows'[x] = "skipped" => told'.skipped
  <1>1. CASE rows' = rows
    BY <1>1, RowsWritten DEF BookInv
  <1>2. CASE SkipRest /\ told'.skipped
    <2>1. /\ pc = "surface" /\ si <= Len(SurfaceSeq) /\ Chosen(Surface)
          /\ rows' = [x \in Rows |-> IF x[1] = Surface THEN "skipped" ELSE rows[x]]
      BY <1>2 DEF SkipRest
    <2>2. ASSUME NEW x \in Rows, x[1] = Surface PROVE ~Given(rows[x])
      <3>1. x = <<SurfaceSeq[si], x[2]>> /\ x[2] \in DOMAIN opt.checks
        BY <2>2 DEF Rows, Surface
      <3>2. QED
        BY <2>1, <3>1, RowUngiven
    <2>3. QED
      BY <1>2, <2>1, <2>2 DEF BookInv
  <1>3. CASE /\ InSurface /\ ci <= Len(opt.checks)
             /\ \E v : rows' = [rows EXCEPT ![Row] = v] /\ (v = "skipped" => told'.skipped)
    <2>1. PICK v : rows' = [rows EXCEPT ![Row] = v] /\ (v = "skipped" => told'.skipped)
      BY <1>3
    <2>2. Row \in Rows /\ Chosen(Row[1]) /\ DOMAIN rows = Rows
      BY <1>3, RowIsOne DEF RowsInv
    <2>3. pc # "done"
      BY <1>3 DEF InSurface, InRow, Canaries
    <2>4. ~Given(rows[Row])
      BY <1>3, <2>3, RowUngiven
    <2>5. told.skipped => told'.skipped
      BY RowsWritten
    <2>6. QED
      BY <2>1, <2>2, <2>4, <2>5 DEF BookInv
  <1>4. QED
    BY <1>1, <1>2, <1>3, RowsWritten

\* A failing write ends the row in error: with what it had offered, unless the
\* check is one that probes, whose findings offer nothing.
LEMMA OfferStep ==
    ASSUME Shape, WalkInv, VerdictInv, RowsInv, OfferInv, BookInv, [Next]_vars,
           FailingWrites \subseteq {"probes"}
    PROVE  OfferInv'
  <1> USE DEF Shape
  <1>o. opt' = opt /\ Rows' = Rows
    BY OptStays DEF Rows
  <1>s. ASSUME offered' = offered, pc # "done", pc # "writing" PROVE OfferInv'
    BY <1>s, <1>o, VerdictsStand DEF OfferInv, Given
  <1>a. ASSUME NEW v, NEW absent, Accept(v, absent), pc \in {"reading", "probing"},
               UNCHANGED <<loopVars, rows>>
        PROVE  OfferInv'
    <2>1. InSurface /\ ci <= Len(opt.checks)
      BY <1>a DEF InSurface, InRow, WalkInv
    <2>2. Row = <<Surface, ci>> /\ Row \in Rows /\ Row' = Row
      BY <2>1, <1>a, RowIsOne DEF Row, Surface, loopVars
    <2>3. ASSUME NEW o \in offered', o \notin offered
          PROVE  <<o[1], o[2]>> = Row /\ verdict'.considered # {}
      <3>1. PICK t \in v.considered : o = <<Surface, ci, t, t \in absent>>
        BY <1>a, <2>3 DEF Accept
      <3>2. QED
        BY <1>a, <2>2, <3>1 DEF Accept
    <2>4. ASSUME NEW o \in offered
          PROVE  <<o[1], o[2]>> \in Rows /\ rows[<<o[1], o[2]>>] \in {"clean", "finding"}
      BY <1>a, <2>4 DEF OfferInv
    <2>5. pc' = "writing"
      BY <1>a DEF Accept
    <2>6. QED
      BY <1>o, <1>a, <2>2, <2>3, <2>4, <2>5 DEF OfferInv
  <1>1. CASE Open \/ ResolveFails \/ Refresh \/ RefreshFails \/ CanaryPasses \/ CanaryFails
             \/ EnterSurface \/ PassOver \/ LeaveSurface \/ CanaryDue \/ LoopDone
    <2>1. CASE CanaryFails \/ CanaryPasses
      BY <2>1, <1>s DEF CanaryFails, CanaryPasses
    <2>2. QED
      BY <1>1, <2>1, <1>s DEF Open, ResolveFails, Refresh, RefreshFails, EnterSurface, PassOver,
           LeaveSurface, CanaryDue, LoopDone, bookVars
  <1>2. CASE SkipRest \/ SkipRow \/ OpenRow \/ ProbeAnswered \/ ProbeDelayed \/ PointLost
             \/ ProbeRefused \/ CheckRaises
    BY <1>2, <1>s DEF SkipRest, SkipRow, OpenRow, RowDue, ProbeAnswered, ProbeDelayed,
         PointLost, ProbeRefused, CheckRaises, bookVars
  <1>3. CASE Settle \/ MarkUnobserved \/ CloseRun \/ InterruptedAtClose
    BY <1>3, <1>s DEF Settle, MarkUnobserved, CloseRun, InterruptedAtClose, bookVars
  <1>4. CASE ReadTraffic \/ Conclude
    <2>1. PICK v, absent : Accept(v, absent)
      BY <1>4 DEF ReadTraffic, Conclude
    <2>2. pc \in {"reading", "probing"} /\ UNCHANGED <<loopVars, rows>>
      BY <1>4 DEF ReadTraffic, Conclude
    <2>3. QED
      BY <2>1, <2>2, <1>a
  <1>5. CASE WriteFinding
    <2>1. /\ pc = "writing" /\ pc' = pc /\ UNCHANGED <<loopVars, rows, offered>>
          /\ verdict'.considered = verdict.considered
      BY <1>5 DEF WriteFinding
    <2>2. Row' = Row
      BY <2>1 DEF Row, Surface, loopVars
    <2>3. QED
      BY <1>o, <2>1, <2>2 DEF OfferInv
  <1>6. CASE WriteFails
    <2>1. /\ pc = "writing" /\ offered' = offered /\ pc' = "check"
          /\ verdict.candidates # {} /\ Check.hook = "probes"
      BY <1>6 DEF WriteFails, CloseRow
    <2>2. \A o \in offered : rows[<<o[1], o[2]>>] \in {"clean", "finding"}
      BY <2>1 DEF OfferInv, VerdictInv
    <2>3. QED
      BY <1>o, <2>1, <2>2, VerdictsStand DEF OfferInv, Given
  <1>7. CASE RowDone
    <2>1. /\ pc = "writing" /\ offered' = offered /\ pc' = "check"
          /\ rows' = [rows EXCEPT ![Row] = verdict.state]
      BY <1>7 DEF RowDone, CloseRow
    <2>2. ASSUME NEW o \in offered PROVE rows'[<<o[1], o[2]>>] \in {"clean", "finding"}
      <3>1. CASE rows[<<o[1], o[2]>>] \in {"clean", "finding"}
        BY <2>1, <3>1, VerdictsStand DEF OfferInv, Given
      <3>2. CASE <<o[1], o[2]>> = Row /\ verdict.considered # {}
        BY <2>1, <3>2 DEF OfferInv, VerdictInv, RowsInv
      <3>3. QED
        BY <2>1, <3>1, <3>2 DEF OfferInv
    <2>3. QED
      BY <1>o, <2>1, <2>2 DEF OfferInv
  <1>8. CASE Interrupted
    BY <1>8 DEF Interrupted, Halt, OfferInv
  <1>9. CASE LoseSession \/ UNCHANGED vars
    BY <1>9, <1>o DEF LoseSession, vars, bookVars, loopVars, OfferInv, Row, Surface
  <1>10. QED
    BY <1>1, <1>2, <1>3, <1>4, <1>5, <1>6, <1>7, <1>8, <1>9 DEF Next, TheScan

\* The scan's own view of its run row and its findings.
LEMMA BookStep ==
    ASSUME Shape, WalkInv, VerdictInv, RowsInv, BookInv, [Next]_vars
    PROVE  BookInv'
  <1> USE DEF Shape
  <1>1. /\ \A x \in Rows' : Given(rows'[x]) => Chosen(x[1])'
        /\ \A x \in Rows' : rows'[x] = "skipped" => told'.skipped
    BY OptStays, VerdictsStand DEF Rows, Chosen
  <1>s. ASSUME pc # "open", run' = run, pc' # "open",
               pc' # "done" => pc # "done",
               pc' \notin {"close", "done"} =>
                 pc # "close" /\ (findings' = findings \/ \A f \in findings' : f.observed)
        PROVE  BookInv'
    BY <1>1, <1>s DEF BookInv
  <1>h. ASSUME NEW state, Halt(state) PROVE BookInv'
    BY <1>1, <1>h DEF BookInv, Halt
  <1>2. CASE Open \/ ResolveFails
    BY <1>1, <1>2 DEF Open, ResolveFails, CanaryFor, Unopened, bookVars, BookInv
  <1>3. CASE CanaryPasses
    <2>1. pc' \in {"surface", "check", "settle"}
      BY <1>3 DEF CanaryPasses, Proceed, WalkInv
    <2>2. QED
      BY <1>3, <2>1, <1>s DEF CanaryPasses
  <1>4. CASE CanaryFails
    <2>1. Halt("dead") \/ (run' = run /\ pc' \in {"settle", "refresh"})
      BY <1>4 DEF CanaryFails
    <2>2. QED
      BY <1>4, <2>1, <1>s, <1>h DEF CanaryFails
  <1>5. CASE Refresh \/ EnterSurface \/ PassOver \/ LeaveSurface \/ CanaryDue \/ LoopDone
    BY <1>5, <1>s DEF Refresh, EnterSurface, PassOver, LeaveSurface, CanaryDue, CanaryFor,
         LoopDone, bookVars
  <1>6. CASE RefreshFails \/ Interrupted
    BY <1>6, <1>h DEF RefreshFails, Interrupted
  <1>7. CASE SkipRest \/ SkipRow \/ OpenRow \/ ProbeAnswered \/ ProbeDelayed \/ PointLost
             \/ ProbeRefused
    BY <1>7, <1>s DEF SkipRest, SkipRow, OpenRow, RowDue, ProbeAnswered, ProbeDelayed,
         PointLost, ProbeRefused, bookVars
  <1>8. CASE ReadTraffic \/ Conclude \/ CheckRaises \/ WriteFails \/ RowDone
    BY <1>8, <1>s DEF ReadTraffic, Conclude, Accept, CheckRaises, WriteFails, RowDone, CloseRow
  <1>9. CASE WriteFinding
    <2>1. pc = "writing" /\ pc' = pc /\ run' = run
      BY <1>9 DEF WriteFinding
    <2>2. PICK k : findings' = Upserted(findings, k, ci, Surface)
      BY <1>9 DEF WriteFinding
    <2>3. \A f \in findings' : f.observed
      BY <2>1, <2>2 DEF Upserted, Observed, BookInv
    <2>4. QED
      BY <2>1, <2>3, <1>s
  <1>10. CASE Settle
    <2>1. /\ pc = "settle" /\ pc' = "mark" /\ findings' = findings
          /\ run'.status = run.status /\ run'.told = run.told
      BY <1>10 DEF Settle, bookVars
    <2>2. QED
      BY <1>1, <2>1 DEF BookInv
  <1>11. CASE MarkUnobserved
    BY <1>11, <1>s DEF MarkUnobserved
  <1>12. CASE CloseRun \/ InterruptedAtClose
    BY <1>1, <1>12 DEF CloseRun, InterruptedAtClose, bookVars, BookInv
  <1>13. CASE LoseSession \/ UNCHANGED vars
    BY <1>1, <1>13 DEF LoseSession, vars, bookVars, BookInv
  <1>14. QED
    BY <1>2, <1>3, <1>4, <1>5, <1>6, <1>7, <1>8, <1>9, <1>10, <1>11, <1>12, <1>13
       DEF Next, TheScan

LEMMA InvInit == Init => Inv
  BY ScanInit, WalkInit, BookInit DEF Inv

LEMMA InvStep == Inv /\ [Next]_vars => Inv'
  BY ShapeStep, WalkStep, VerdictStep, RowsStep, BookStep DEF Inv
-----------------------------------------------------------------------------
(* The refinement: what the records show of the scan, step by step. *)

Asked == {x \in Rows : Chosen(x[1])}
Verdicts == [x \in {y \in Rows : rows[y] \notin {"none", "pending"}} |-> rows[x]]
Retired == {<<f.surface, f.check>> : f \in {g \in findings : ~g.observed}}

\* Before the last step the verdicts are those of the pairs asked for, and
\* nothing is retired.
LEMMA ShownSoFar ==
    ASSUME WalkInv, RowsInv, BookInv
    PROVE  /\ DOMAIN Verdicts \subseteq Asked
           /\ pc \notin {"close", "done"} => Retired = {}
           /\ pc \in {"mark", "close"} => DOMAIN Verdicts = Asked
  <1>1. DOMAIN Verdicts \subseteq Asked
    BY DEF Verdicts, Asked, BookInv, Given
  <1>2. pc \notin {"close", "done"} => Retired = {}
    BY DEF Retired, BookInv
  <1>3. ASSUME pc \in {"mark", "close"} PROVE Asked \subseteq DOMAIN Verdicts
    <2>1. SUFFICES ASSUME NEW x \in Rows, Chosen(x[1]) PROVE Given(rows[x])
      BY DEF Asked, Verdicts, Given
    <2>2. x[1] \in Surfaces /\ x[2] \in DOMAIN opt.checks /\ x = <<x[1], x[2]>>
      BY DEF Rows
    <2>3. PICK j \in DOMAIN SurfaceSeq : SurfaceSeq[j] = x[1]
      BY <2>2, ScanAssumptions
    <2>4. Behind(j, x[2])
      BY <1>3, ChecksCounted DEF Behind, WalkInv, Over
    <2>5. QED
      BY <1>3, <2>1, <2>2, <2>3, <2>4 DEF RowsInv, RowHolds
  <1>4. QED
    BY <1>1, <1>2, <1>3

\* A step of the walk gives verdicts, or none.
LEMMA Deciding ==
    ASSUME WalkInv, RowsInv, BookInv, BookInv',
           opt' = opt, run' = run, pc \notin {"open", "close", "done"},
           pc' \notin {"open", "close", "done"},
           \A x \in Rows : Given(rows[x]) => rows'[x] = rows[x]
    PROVE  Promise!Decide
  <1>1. Retired = {} /\ Retired' = {}
    BY ShownSoFar DEF Retired, BookInv
  <1>2. Asked' = Asked /\ Rows' = Rows
    BY DEF Asked, Rows, Chosen
  <1>3. /\ DOMAIN Verdicts \subseteq DOMAIN Verdicts'
        /\ \A x \in DOMAIN Verdicts : Verdicts'[x] = Verdicts[x]
    BY <1>2 DEF Verdicts, Given
  <1>4. DOMAIN Verdicts' \subseteq Asked
    BY <1>2 DEF Verdicts, Asked, BookInv, Given
  <1>5. run.status = "running"
    BY DEF BookInv
  <1>6. QED
    BY <1>1, <1>2, <1>3, <1>4, <1>5
       DEF Promise!Decide, Promise!Decided, Asked, Verdicts, Retired

\* Nothing a reader of the records can see has changed.
LEMMA Unseen ==
    ASSUME opt' = opt, rows' = rows, findings' = findings,
           run'.status = run.status, run'.told = run.told
    PROVE  UNCHANGED Promise!vars
  BY DEF Promise!vars, Rows, Chosen

LEMMA BrokenOffTells ==
    ASSUME Shape, BookInv, NEW state, Halt(state), pc \notin {"open", "done"},
           opt' = opt, rows' = rows, findings' = findings
    PROVE  Promise!BreakOff
  <1>1. run.status = "running" /\ run'.status = "error" /\ run'.told = TRUE
    BY DEF Halt, BookInv
  <1>2. QED
    BY <1>1 DEF Promise!BreakOff, Rows, Chosen

LEMMA PromiseInit == Init => Promise!Init
  <1> SUFFICES ASSUME Init PROVE Promise!Init
    OBVIOUS
  <1>1. BookInv /\ pc = "open" /\ run = Unopened /\ \A x \in Rows : rows[x] = "none"
    BY BookInit DEF Init
  <1>2. Verdicts = <<>>
    <2>1. {y \in Rows : rows[y] \notin {"none", "pending"}} = {}
      BY <1>1
    <2>2. Verdicts = [x \in {} |-> rows[x]]
      BY <2>1 DEF Verdicts
    <2>3. QED
      BY <2>2
  <1>3. Retired = {}
    BY <1>1 DEF Retired, BookInv
  <1>4. QED
    BY <1>1, <1>2, <1>3 DEF Promise!Init, Verdicts, Retired, Unopened

LEMMA PromiseStep ==
    ASSUME Shape, WalkInv, VerdictInv, RowsInv, OfferInv, BookInv, BookInv', [Next]_vars
    PROVE  [Promise!Next]_Promise!vars
  <1> USE DEF Shape
  <1>o. opt' = opt /\ Rows' = Rows
    BY OptStays DEF Rows
  <1>d. ASSUME run' = run, pc \notin {"open", "close", "done"},
               pc' \notin {"open", "close", "done"}
        PROVE  Promise!Next
    BY <1>d, <1>o, Deciding, VerdictsStand DEF Promise!Next
  <1>1. CASE Open \/ ResolveFails
    <2>1. /\ run.status = "none" /\ run'.status \in {"running", "error"}
          /\ run'.told = (run'.status = "error") /\ rows' = rows /\ findings' = findings
      <3>1. run.status = "none"
        BY <1>1 DEF Open, ResolveFails, Unopened, BookInv
      <3>2. CASE Open
        BY <3>1, <3>2 DEF Open, Unopened, bookVars
      <3>3. CASE ResolveFails
        BY <3>1, <3>3 DEF ResolveFails, Unopened, bookVars
      <3>4. QED
        BY <1>1, <3>2, <3>3
    <2>2. Promise!Begin
      BY <2>1, <1>o DEF Promise!Begin, Rows, Chosen
    <2>3. QED
      BY <2>2 DEF Promise!Next
  <1>2. CASE CanaryPasses
    <2>1. pc' \in {"surface", "check", "settle"}
      BY <1>2 DEF CanaryPasses, Proceed, WalkInv
    <2>2. QED
      BY <1>2, <2>1, <1>d DEF CanaryPasses
  <1>3. CASE CanaryFails
    <2>1. /\ pc \in {"canary", "again"} /\ UNCHANGED <<rows, findings>>
          /\ Halt("dead") \/ (run' = run /\ pc' \in {"settle", "refresh"})
      BY <1>3 DEF CanaryFails
    <2>2. QED
      BY <2>1, <1>o, <1>d, BrokenOffTells DEF Promise!Next
  <1>4. CASE RefreshFails \/ Interrupted
    <2>1. PICK state : Halt(state)
      BY <1>4 DEF RefreshFails, Interrupted
    <2>2. pc \notin {"open", "done"} /\ UNCHANGED <<rows, findings>>
      BY <1>4 DEF RefreshFails, Interrupted, bookVars
    <2>3. QED
      BY <2>1, <2>2, <1>o, BrokenOffTells DEF Promise!Next
  <1>5. CASE Refresh \/ EnterSurface \/ PassOver \/ LeaveSurface \/ CanaryDue \/ LoopDone
    BY <1>5, <1>d DEF Refresh, EnterSurface, PassOver, LeaveSurface, CanaryDue, CanaryFor,
         LoopDone
  <1>6. CASE SkipRest \/ SkipRow \/ OpenRow \/ ProbeAnswered \/ ProbeDelayed \/ PointLost
             \/ ProbeRefused
    BY <1>6, <1>d DEF SkipRest, SkipRow, OpenRow, RowDue, ProbeAnswered, ProbeDelayed,
         PointLost, ProbeRefused
  <1>7. CASE ReadTraffic \/ Conclude \/ CheckRaises \/ WriteFinding \/ WriteFails \/ RowDone
    BY <1>7, <1>d DEF ReadTraffic, Conclude, Accept, CheckRaises, WriteFinding, WriteFails,
         RowDone, CloseRow
  <1>8. CASE Settle
    BY <1>8, <1>o, Unseen DEF Settle, bookVars
  <1>9. CASE MarkUnobserved
    <2>1. /\ pc = "mark" /\ rows' = rows /\ run' = run
          /\ findings' = {IF f.key \notin seen
                               /\ <<f.surface, f.check, f.key.type>> \in Considered
                             THEN Observed(f, FALSE) ELSE f : f \in findings}
      BY <1>9 DEF MarkUnobserved
    <2>2. DOMAIN Verdicts = Asked /\ Retired = {}
      BY <2>1, ShownSoFar
    <2>3. ASSUME NEW g \in findings', ~g.observed
          PROVE  <<g.surface, g.check>> \in DOMAIN Verdicts
                 /\ Verdicts[<<g.surface, g.check>>] \in {"clean", "finding"}
      <3>1. PICK f \in findings :
              g = IF f.key \notin seen /\ <<f.surface, f.check, f.key.type>> \in Considered
                    THEN Observed(f, FALSE) ELSE f
        BY <2>1, <2>3
      <3>2. f.observed
        BY <2>1 DEF BookInv
      <3>3. /\ <<f.surface, f.check, f.key.type>> \in Considered
            /\ g = Observed(f, FALSE)
        BY <2>3, <3>1, <3>2
      <3>4. PICK o \in offered : <<o[1], o[2], o[3]>> = <<f.surface, f.check, f.key.type>>
        BY <3>3 DEF Considered
      <3>5. <<f.surface, f.check>> \in Rows
            /\ rows[<<f.surface, f.check>>] \in {"clean", "finding"}
        BY <2>1, <3>4 DEF OfferInv
      <3>6. g.surface = f.surface /\ g.check = f.check
        BY <3>3 DEF Observed
      <3>7. QED
        BY <3>5, <3>6 DEF Verdicts
    <2>4. Retired' \subseteq {x \in DOMAIN Verdicts : Verdicts[x] \in {"clean", "finding"}}
      BY <2>3 DEF Retired
    <2>5. run.status = "running"
      BY <2>1 DEF BookInv
    <2>6. Verdicts' = Verdicts /\ Asked' = Asked
      BY <2>1, <1>o DEF Verdicts, Asked, Rows, Chosen
    <2>7. Promise!Retire
      BY <2>1, <2>2, <2>4, <2>5, <2>6
         DEF Promise!Retire, Promise!Decided, Asked, Verdicts, Retired
    <2>8. QED
      BY <2>7 DEF Promise!Next
  <1>10. CASE CloseRun
    <2>1. /\ pc = "close" /\ UNCHANGED <<rows, findings>> /\ run'.status = "completed"
          /\ run'.told = (told.skipped \/ told.refused)
      BY <1>10 DEF CloseRun, bookVars
    <2>2. run.status = "running" /\ DOMAIN Verdicts = Asked
      BY <2>1, ShownSoFar DEF BookInv
    <2>3. (\E x \in DOMAIN Verdicts : Verdicts[x] = "skipped") => run'.told
      BY <2>1 DEF Verdicts, BookInv
    <2>4. run'.told \in BOOLEAN
      BY <2>1
    <2>5. Verdicts' = Verdicts /\ Asked' = Asked /\ Retired' = Retired
      BY <2>1, <1>o DEF Verdicts, Asked, Retired, Rows, Chosen
    <2>6. Promise!Complete
      BY <2>1, <2>2, <2>3, <2>4, <2>5
         DEF Promise!Complete, Promise!Decided, Asked, Verdicts, Retired
    <2>7. QED
      BY <2>6 DEF Promise!Next
  <1>11. CASE InterruptedAtClose \/ LoseSession \/ UNCHANGED vars
    BY <1>11, <1>o, Unseen DEF InterruptedAtClose, LoseSession, vars, bookVars
  <1>12. QED
    BY <1>1, <1>2, <1>3, <1>4, <1>5, <1>6, <1>7, <1>8, <1>9, <1>10, <1>11 DEF Next, TheScan

\* Where only the findings of checks that probe may fail to be stored, every
\* scan implements its promise, for any surfaces, checks and options: no verdict
\* is revised, nothing is retired before the last verdict or on a row that did
\* not look, and a closed run says what it left out (scan.run,
\* scan._mark_unobserved, scan._tallies).
THEOREM PromiseHolds == FailingWrites \subseteq {"probes"} => (Spec => KeepsItsPromise)
  <1> SUFFICES ASSUME FailingWrites \subseteq {"probes"} PROVE Spec => KeepsItsPromise
    OBVIOUS
  <1>1. Init => Inv /\ OfferInv
    BY InvInit, BookInit
  <1>2. (Inv /\ OfferInv) /\ [Next]_vars => (Inv /\ OfferInv)'
    BY InvStep, OfferStep DEF Inv
  <1>3. (Inv /\ OfferInv) /\ (Inv /\ OfferInv)' /\ [Next]_vars => [Promise!Next]_Promise!vars
    BY PromiseStep DEF Inv
  <1>4. QED
    BY <1>1, <1>2, <1>3, PromiseInit, PTL DEF Spec, KeepsItsPromise, Promise!Spec
-----------------------------------------------------------------------------
(* What a closed run says of itself. *)

\* What was refused is told, by the tallies or by the open row's sender.
RefusedTold == pc # "done" => (truth.refused <=> told.refused \/ sender.refused)

ToldInv ==
    /\ RefusedTold
    /\ sender.refused => pc \in {"probing", "writing", "done"}
    /\ told.skipped => \E x \in Rows : rows[x] = "skipped"
    /\ TruncationIsTold

LEMMA ToldInit == Init => ToldInv
  BY DEF Init, RowInit, NoSender, Unopened, ToldInv, RefusedTold, TruncationIsTold

\* The rows of a run about to close are as it was asked.
LEMMA AllDecided ==
    ASSUME WalkInv, RowsInv, pc = "close"
    PROVE  \A x \in Rows : IF Chosen(x[1]) THEN rows[x] \notin {"none", "pending"}
                                            ELSE rows[x] = "none"
  <1> SUFFICES ASSUME NEW x \in Rows
               PROVE  IF Chosen(x[1]) THEN Given(rows[x]) ELSE rows[x] = "none"
    BY DEF Given
  <1>1. x[1] \in Surfaces /\ x[2] \in DOMAIN opt.checks /\ x = <<x[1], x[2]>>
    BY DEF Rows
  <1>2. PICK j \in DOMAIN SurfaceSeq : SurfaceSeq[j] = x[1]
    BY <1>1, ScanAssumptions
  <1>3. Behind(j, x[2])
    BY ChecksCounted DEF Behind, WalkInv, Over
  <1>4. QED
    BY <1>1, <1>2, <1>3 DEF RowsInv, RowHolds

LEMMA ToldStep ==
    ASSUME Inv, ToldInv, [Next]_vars
    PROVE  ToldInv'
  <1> USE DEF Shape, Inv
  <1>o. opt' = opt /\ Rows' = Rows
    BY OptStays DEF Rows
  <1>k. ASSUME \E x \in Rows : rows[x] = "skipped" PROVE \E x \in Rows' : rows'[x] = "skipped"
    BY <1>k, <1>o, VerdictsStand DEF Given
  <1>r. pc \notin {"done"} => run.status # "completed"
    BY DEF BookInv, Unopened
  \* A step that leaves the run open.
  <1>s. ASSUME run' = run, pc # "done", RefusedTold',
               sender'.refused => pc' \in {"probing", "writing", "done"},
               told'.skipped => told.skipped \/ \E x \in Rows : rows'[x] = "skipped"
        PROVE  ToldInv'
    BY <1>s, <1>o, <1>k, <1>r DEF ToldInv, TruncationIsTold
  <1>h. ASSUME NEW state, Halt(state), rows' = rows, told'.skipped = told.skipped
        PROVE  ToldInv'
    BY <1>h, <1>o, <1>k DEF Halt, ToldInv, RefusedTold, TruncationIsTold
  <1>1. CASE Open \/ ResolveFails
    BY ZenonT(60), <1>1, <1>o, <1>k
    DEF Open, ResolveFails, CanaryFor, Unopened, bookVars, rowVars, ToldInv,
        RefusedTold, TruncationIsTold
  <1>2. CASE CanaryPasses
    <2>1. pc \in {"canary", "again"} /\ UNCHANGED <<told, truth, run, sender, rows>>
      BY <1>2 DEF CanaryPasses
    <2>2. QED
      BY <2>1, <1>s DEF ToldInv, RefusedTold
  <1>3. CASE CanaryFails
    <2>1. PICK refused \in BOOLEAN :
            /\ told' = [told EXCEPT !.refused = @ \/ refused]
            /\ truth' = [truth EXCEPT !.refused = @ \/ refused]
      BY <1>3 DEF CanaryFails
    <2>2. /\ pc \in {"canary", "again"} /\ UNCHANGED <<sender, rows>>
          /\ run' = run \/ Halt("dead")
      BY <1>3 DEF CanaryFails
    <2>3. QED
      BY <2>1, <2>2, <1>s, <1>h DEF ToldInv, RefusedTold
  <1>4. CASE Refresh \/ EnterSurface \/ PassOver \/ LeaveSurface \/ CanaryDue \/ LoopDone
    BY <1>4, <1>s DEF Refresh, EnterSurface, PassOver, LeaveSurface, CanaryDue, CanaryFor,
         LoopDone, bookVars, rowVars, ToldInv, RefusedTold
  <1>5. CASE RefreshFails \/ Interrupted
    BY <1>5, <1>h DEF RefreshFails, Interrupted, bookVars
  <1>6. CASE SkipRest
    <2>1. /\ pc = "surface" /\ pc' = pc /\ UNCHANGED <<truth, run, sender>>
          /\ told'.refused = told.refused
          /\ rows' = [x \in Rows |-> IF x[1] = Surface THEN "skipped" ELSE rows[x]]
      BY <1>6 DEF SkipRest, rowVars
    <2>2. \E x \in Rows : rows'[x] = "skipped"
      <3>1. Surface \in Surfaces /\ 1 \in DOMAIN opt.checks
        BY <1>6, ScanAssumptions DEF SkipRest, Surface, WalkInv
      <3>2. <<Surface, 1>> \in Rows /\ <<Surface, 1>>[1] = Surface
        BY <3>1 DEF Rows
      <3>3. QED
        BY <2>1, <3>2
    <2>3. QED
      BY <2>1, <2>2, <1>s DEF ToldInv, RefusedTold
  <1>7. CASE SkipRow
    <2>1. /\ pc = "check" /\ pc' = pc /\ UNCHANGED <<truth, run, sender>>
          /\ told'.refused = told.refused /\ ci <= Len(opt.checks)
          /\ rows' = [rows EXCEPT ![Row] = "skipped"]
      BY <1>7 DEF SkipRow, RowDue, rowVars
    <2>2. Row \in Rows /\ DOMAIN rows = Rows
      BY <2>1, RowIsOne DEF InSurface, RowsInv
    <2>3. rows'[Row] = "skipped"
      BY <2>1, <2>2
    <2>4. QED
      BY <2>1, <2>2, <2>3, <1>s DEF ToldInv, RefusedTold
  <1>8. CASE OpenRow
    <2>1. pc = "check" /\ UNCHANGED <<told, truth, run>>
      BY <1>8 DEF OpenRow, RowDue
    <2>2. sender'.refused <=> FALSE
      BY <1>8, <2>1 DEF OpenRow, StartRow, NoSender, rowVars, ToldInv
    <2>3. QED
      BY <2>1, <2>2, <1>s DEF ToldInv, RefusedTold
  <1>9. CASE ReadTraffic \/ Conclude \/ WriteFinding
    <2>1. /\ pc \in {"reading", "probing", "writing"} /\ pc' = "writing"
          /\ UNCHANGED <<told, truth, run, sender>>
      BY <1>9 DEF ReadTraffic, Conclude, WriteFinding, Accept, rowVars
    <2>2. QED
      BY <2>1, <1>s DEF ToldInv, RefusedTold
  <1>10. CASE ProbeAnswered \/ ProbeDelayed
    <2>1. /\ pc = "probing" /\ pc' = pc /\ UNCHANGED <<told, run>>
          /\ sender'.refused = sender.refused /\ truth'.refused = truth.refused
      BY <1>10 DEF ProbeAnswered, ProbeDelayed, Answered, RateLimited, bookVars
    <2>2. QED
      BY <2>1, <1>s DEF ToldInv, RefusedTold
  <1>11. CASE PointLost
    <2>1. /\ pc = "probing" /\ pc' = pc /\ UNCHANGED <<told, run>>
          /\ sender'.refused = TRUE /\ truth'.refused = TRUE
      BY <1>11 DEF PointLost, PointRefused, RefusedProbe
    <2>2. QED
      BY <2>1, <1>s DEF ToldInv, RefusedTold
  <1>12. CASE ProbeRefused
    <2>1. /\ pc = "probing" /\ run' = run /\ told'.refused = TRUE /\ truth'.refused = TRUE
          /\ told'.skipped = told.skipped /\ sender'.refused = FALSE
      BY <1>12 DEF ProbeRefused, NoSender
    <2>2. QED
      BY <2>1, <1>s DEF ToldInv, RefusedTold
  <1>13. CASE CheckRaises \/ WriteFails \/ RowDone
    <2>1. PICK v : CloseRow(v)
      BY <1>13 DEF CheckRaises, WriteFails, RowDone
    <2>2. pc \in {"reading", "probing", "writing"} /\ UNCHANGED <<run, truth>>
      BY <1>13 DEF CheckRaises, WriteFails, RowDone
    <2>3. /\ told'.refused = (told.refused \/ sender.refused)
          /\ told'.skipped = told.skipped /\ sender'.refused = FALSE
      BY <2>1 DEF CloseRow, NoSender
    <2>4. QED
      BY <2>2, <2>3, <1>s DEF ToldInv, RefusedTold
  <1>14. CASE Settle \/ MarkUnobserved
    <2>1. /\ pc \in {"settle", "mark"} /\ pc' \in {"mark", "close"}
          /\ run'.status = run.status /\ UNCHANGED <<rows, told, truth, sender>>
      BY <1>14 DEF Settle, MarkUnobserved, bookVars, rowVars
    <2>2. QED
      BY <2>1, <1>o, <1>r DEF ToldInv, RefusedTold, TruncationIsTold
  <1>15. CASE CloseRun
    <2>1. /\ pc = "close" /\ pc' = "done" /\ UNCHANGED <<rows, told, truth, sender>>
          /\ run'.told = (told.skipped \/ told.refused)
      BY <1>15 DEF CloseRun, bookVars, rowVars
    <2>2. truth.refused <=> told.refused
      BY <2>1 DEF ToldInv, RefusedTold
    <2>3. told.skipped <=> \E x \in Rows : rows[x] = "skipped"
      BY DEF ToldInv, BookInv
    <2>4. TruncationIsTold'
      BY <2>1, <2>2, <2>3, <1>o, AllDecided DEF TruncationIsTold, Chosen
    <2>5. QED
      BY <2>1, <2>3, <2>4, <1>o DEF ToldInv, RefusedTold
  <1>16. CASE InterruptedAtClose
    BY <1>16, <1>o, <1>r DEF InterruptedAtClose, bookVars, rowVars, ToldInv, RefusedTold,
         TruncationIsTold
  <1>17. CASE LoseSession \/ UNCHANGED vars
    BY <1>17, <1>o DEF LoseSession, SessionDies, vars, bookVars, rowVars, ToldInv, RefusedTold,
         TruncationIsTold, Chosen
  <1>18. QED
    BY <1>1, <1>2, <1>3, <1>4, <1>5, <1>6, <1>7, <1>8, <1>9, <1>10, <1>11, <1>12, <1>13, <1>14,
       <1>15, <1>16, <1>17 DEF Next, TheScan

\* A completed run has decided every pair it was asked for, and says that
\* something is missing exactly when a row was skipped or a request was refused,
\* whichever check, point or canary it was refused to (scan._tallies).
THEOREM TruncationHolds == Spec => []TruncationIsTold
  <1>1. (Inv /\ ToldInv) /\ [Next]_vars => (Inv /\ ToldInv)'
    BY InvStep, ToldStep
  <1>2. ToldInv => TruncationIsTold
    BY DEF ToldInv
  <1>3. QED
    BY InvInit, ToldInit, <1>1, <1>2, PTL DEF Spec
-----------------------------------------------------------------------------
(* The loop of a check that probes. *)

\* What a sequence holds of a set is a sequence.
LEMMA KeptIsSeq ==
    ASSUME NEW T, NEW seq \in Seq(T), NEW S
    PROVE  \E U : Kept(seq, S) \in Seq(U)
  <1> DEFINE hits == {i \in DOMAIN seq : seq[i] \in S}
             f == Picked(seq, hits)
             U == {f[k] : k \in DOMAIN f}
  <1>1. Cardinality(hits) \in Nat
    <2>1. IsFiniteSet(DOMAIN seq) /\ hits \subseteq DOMAIN seq
      BY FS_Interval
    <2>2. QED
      BY <2>1, FS_Subset, FS_CardinalityType
  <1> HIDE DEF hits
  <1>2. f \in Seq(U)
    BY <1>1 DEF Picked
  <1>3. Kept(seq, S) = f
    BY DEF Kept, hits
  <1>4. QED
    BY <1>2, <1>3

LEMMA WantedIsSeq ==
    ASSUME NEW c, NEW s \in Surfaces
    PROVE  \E T : Wanted(c, s) \in Seq(T)
  <1>1. PointsOf[s] \in Seq(DOMAIN KindOf)
    BY RowAssumptions
  <1>2. PICK T : Declared(c, s) \in Seq(T)
    BY <1>1, KeptIsSeq DEF Declared
  <1>3. PICK U : Usable(c, s) \in Seq(U)
    BY <1>2, KeptIsSeq DEF Usable
  <1>4. \E V : Kept(Usable(c, s), Hinted) \in Seq(V)
    BY <1>3, KeptIsSeq
  <1>5. <<Whole>> \in Seq({Whole})
    OBVIOUS
  <1>6. QED
    BY <1>3, <1>4, <1>5 DEF Wanted

\* What is to come of a loop.
Remaining(p) == {p.todo[n] : n \in DOMAIN p.todo}

IsLoop(p) ==
    /\ DOMAIN p = {"check", "todo", "second", "gaps", "found", "probed", "compared", "dark"}
    /\ \E T : p.todo \in Seq(T)

\* A loop without a finding and a gap has read an answer wherever it has been.
Covers(p, wanted) ==
    p.found = {} /\ ~p.gaps => p.compared \cup Remaining(p) = wanted

LEMMA NextPointIs ==
    ASSUME NEW p, IsLoop(p), p.todo # <<>>
    PROVE  /\ IsLoop(NextPoint(p))
           /\ Remaining(p) = {Head(p.todo)} \cup Remaining(NextPoint(p))
           /\ NextPoint(p).check = p.check /\ NextPoint(p).found = p.found
           /\ NextPoint(p).gaps = p.gaps /\ NextPoint(p).compared = p.compared
           /\ NextPoint(p).dark = p.dark
  <1>1. PICK T : p.todo \in Seq(T)
    BY DEF IsLoop
  <1>2. NextPoint(p) = [p EXCEPT !.todo = Tail(p.todo), !.second = FALSE]
    BY DEF NextPoint
  <1>3. DOMAIN NextPoint(p) = DOMAIN p /\ NextPoint(p).todo = Tail(p.todo)
    BY <1>2 DEF IsLoop
  <1>4. Tail(p.todo) \in Seq(T)
    BY <1>1
  <1>5. Remaining(p) = {Head(p.todo)} \cup Remaining(NextPoint(p))
    <2>1. /\ Len(p.todo) \in Nat \ {0} /\ DOMAIN p.todo = 1..Len(p.todo)
          /\ DOMAIN Tail(p.todo) = 1..(Len(p.todo) - 1)
          /\ Head(p.todo) = p.todo[1]
          /\ \A n \in 1..(Len(p.todo) - 1) : Tail(p.todo)[n] = p.todo[n + 1]
      BY <1>1
    <2>2. \A n \in 1..Len(p.todo) : n = 1 \/ n \in 2..Len(p.todo)
      BY <2>1
    <2>3. \A n \in 2..Len(p.todo) :
            n - 1 \in DOMAIN Tail(p.todo) /\ p.todo[n] = Tail(p.todo)[n - 1]
      BY <2>1
    <2>4. Remaining(NextPoint(p)) = {Tail(p.todo)[n] : n \in DOMAIN Tail(p.todo)}
      BY <1>3 DEF Remaining
    <2>5. ASSUME NEW n \in DOMAIN p.todo
          PROVE  p.todo[n] \in {Head(p.todo)} \cup Remaining(NextPoint(p))
      BY <2>1, <2>2, <2>3, <2>4, <2>5
    <2>6. ASSUME NEW n \in DOMAIN Tail(p.todo)
          PROVE  n + 1 \in DOMAIN p.todo /\ Tail(p.todo)[n] = p.todo[n + 1]
      BY <2>1, <2>6
    <2>7. 1 \in DOMAIN p.todo
      BY <2>1
    <2>8. Remaining(NextPoint(p)) \subseteq Remaining(p)
      BY <2>4, <2>6 DEF Remaining
    <2>9. Head(p.todo) \in Remaining(p)
      BY <2>1, <2>7 DEF Remaining
    <2>10. Remaining(p) \subseteq {Head(p.todo)} \cup Remaining(NextPoint(p))
      BY <2>5 DEF Remaining
    <2>11. QED
      BY <2>8, <2>9, <2>10
  <1>6. QED
    BY <1>2, <1>3, <1>4, <1>5 DEF IsLoop

\* One iteration keeps what the loop has done: a match is a finding, a status
\* that is no answer a gap, and otherwise the point was read.
LEMMA SingleCovers ==
    ASSUME NEW p, IsLoop(p), p.todo # <<>>, NEW wanted, Covers(p, wanted), NEW answer
    PROVE  /\ IsLoop(AfterSingle(p, answer)) /\ AfterSingle(p, answer).check = p.check
           /\ AfterSingle(p, answer).dark = p.dark
           /\ Covers(AfterSingle(p, answer), wanted)
  <1> DEFINE point == {Head(p.todo)}
             q == [p EXCEPT !.probed = TRUE]
             hit == [q EXCEPT !.found = @ \cup point]
             gap == [q EXCEPT !.gaps = TRUE]
             read == [q EXCEPT !.compared = @ \cup point]
  <1>1. ASSUME NEW r \in {hit, gap, read}
        PROVE  /\ IsLoop(r) /\ r.todo = p.todo /\ r.check = p.check
               /\ IsLoop(NextPoint(r)) /\ NextPoint(r).check = p.check
               /\ NextPoint(r).dark = p.dark
               /\ Remaining(p) = point \cup Remaining(NextPoint(r))
    <2>1. IsLoop(r) /\ r.todo = p.todo /\ r.check = p.check /\ r.dark = p.dark
      BY <1>1 DEF IsLoop
    <2>2. Remaining(r) = Remaining(p)
      BY <2>1 DEF Remaining
    <2> HIDE DEF hit, gap, read
    <2>3. QED
      BY <2>1, <2>2, NextPointIs
  <1>2. /\ hit.found = p.found \cup point /\ gap.gaps = TRUE
        /\ read.found = p.found /\ read.gaps = p.gaps
        /\ read.compared = p.compared \cup point
    BY DEF IsLoop
  <1>3. AfterSingle(p, answer) \in {NextPoint(hit), NextPoint(gap), NextPoint(read)}
    BY DEF AfterSingle
  <1> HIDE DEF hit, gap, read
  <1>4. Covers(NextPoint(hit), wanted)
    BY <1>1, <1>2, NextPointIs DEF Covers
  <1>5. Covers(NextPoint(gap), wanted)
    BY <1>1, <1>2, NextPointIs DEF Covers
  <1>6. Covers(NextPoint(read), wanted)
    BY <1>1, <1>2, NextPointIs DEF Covers
  <1>7. QED
    BY <1>1, <1>3, <1>4, <1>5, <1>6

\* A record of the loop with its place in the sequence and its check as they
\* were covers what it covered, if nothing was found or missed meanwhile that
\* is not in it.
LEMMA StillCovers ==
    ASSUME NEW p, NEW r, IsLoop(p), NEW wanted, Covers(p, wanted),
           DOMAIN r = DOMAIN p, r.todo = p.todo, r.check = p.check,
           r.found = p.found, r.gaps = p.gaps, r.compared = p.compared
    PROVE  IsLoop(r) /\ r.check = p.check /\ Covers(r, wanted)
  BY DEF IsLoop, Covers, Remaining

LEMMA AnswerCovers ==
    ASSUME NEW p, IsLoop(p), p.todo # <<>>, NEW wanted, Covers(p, wanted),
           NEW answer, ~answer.large
    PROVE  /\ IsLoop(AfterAnswer(p, answer)) /\ AfterAnswer(p, answer).check = p.check
           /\ AfterAnswer(p, answer).dark = p.dark
           /\ Covers(AfterAnswer(p, answer), wanted)
  <1> DEFINE point == {Head(p.todo)}
             again == [p EXCEPT !.second = TRUE]
             matched == [p EXCEPT !.probed = TRUE, !.second = TRUE]
             found == [p EXCEPT !.found = @ \cup point]
  <1>1. /\ IsLoop(again) /\ again.check = p.check /\ Covers(again, wanted)
        /\ again.dark = p.dark
    <2>1. /\ DOMAIN again = DOMAIN p /\ again.todo = p.todo /\ again.check = p.check
          /\ again.found = p.found /\ again.gaps = p.gaps /\ again.compared = p.compared
          /\ again.dark = p.dark
      BY DEF IsLoop
    <2> HIDE DEF again
    <2>2. QED
      BY <2>1, StillCovers
  <1>2. /\ IsLoop(matched) /\ matched.check = p.check /\ Covers(matched, wanted)
        /\ matched.dark = p.dark
    <2>1. /\ DOMAIN matched = DOMAIN p /\ matched.todo = p.todo /\ matched.check = p.check
          /\ matched.found = p.found /\ matched.gaps = p.gaps /\ matched.compared = p.compared
          /\ matched.dark = p.dark
      BY DEF IsLoop
    <2> HIDE DEF matched
    <2>2. QED
      BY <2>1, StillCovers
  <1>3. /\ IsLoop(NextPoint(found)) /\ NextPoint(found).check = p.check
        /\ Covers(NextPoint(found), wanted) /\ NextPoint(found).dark = p.dark
    <2>1. /\ IsLoop(found) /\ found.todo = p.todo /\ found.check = p.check /\ found.found # {}
          /\ found.dark = p.dark
      BY DEF IsLoop
    <2> HIDE DEF found
    <2>2. QED
      BY <2>1, NextPointIs DEF Covers
  <1>4. CASE p.check.shape = "escalate"
    <2>1. AfterAnswer(p, answer) \in {NextPoint(found), matched, AfterSingle(p, answer)}
      BY <1>4 DEF AfterAnswer, AfterEscalation
    <2> HIDE DEF found, matched
    <2>2. QED
      BY <1>2, <1>3, <2>1, SingleCovers
  <1>5. CASE p.check.shape = "pair"
    <2> DEFINE q == [p EXCEPT !.probed = TRUE]
               hit == [q EXCEPT !.found = @ \cup point]
               gap == [q EXCEPT !.gaps = TRUE]
               read == [q EXCEPT !.compared = @ \cup point]
    <2>1. AfterAnswer(p, answer) \in {again, NextPoint(hit), NextPoint(gap), NextPoint(read)}
      BY <1>5 DEF AfterAnswer, AfterPair
    <2>2. \E a, b, c : /\ AfterSingle(p, a) = NextPoint(hit)
                       /\ AfterSingle(p, b) = NextPoint(gap)
                       /\ AfterSingle(p, c) = NextPoint(read)
      <3> DEFINE a == [match |-> TRUE, is2xx |-> TRUE]
                 b == [match |-> FALSE, is2xx |-> FALSE]
                 c == [match |-> FALSE, is2xx |-> TRUE]
      <3>1. AfterSingle(p, a) = NextPoint(hit)
        BY DEF AfterSingle
      <3>2. AfterSingle(p, b) = NextPoint(gap)
        BY DEF AfterSingle
      <3>3. AfterSingle(p, c) = NextPoint(read)
        BY DEF AfterSingle
      <3> HIDE DEF a, b, c, hit, gap, read
      <3>4. QED
        BY <3>1, <3>2, <3>3
    <2> HIDE DEF hit, gap, read, again
    <2>3. QED
      BY <1>1, <2>1, <2>2, SingleCovers
  <1>6. CASE p.check.shape \notin {"pair", "escalate"}
    BY <1>6, SingleCovers DEF AfterAnswer
  <1>7. QED
    BY <1>4, <1>5, <1>6

\* A refusal leaves a gap.
LEMMA RefusalCovers ==
    ASSUME NEW p, IsLoop(p), p.todo # <<>>, NEW wanted
    PROVE  /\ IsLoop(AfterRefusal(p)) /\ AfterRefusal(p).check = p.check
           /\ AfterRefusal(p).dark = p.dark
           /\ Covers(AfterRefusal(p), wanted)
  <1> DEFINE r == [p EXCEPT !.gaps = TRUE,
                            !.found = IF p.check.shape = "escalate" /\ p.second
                                        THEN @ \cup {Head(p.todo)} ELSE @]
  <1>1. /\ IsLoop(r) /\ r.todo = p.todo /\ r.check = p.check /\ r.gaps = TRUE
        /\ r.dark = p.dark
    BY DEF IsLoop
  <1>2. AfterRefusal(p) = NextPoint(r)
    BY DEF AfterRefusal
  <1> HIDE DEF r
  <1>3. QED
    BY <1>1, <1>2, NextPointIs DEF Covers

\* The open loop is the check's of the row, over the points it wants.
LoopInv ==
    pc = "probing" =>
        /\ Check.hook = "probes"
        /\ probing.check = Check
        /\ IsLoop(probing)
        /\ Covers(probing, WantedSet(Check, Surface))

CleanInv == LoopInv /\ CleanMeansExamined

LEMMA CleanInit == Init => CleanInv
  BY DEF Init, CleanInv, LoopInv, CleanMeansExamined

\* A step within the row, or out of it.
LEMMA CleanStep ==
    ASSUME Shape, WalkInv, CleanInv, ~LargeBodies, [Next]_vars
    PROVE  CleanInv'
  <1>s. ASSUME pc' \notin {"probing", "writing"} PROVE CleanInv'
    BY <1>s DEF CleanInv, LoopInv, CleanMeansExamined
  <1>w. ASSUME UNCHANGED <<opt, si, ci>>
        PROVE  Check' = Check /\ Surface' = Surface
               /\ WantedSet(Check, Surface)' = WantedSet(Check, Surface)
    <2>1. Check' = Check /\ Surface' = Surface
      BY <1>w DEF Check, Surface
    <2>2. QED
      BY <2>1 DEF WantedSet, Wanted, Usable, Declared
  <1>1. CASE OpenRow
    <2>1. CASE pc' # "probing"
      BY <1>1, <2>1, <1>s DEF OpenRow
    <2>2. CASE pc' = "probing"
      <3>1. /\ pc = "check" /\ ci <= Len(opt.checks) /\ UNCHANGED <<opt, si, ci>>
            /\ probing' = [NoRow EXCEPT !.check = Check, !.todo = Wanted(Check, Surface)]
            /\ Check.hook = "probes"
        BY <1>1, <2>2 DEF OpenRow, RowDue, StartRow, loopVars
      <3>2. Surface \in Surfaces
        BY <3>1, RowIsOne DEF InSurface, Surface, Rows, Row
      <3>3. PICK T : Wanted(Check, Surface) \in Seq(T)
        BY <3>2, WantedIsSeq
      <3>4. /\ probing'.check = Check /\ probing'.todo = Wanted(Check, Surface)
            /\ probing'.compared = {}
            /\ DOMAIN probing' = {"check", "todo", "second", "gaps", "found", "probed",
                                  "compared", "dark"}
        BY <3>1 DEF NoRow
      <3>5. IsLoop(probing')
        BY <3>3, <3>4 DEF IsLoop
      <3>6. Covers(probing', WantedSet(Check, Surface))
        BY <3>4 DEF Covers, Remaining, WantedSet
      <3>7. QED
        BY <2>2, <3>1, <3>4, <3>5, <3>6, <1>w DEF CleanInv, LoopInv, CleanMeansExamined
    <2>3. QED
      BY <2>1, <2>2
  <1>2. ASSUME pc = "probing", pc' = pc, UNCHANGED loopVars,
               IsLoop(probing'), probing'.check = probing.check,
               Covers(probing', WantedSet(Check, Surface))
        PROVE  CleanInv'
    BY <1>2, <1>w DEF CleanInv, LoopInv, CleanMeansExamined, loopVars
  <1>3. CASE ProbeAnswered
    <2>1. /\ pc = "probing" /\ pc' = pc /\ UNCHANGED loopVars /\ probing.todo # <<>>
          /\ IsLoop(probing) /\ Covers(probing, WantedSet(Check, Surface))
      BY <1>3 DEF ProbeAnswered, Answered, Probing, CleanInv, LoopInv
    <2>2. PICK answer \in Answers :
            LET p == AfterAnswer(probing, answer)
            IN  probing' = [p EXCEPT !.dark = @ \/ ~(Genuine /\ live)]
      BY <1>3 DEF ProbeAnswered, Answered
    <2>3. ~answer.large
      BY RowAssumptions DEF Answers
    <2> DEFINE p == AfterAnswer(probing, answer)
    <2>4. IsLoop(p) /\ p.check = probing.check /\ Covers(p, WantedSet(Check, Surface))
      BY <2>1, <2>3, AnswerCovers
    <2>5. probing' = [p EXCEPT !.dark = p.dark \/ ~(Genuine /\ live)]
      BY <2>2
    <2> HIDE DEF p
    <2>6. /\ DOMAIN probing' = DOMAIN p /\ probing'.todo = p.todo /\ probing'.check = p.check
          /\ probing'.found = p.found /\ probing'.gaps = p.gaps
          /\ probing'.compared = p.compared
      BY <2>4, <2>5 DEF IsLoop
    <2>7. IsLoop(probing') /\ Covers(probing', WantedSet(Check, Surface))
      BY <2>4, <2>6, StillCovers
    <2>8. QED
      BY <2>1, <2>4, <2>6, <2>7, <1>2
  <1>4. CASE PointLost
    <2>1. /\ pc = "probing" /\ pc' = pc /\ UNCHANGED loopVars
          /\ probing' = AfterRefusal(probing) /\ probing.todo # <<>>
      BY <1>4 DEF PointLost, PointRefused, RefusedProbe, Probing
    <2>2. IsLoop(probing)
      BY <2>1 DEF CleanInv, LoopInv
    <2>3. QED
      BY <2>1, <2>2, <1>2, RefusalCovers
  <1>5. CASE ProbeDelayed
    BY <1>5, <1>2 DEF ProbeDelayed, RateLimited, CleanInv, LoopInv
  <1>6. CASE Conclude
    <2>1. /\ pc = "probing" /\ pc' = "writing" /\ UNCHANGED loopVars /\ probing' = probing
          /\ probing.todo = <<>>
      BY <1>6 DEF Conclude, Accept, Probing, rowVars
    <2>2. DOMAIN RowVerdict = {"state", "candidates", "considered"}
      BY DEF RowVerdict, ActiveVerdict, Finding, Clean, Inconclusive
    <2>3. verdict'.state = RowVerdict.state
      <3>1. PICK type, absent :
              Accept([RowVerdict EXCEPT !.candidates = {<<type[p], p>> : p \in @}], absent)
        BY <1>6 DEF Conclude
      <3>2. QED
        BY <2>2, <3>1 DEF Accept
    <2>4. RowVerdict.state = "clean" => probing.found = {} /\ ~probing.gaps
      BY DEF RowVerdict, ActiveVerdict, Finding, Clean, Inconclusive
    <2>5. Remaining(probing) = {}
      BY <2>1 DEF Remaining
    <2>6. RowVerdict.state = "clean" => probing.compared = WantedSet(Check, Surface)
      BY <2>1, <2>4, <2>5 DEF CleanInv, LoopInv, Covers
    <2>7. QED
      BY <2>1, <2>3, <2>6, <1>w DEF CleanInv, LoopInv, CleanMeansExamined, Examined, loopVars
  <1>7. CASE ReadTraffic
    <2>1. pc' = "writing" /\ Check.hook # "probes" /\ UNCHANGED loopVars
      BY <1>7 DEF ReadTraffic, Accept, WalkInv
    <2>2. QED
      BY <2>1, <1>w DEF CleanInv, LoopInv, CleanMeansExamined, loopVars
  <1>8. CASE WriteFinding
    <2>1. pc = "writing" /\ pc' = pc /\ UNCHANGED loopVars /\ probing' = probing
      BY <1>8 DEF WriteFinding, rowVars
    <2>2. PICK c \in verdict.candidates : verdict' = [verdict EXCEPT !.candidates = @ \ {c}]
      BY <1>8 DEF WriteFinding
    <2>3. verdict'.state = verdict.state
      BY <2>2
    <2>4. QED
      BY <2>1, <2>3, <1>w DEF CleanInv, LoopInv, CleanMeansExamined, Examined, loopVars
  <1>9. CASE LoseSession \/ UNCHANGED vars
    <2>1. UNCHANGED <<pc, opt, si, ci, probing, verdict>>
      BY <1>9 DEF LoseSession, SessionDies, vars, loopVars, bookVars, rowVars
    <2>2. QED
      BY <2>1, <1>w DEF CleanInv, LoopInv, CleanMeansExamined, Examined
  <1>10. CASE Open \/ ResolveFails \/ Refresh \/ RefreshFails \/ CanaryPasses \/ CanaryFails
    BY <1>10, <1>s DEF Open, ResolveFails, Refresh, RefreshFails, CanaryFor, Halt, CanaryPasses,
         Proceed, CanaryFails, WalkInv
  <1>11. CASE EnterSurface \/ PassOver \/ SkipRest \/ LeaveSurface \/ CanaryDue \/ SkipRow
             \/ LoopDone
    BY <1>11, <1>s DEF EnterSurface, PassOver, SkipRest, LeaveSurface, CanaryDue, CanaryFor,
         SkipRow, RowDue, LoopDone
  <1>12. CASE ProbeRefused \/ CheckRaises \/ WriteFails \/ RowDone
    BY <1>12, <1>s DEF ProbeRefused, CheckRaises, WriteFails, RowDone, CloseRow
  <1>13. CASE Settle \/ MarkUnobserved \/ CloseRun \/ InterruptedAtClose \/ Interrupted
    BY <1>13, <1>s DEF Settle, MarkUnobserved, CloseRun, InterruptedAtClose, Interrupted, Halt
  <1>14. QED
    BY <1>1, <1>3, <1>4, <1>5, <1>6, <1>7, <1>8, <1>9, <1>10, <1>11, <1>12, <1>13
       DEF Next, TheScan

\* For any corpus, points and answers: a check that probed says `clean` only
\* where it read an answer at every point it wants.  Where a body can be too
\* large to be compared it does not hold.
THEOREM CleanHolds == ~LargeBodies => (Spec => []CleanMeansExamined)
  <1> SUFFICES ASSUME ~LargeBodies PROVE Spec => []CleanMeansExamined
    OBVIOUS
  <1>1. (Shape /\ WalkInv /\ CleanInv) /\ [Next]_vars => (Shape /\ WalkInv /\ CleanInv)'
    BY ShapeStep, WalkStep, CleanStep
  <1>2. CleanInv => CleanMeansExamined
    BY DEF CleanInv
  <1>3. QED
    BY ScanInit, WalkInit, CleanInit, <1>1, <1>2, PTL DEF Spec
-----------------------------------------------------------------------------
(* What is retired was looked for, and was gone. *)

\* The run can vouch for what its checks saw at the origin of its canaries.
Vouched == Bracketed /\ ProvenOrigin \in Honoured /\ truth.live

\* A canary passes only where the credential is honoured, and a loop over points
\* of that origin meets the application logged in while the run can vouch for it.
ViewInv ==
    /\ window.opened = "passed" => ProvenOrigin \in Honoured
    /\ run.identity = "proven" => Bracketed /\ ProvenOrigin \in Honoured
    /\ pc = "probing" /\ Vouched /\ Origin[Surface] = ProvenOrigin => ~probing.dark

\* What a check that probes has offered was absent, where the run can vouch.
OffersInv ==
    \A o \in offered :
        /\ o = <<o[1], o[2], o[3], o[4]>> /\ o[4] \in BOOLEAN
        /\ opt.checks[o[2]].hook = "probes" /\ Vouched /\ Origin[o[1]] = ProvenOrigin => o[4]

\* The key of an offer, and whether its finding is about to be written.
KeyOf(o) == Key(opt.checks[o[2]], o[3], o[1], Whole)
Unwritten(o) ==
    pc = "writing" /\ <<o[1], o[2]>> = Row /\ <<o[3], Whole>> \in verdict.candidates

\* What a check of captured traffic has offered and found is written, or is
\* about to be.
SeenInv ==
    pc # "done" =>
        \A o \in offered : opt.checks[o[2]].hook # "probes" /\ ~o[4] =>
            KeyOf(o) \in seen \/ Unwritten(o)

CandInv ==
    pc = "writing" =>
        /\ DOMAIN verdict = {"state", "candidates", "considered"}
        /\ Check.hook # "probes" => \A c \in verdict.candidates : c = <<c[1], Whole>>

\* A finding on file has the key that its own check gives it at its surface.
KnownInv ==
    \A f \in findings :
        /\ DOMAIN f = {"key", "check", "surface", "observed"}
        /\ opt.checks[f.check].hook # "probes" =>
             f.key = Key(opt.checks[f.check], f.key.type, f.surface, Whole)

GoneInv == ViewInv /\ OffersInv /\ SeenInv /\ CandInv /\ KnownInv /\ RetiredMeansGone

LEMMA StartStays ==
    [Next]_vars => opt' = opt /\ ProvenOrigin' = ProvenOrigin /\ Bracketed' = Bracketed
  <1> SUFFICES ASSUME [Next]_vars
               PROVE  opt' = opt /\ ProvenOrigin' = ProvenOrigin /\ Bracketed' = Bracketed
    OBVIOUS
  <1>1. opt' = opt
    BY OptStays
  <1>2. ProvenOrigin' = ProvenOrigin
    BY <1>1 DEF ProvenOrigin, Kept, Picked, Nth
  <1>3. QED
    BY <1>1, <1>2 DEF Bracketed

LEMMA GoneInit == Init => GoneInv
  <1> SUFFICES ASSUME Init PROVE GoneInv
    OBVIOUS
  <1>1. KnownInv
    <2>1. PICK fs \in SUBSET UNION {FindingsOf(i) : i \in DOMAIN opt.checks} : findings = fs
      BY DEF Init
    <2>2. SUFFICES ASSUME NEW i \in DOMAIN opt.checks, NEW f \in FindingsOf(i)
                   PROVE  /\ DOMAIN f = {"key", "check", "surface", "observed"}
                          /\ opt.checks[f.check].hook # "probes" =>
                               f.key = Key(opt.checks[f.check], f.key.type, f.surface, Whole)
      BY <2>1 DEF KnownInv
    <2>3. \E s \in Surfaces : \E t, p :
            /\ f = [key |-> Key(opt.checks[i], t, s, p), check |-> i, surface |-> s,
                    observed |-> TRUE]
            /\ opt.checks[i].hook # "probes" => p = Whole
      BY DEF FindingsOf
    <2>4. PICK s, t, p :
            /\ s \in Surfaces
            /\ f = [key |-> Key(opt.checks[i], t, s, p), check |-> i, surface |-> s,
                    observed |-> TRUE]
            /\ opt.checks[i].hook # "probes" => p = Whole
      BY <2>3
    <2>5. f.key.type = t
      BY <2>4 DEF Key
    <2>6. QED
      BY <2>4, <2>5
  <1>2. RetiredMeansGone
    BY BookInit DEF Init, BookInv, RetiredMeansGone
  <1>3. QED
    BY <1>1, <1>2 DEF Init, Unopened, GoneInv, ViewInv, OffersInv, SeenInv, CandInv

\* Only a canary opens the window, only Settle calls the run proven.
LEMMA ViewStep ==
    ASSUME Shape, WalkInv, CleanInv, ViewInv, ~LargeBodies, [Next]_vars
    PROVE  ViewInv'
  <1> USE DEF Shape
  <1>o. opt' = opt /\ ProvenOrigin' = ProvenOrigin /\ Bracketed' = Bracketed
    BY StartStays
  <1>s. ASSUME window'.opened = window.opened,
               run'.identity = run.identity \/ run'.identity # "proven", pc' # "probing"
        PROVE  ViewInv'
    BY <1>s, <1>o DEF ViewInv
  <1>l. ASSUME UNCHANGED <<window, run, loopVars>>, pc = "probing",
               Vouched' /\ Origin[Surface] = ProvenOrigin => ~probing'.dark
        PROVE  ViewInv'
    <2>1. Surface' = Surface
      BY <1>l DEF Surface, loopVars
    <2>2. QED
      BY <1>l, <1>o, <2>1 DEF ViewInv
  <1>1. CASE Open \/ ResolveFails \/ Refresh \/ RefreshFails \/ CanaryFails \/ Interrupted
             \/ InterruptedAtClose
    <2>1. CASE Open \/ ResolveFails
      BY <2>1, <1>s DEF Open, ResolveFails, CanaryFor, Unopened
    <2>2. CASE Refresh \/ RefreshFails \/ InterruptedAtClose
      BY <2>2, <1>s DEF Refresh, RefreshFails, InterruptedAtClose, Halt
    <2>3. CASE CanaryFails \/ Interrupted
      <3>1. window'.opened = window.opened /\ pc' # "probing"
        BY <2>3 DEF CanaryFails, Interrupted, Halt
      <3>2. run' = run \/ \E state \in {"dead", "assumed"} : Halt(state)
        BY <2>3 DEF CanaryFails, Interrupted
      <3>3. QED
        BY <3>1, <3>2, <1>s DEF Halt
    <2>4. QED
      BY <1>1, <2>1, <2>2, <2>3
  <1>2. CASE CanaryPasses
    <2>1. ProvenOrigin \in Honoured /\ run' = run /\ pc' # "probing"
      BY <1>2 DEF CanaryPasses, Proceed, WalkInv
    <2>2. QED
      BY <2>1, <1>o DEF ViewInv
  <1>3. CASE Settle
    <2>1. /\ pc' = "mark" /\ window' = window
          /\ run'.identity = IF Bracketed THEN StateForRun ELSE "none"
      BY <1>3 DEF Settle
    <2>2. run'.identity = "proven" => Bracketed /\ window.opened = "passed"
      BY <2>1 DEF StateForRun
    <2>3. QED
      BY <2>1, <2>2, <1>o DEF ViewInv
  <1>4. CASE EnterSurface \/ PassOver \/ SkipRest \/ LeaveSurface \/ CanaryDue \/ SkipRow
             \/ LoopDone
    BY <1>4, <1>s DEF EnterSurface, PassOver, SkipRest, LeaveSurface, CanaryDue, CanaryFor,
         SkipRow, RowDue, LoopDone
  <1>5. CASE OpenRow
    <2>1. UNCHANGED <<window, run>> /\ (pc' = "probing" => ~probing'.dark)
      BY <1>5 DEF OpenRow, RowDue, StartRow, NoRow
    <2>2. QED
      BY <2>1, <1>o DEF ViewInv
  <1>6. CASE ReadTraffic \/ Conclude \/ WriteFinding \/ MarkUnobserved \/ CloseRun
    BY <1>6, <1>s DEF ReadTraffic, Conclude, WriteFinding, Accept, MarkUnobserved, CloseRun
  <1>7. CASE ProbeAnswered
    <2>1. /\ pc = "probing" /\ probing.todo # <<>> /\ UNCHANGED <<window, run, loopVars>>
          /\ IsLoop(probing) /\ Covers(probing, WantedSet(Check, Surface))
          /\ truth' = [truth EXCEPT !.live =
                         @ /\ (Bracketed /\ Origin[Surface] = ProvenOrigin => live)]
      BY <1>7 DEF ProbeAnswered, Answered, Probing, CleanInv, LoopInv
    <2>2. PICK answer \in Answers :
            LET p == AfterAnswer(probing, answer)
            IN  probing' = [p EXCEPT !.dark = @ \/ ~(Genuine /\ live)]
      BY <1>7 DEF ProbeAnswered, Answered
    <2>l. ~answer.large
      BY RowAssumptions DEF Answers
    <2> DEFINE p == AfterAnswer(probing, answer)
    <2>3. IsLoop(p) /\ p.dark = probing.dark
      BY <2>1, <2>l, AnswerCovers
    <2>4. probing' = [p EXCEPT !.dark = p.dark \/ ~(Genuine /\ live)]
      BY <2>2
    <2> HIDE DEF p
    <2>5. probing'.dark = (p.dark \/ ~(Genuine /\ live))
      BY <2>3, <2>4 DEF IsLoop
    <2>6. ASSUME Vouched', Origin[Surface] = ProvenOrigin PROVE ~probing'.dark
      <3>1. truth'.live /\ Bracketed /\ ProvenOrigin \in Honoured
        BY <2>6, <1>o DEF Vouched
      <3>2. truth.live /\ live
        BY <2>1, <2>6, <3>1
      <3>3. Genuine /\ Vouched
        BY <2>6, <3>1, <3>2 DEF Genuine, Vouched
      <3>4. ~probing.dark
        BY <2>1, <2>6, <3>3 DEF ViewInv
      <3>5. QED
        BY <2>3, <2>5, <3>2, <3>3, <3>4
    <2>7. QED
      BY <2>1, <2>6, <1>l
  <1>8. CASE PointLost
    <2>1. /\ pc = "probing" /\ UNCHANGED <<window, run, loopVars>> /\ truth'.live = truth.live
          /\ probing' = AfterRefusal(probing) /\ probing.todo # <<>> /\ IsLoop(probing)
      BY <1>8 DEF PointLost, PointRefused, RefusedProbe, Probing, CleanInv, LoopInv
    <2>2. probing'.dark = probing.dark
      BY <2>1, RefusalCovers
    <2>3. Vouched' /\ Origin[Surface] = ProvenOrigin => ~probing'.dark
      BY <2>1, <2>2, <1>o DEF Vouched, ViewInv
    <2>4. QED
      BY <2>1, <2>3, <1>l
  <1>9. CASE ProbeDelayed \/ LoseSession \/ UNCHANGED vars
    <2>1. UNCHANGED <<pc, window, run, loopVars, truth, probing>>
      BY <1>9 DEF ProbeDelayed, RateLimited, LoseSession, SessionDies, vars, bookVars, rowVars
    <2>2. Surface' = Surface /\ Vouched' = Vouched
      BY <2>1, <1>o DEF Surface, loopVars, Vouched
    <2>3. QED
      BY <2>1, <2>2, <1>o DEF ViewInv
  <1>10. CASE ProbeRefused \/ CheckRaises \/ WriteFails \/ RowDone
    <2>1. run' = run /\ pc' = "check" /\ window'.opened = window.opened
      BY <1>10 DEF ProbeRefused, CheckRaises, WriteFails, RowDone, CloseRow, Noted
    <2>2. QED
      BY <2>1, <1>s
  <1>11. QED
    BY <1>1, <1>2, <1>3, <1>4, <1>5, <1>6, <1>7, <1>8, <1>9, <1>10 DEF Next, TheScan

\* Only an accepted verdict offers, and what was vouched for no longer may be.
LEMMA OfferedSoFar ==
    ASSUME Shape, [Next]_vars
    PROVE  /\ offered' = offered \/ ReadTraffic \/ Conclude
           /\ truth'.live => truth.live
  <1> USE DEF Shape
  <1>1. CASE ReadTraffic \/ Conclude
    BY <1>1 DEF ReadTraffic, Conclude
  <1>2. CASE Open \/ ResolveFails \/ Refresh \/ RefreshFails \/ CanaryPasses
             \/ Interrupted \/ InterruptedAtClose \/ LoseSession \/ UNCHANGED vars
    <2>1. CASE CanaryPasses
      BY <2>1 DEF CanaryPasses
    <2>2. QED
      BY <1>2, <2>1 DEF Open, ResolveFails, Refresh, RefreshFails, Interrupted,
         InterruptedAtClose, LoseSession, vars, bookVars
  <1>3. CASE CanaryFails
    BY <1>3 DEF CanaryFails
  <1>4. CASE EnterSurface \/ PassOver \/ SkipRest \/ LeaveSurface \/ CanaryDue \/ SkipRow
             \/ LoopDone \/ OpenRow
    BY <1>4 DEF EnterSurface, PassOver, SkipRest, LeaveSurface, CanaryDue, SkipRow, LoopDone,
         OpenRow, bookVars
  <1>5. CASE ProbeAnswered \/ ProbeDelayed \/ PointLost \/ ProbeRefused
    BY <1>5 DEF ProbeAnswered, ProbeDelayed, PointLost, ProbeRefused, bookVars
  <1>6. CASE CheckRaises \/ WriteFails \/ RowDone \/ WriteFinding
    BY <1>6 DEF CheckRaises, WriteFails, RowDone, WriteFinding
  <1>7. CASE Settle \/ MarkUnobserved \/ CloseRun
    BY <1>7 DEF Settle, MarkUnobserved, CloseRun, bookVars
  <1>8. QED
    BY <1>1, <1>2, <1>3, <1>4, <1>5, <1>6, <1>7 DEF Next, TheScan

\* What the open row is about to offer.
LEMMA OfferAccepted ==
    ASSUME NEW v, NEW absent, Accept(v, absent), NEW o \in offered', o \notin offered
    PROVE  \E t \in v.considered : o = <<Surface, ci, t, t \in absent>>
  BY DEF Accept

LEMMA OffersStep ==
    ASSUME Shape, WalkInv, CleanInv, ViewInv, OffersInv, [Next]_vars
    PROVE  OffersInv'
  <1>o. opt' = opt /\ ProvenOrigin' = ProvenOrigin /\ Bracketed' = Bracketed
    BY StartStays
  <1>v. Vouched' => Vouched
    BY <1>o, OfferedSoFar DEF Vouched
  <1>s. ASSUME NEW o \in offered
        PROVE  /\ o = <<o[1], o[2], o[3], o[4]>> /\ o[4] \in BOOLEAN
               /\ opt.checks[o[2]].hook = "probes" /\ Vouched' /\ Origin[o[1]] = ProvenOrigin
                    => o[4]
    BY <1>v DEF OffersInv
  <1>1. CASE offered' = offered
    BY <1>o, <1>s, <1>1 DEF OffersInv
  <1>2. CASE ReadTraffic
    <2>1. Check.hook # "probes"
      BY <1>2 DEF ReadTraffic, WalkInv
    <2>2. PICK v, absent : Accept(v, absent)
      BY <1>2 DEF ReadTraffic
    <2>3. ASSUME NEW o \in offered', o \notin offered
          PROVE  /\ o = <<o[1], o[2], o[3], o[4]>> /\ o[4] \in BOOLEAN
                 /\ opt.checks[o[2]].hook # "probes"
      <3>1. PICK t : o = <<Surface, ci, t, t \in absent>>
        BY <2>2, <2>3, OfferAccepted
      <3>2. QED
        BY <2>1, <3>1 DEF Check
    <2>4. QED
      BY <1>o, <1>s, <2>3 DEF OffersInv
  <1>3. CASE Conclude
    <2>1. PICK type :
            Accept([RowVerdict EXCEPT !.candidates = {<<type[p], p>> : p \in @}],
                   IF ~probing.dark /\ Examined THEN Check.types ELSE {})
      BY <1>3 DEF Conclude
    <2> DEFINE v == [RowVerdict EXCEPT !.candidates = {<<type[p], p>> : p \in @}]
               absent == IF ~probing.dark /\ Examined THEN Check.types ELSE {}
    <2>2. /\ pc = "probing" /\ probing.todo = <<>>
          /\ probing.check = Check /\ Covers(probing, WantedSet(Check, Surface))
      BY <1>3 DEF Conclude, Probing, CleanInv, LoopInv
    <2>3. v.considered = RowVerdict.considered
      BY DEF RowVerdict, ActiveVerdict, Finding, Clean, Inconclusive
    <2>4. RowVerdict.considered # {} =>
            probing.found = {} /\ ~probing.gaps /\ RowVerdict.considered = Check.types
      BY <2>2 DEF RowVerdict, ActiveVerdict, Finding, Clean, Inconclusive
    <2>r. Remaining(probing) = {}
      BY <2>2 DEF Remaining
    <2>5. RowVerdict.considered # {} => Examined
      BY <2>2, <2>r, <2>4 DEF Covers, Examined
    <2>6. ASSUME NEW o \in offered', o \notin offered
          PROVE  /\ o = <<o[1], o[2], o[3], o[4]>> /\ o[4] \in BOOLEAN
                 /\ opt.checks[o[2]].hook = "probes" /\ Vouched' /\ Origin[o[1]] = ProvenOrigin
                      => o[4]
      <3>a. Accept(v, absent)
        BY <2>1
      <3> HIDE DEF v, absent
      <3>1. PICK t \in v.considered : o = <<Surface, ci, t, t \in absent>>
        BY <3>a, <2>6, OfferAccepted
      <3>2. t \in Check.types /\ Examined
        BY <2>3, <2>4, <2>5
      <3>3. ~probing.dark => t \in absent
        BY <3>2 DEF absent
      <3>4. Vouched' /\ Origin[Surface] = ProvenOrigin => t \in absent
        BY <2>2, <3>3, <1>v DEF ViewInv
      <3>5. /\ o = <<o[1], o[2], o[3], o[4]>> /\ o[1] = Surface
            /\ o[4] = (t \in absent) /\ (t \in absent) \in BOOLEAN
        BY <3>1
      <3>6. QED
        BY <3>4, <3>5
    <2>7. QED
      BY <1>o, <1>s, <2>6 DEF OffersInv
  <1>4. QED
    BY <1>1, <1>2, <1>3, OfferedSoFar

\* How a step comes to be at a verdict's candidates.
LEMMA Writing ==
    ASSUME WalkInv, [Next]_vars, pc' = "writing"
    PROVE  \/ ReadTraffic \/ Conclude \/ WriteFinding
           \/ pc = "writing" /\ UNCHANGED <<loopVars, bookVars>>
  <1>1. CASE LoseSession \/ UNCHANGED vars
    BY <1>1 DEF LoseSession, vars
  <1>2. CASE Open \/ ResolveFails \/ Refresh \/ RefreshFails \/ CanaryPasses \/ CanaryFails
    BY <1>2 DEF Open, ResolveFails, Refresh, RefreshFails, CanaryFor, Halt, CanaryPasses,
         Proceed, CanaryFails, WalkInv
  <1>3. CASE EnterSurface \/ PassOver \/ SkipRest \/ LeaveSurface \/ CanaryDue \/ SkipRow
             \/ LoopDone \/ OpenRow
    BY <1>3 DEF EnterSurface, PassOver, SkipRest, LeaveSurface, CanaryDue, CanaryFor,
         SkipRow, RowDue, LoopDone, OpenRow
  <1>4. CASE ProbeAnswered \/ ProbeDelayed \/ PointLost \/ ProbeRefused \/ CheckRaises
             \/ WriteFails \/ RowDone
    BY <1>4 DEF ProbeAnswered, ProbeDelayed, PointLost, ProbeRefused, CheckRaises,
         WriteFails, RowDone, CloseRow
  <1>5. CASE Settle \/ MarkUnobserved \/ CloseRun \/ InterruptedAtClose \/ Interrupted
    BY <1>5 DEF Settle, MarkUnobserved, CloseRun, InterruptedAtClose, Interrupted, Halt
  <1>6. QED
    BY <1>1, <1>2, <1>3, <1>4, <1>5 DEF Next, TheScan

LEMMA CandStep ==
    ASSUME Shape, WalkInv, CleanInv, CandInv, [Next]_vars
    PROVE  CandInv'
  <1>1. CASE pc' # "writing"
    BY <1>1 DEF CandInv
  <1>2. CASE ReadTraffic
    <2>1. PICK cands, looked, readable, gaps :
            verdict' = PassiveVerdict({<<t, Whole>> : t \in cands}, looked, readable, gaps)
      BY <1>2 DEF ReadTraffic, Accept
    <2>2. /\ verdict'.candidates \subseteq {<<t, Whole>> : t \in cands}
          /\ DOMAIN verdict' = {"state", "candidates", "considered"}
      BY <2>1 DEF PassiveVerdict, Finding, Clean, Inconclusive
    <2>3. \A c \in verdict'.candidates : c = <<c[1], Whole>>
      BY <2>2
    <2>4. QED
      BY <2>2, <2>3 DEF CandInv
  <1>3. CASE Conclude
    <2>1. PICK type, absent :
            Accept([RowVerdict EXCEPT !.candidates = {<<type[p], p>> : p \in @}], absent)
      BY <1>3 DEF Conclude
    <2>2. DOMAIN RowVerdict = {"state", "candidates", "considered"}
      BY DEF RowVerdict, ActiveVerdict, Finding, Clean, Inconclusive
    <2>3. DOMAIN verdict' = {"state", "candidates", "considered"}
      BY <2>1, <2>2 DEF Accept
    <2>4. Check' = Check /\ Check.hook = "probes"
      BY <1>3 DEF Conclude, CleanInv, LoopInv, Check, loopVars
    <2>5. QED
      BY <2>3, <2>4 DEF CandInv
  <1>4. CASE WriteFinding
    <2>1. pc = "writing" /\ UNCHANGED loopVars
      BY <1>4 DEF WriteFinding
    <2>2. PICK c \in verdict.candidates : verdict' = [verdict EXCEPT !.candidates = @ \ {c}]
      BY <1>4 DEF WriteFinding
    <2>3. verdict'.candidates \subseteq verdict.candidates /\ DOMAIN verdict' = DOMAIN verdict
      BY <2>2
    <2>4. Check' = Check
      BY <2>1 DEF Check, loopVars
    <2>5. QED
      BY <2>1, <2>3, <2>4 DEF CandInv
  <1>5. CASE pc = "writing" /\ UNCHANGED <<loopVars, bookVars>>
    BY <1>5 DEF CandInv, Check, loopVars, bookVars
  <1>6. QED
    BY <1>1, <1>2, <1>3, <1>4, <1>5, Writing

\* A finding leaves the candidates when it is written; a row whose findings may
\* not be stored is one of a check that probes.
LEMMA SeenStep ==
    ASSUME Shape, WalkInv, CleanInv, CandInv, SeenInv, [Next]_vars,
           FailingWrites \subseteq {"probes"}
    PROVE  SeenInv'
  <1>o. opt' = opt
    BY OptStays
  <1>k. \A o : KeyOf(o)' = KeyOf(o)
    BY <1>o DEF KeyOf, Key
  <1>s. ASSUME NEW o, pc # "done", o \in offered, opt.checks[o[2]].hook # "probes", ~o[4]
        PROVE  KeyOf(o) \in seen \/ Unwritten(o)
    BY <1>s DEF SeenInv
  <1>n. ASSUME offered' = offered, seen' = seen, pc' # "done" => pc \notin {"writing", "done"}
        PROVE  SeenInv'
    BY <1>n, <1>o, <1>k, <1>s DEF SeenInv, Unwritten
  <1>1. CASE Open \/ ResolveFails \/ Refresh \/ RefreshFails \/ CanaryPasses \/ CanaryFails
             \/ EnterSurface \/ PassOver \/ SkipRest \/ LeaveSurface \/ CanaryDue \/ SkipRow
             \/ LoopDone \/ OpenRow
    <2>1. CASE CanaryPasses \/ CanaryFails
      BY <2>1, <1>n DEF CanaryPasses, CanaryFails
    <2>2. QED
      BY <1>1, <2>1, <1>n DEF Open, ResolveFails, Refresh, RefreshFails, EnterSurface, PassOver,
         SkipRest, LeaveSurface, CanaryDue, SkipRow, RowDue, LoopDone, OpenRow, bookVars
  <1>2. CASE ProbeAnswered \/ ProbeDelayed \/ PointLost \/ ProbeRefused \/ CheckRaises
             \/ Settle \/ MarkUnobserved \/ CloseRun \/ InterruptedAtClose \/ Interrupted
    BY <1>2, <1>n DEF ProbeAnswered, ProbeDelayed, PointLost, ProbeRefused, CheckRaises, CloseRow,
         Settle, MarkUnobserved, CloseRun, InterruptedAtClose, Interrupted, Halt, bookVars
  <1>3. CASE ReadTraffic
    <2>1. pc = "reading" /\ pc' = "writing" /\ UNCHANGED <<loopVars, seen>>
      BY <1>3 DEF ReadTraffic, Accept
    <2>2. PICK looked, cands, readable, gaps :
            Accept(PassiveVerdict({<<t, Whole>> : t \in cands}, looked, readable, gaps),
                   looked \ cands)
      BY <1>3 DEF ReadTraffic
    <2> DEFINE v == PassiveVerdict({<<t, Whole>> : t \in cands}, looked, readable, gaps)
    <2>3. v.considered \subseteq looked
      BY DEF PassiveVerdict, Finding, Clean, Inconclusive
    <2>4. ASSUME NEW t \in cands PROVE <<t, Whole>> \in v.candidates
      BY <2>4 DEF PassiveVerdict, Finding
    <2> HIDE DEF v
    <2>5. Row' = Row
      BY <2>1 DEF Row, Surface, loopVars
    <2>6. ASSUME NEW o \in offered', o \notin offered, ~o[4] PROVE Unwritten(o)'
      <3>1. PICK t \in v.considered : o = <<Surface, ci, t, t \in looked \ cands>>
        BY <2>2, <2>6, OfferAccepted DEF v
      <3>2. /\ <<o[1], o[2]>> = Row /\ o[3] = t
            /\ o[4] = (t \in looked \ cands)
        BY <3>1 DEF Row
      <3>3. t \in cands
        BY <2>3, <2>6, <3>1, <3>2
      <3>4. <<o[3], Whole>> \in verdict'.candidates
        BY <2>2, <2>4, <3>2, <3>3 DEF Accept, v
      <3>5. QED
        BY <2>1, <2>5, <3>2, <3>4 DEF Unwritten
    <2>7. ASSUME NEW o \in offered, opt.checks[o[2]].hook # "probes", ~o[4]
          PROVE  KeyOf(o) \in seen
      BY <2>1, <2>7, <1>s DEF Unwritten
    <2>8. QED
      BY <2>1, <2>6, <2>7, <1>o, <1>k DEF SeenInv
  <1>4. CASE Conclude
    <2>1. /\ pc = "probing" /\ pc' = "writing" /\ UNCHANGED <<loopVars, seen>>
          /\ Check.hook = "probes"
      BY <1>4 DEF Conclude, Accept, CleanInv, LoopInv
    <2>2. PICK v, absent : Accept(v, absent)
      BY <1>4 DEF Conclude
    <2>3. ASSUME NEW o \in offered', o \notin offered PROVE opt.checks[o[2]].hook = "probes"
      <3>1. PICK t : o = <<Surface, ci, t, t \in absent>>
        BY <2>2, <2>3, OfferAccepted
      <3>2. QED
        BY <2>1, <3>1 DEF Check
    <2>4. ASSUME NEW o \in offered, opt.checks[o[2]].hook # "probes", ~o[4]
          PROVE  KeyOf(o) \in seen
      BY <2>1, <2>4, <1>s DEF Unwritten
    <2>5. QED
      BY <2>1, <2>3, <2>4, <1>o, <1>k DEF SeenInv
  <1>5. CASE WriteFinding
    <2>1. pc = "writing" /\ pc' = "writing" /\ UNCHANGED <<loopVars, offered>>
      BY <1>5 DEF WriteFinding
    <2>2. PICK c \in verdict.candidates :
            /\ seen' = seen \cup {Key(Check, c[1], Surface, c[2])}
            /\ verdict' = [verdict EXCEPT !.candidates = @ \ {c}]
      BY <1>5 DEF WriteFinding
    <2>3. verdict'.candidates = verdict.candidates \ {c}
      BY <2>1, <2>2 DEF CandInv
    <2>4. Row' = Row
      BY <2>1 DEF Row, Surface, loopVars
    <2>5. ASSUME NEW o \in offered, opt.checks[o[2]].hook # "probes", ~o[4]
          PROVE  KeyOf(o) \in seen' \/ Unwritten(o)'
      <3>1. CASE KeyOf(o) \in seen
        BY <2>2, <3>1
      <3>2. CASE Unwritten(o) /\ <<o[3], Whole>> # c
        BY <2>1, <2>3, <2>4, <3>2 DEF Unwritten
      <3>3. CASE Unwritten(o) /\ <<o[3], Whole>> = c
        <4>1. o[1] = Surface /\ opt.checks[o[2]] = Check /\ c[1] = o[3] /\ c[2] = Whole
          BY <3>3 DEF Unwritten, Row, Check
        <4>2. Key(Check, c[1], Surface, c[2]) = KeyOf(o)
          BY <4>1 DEF KeyOf
        <4>3. QED
          BY <2>2, <4>2
      <3>4. QED
        BY <2>1, <2>5, <3>1, <3>2, <3>3, <1>s
    <2>6. QED
      BY <2>1, <2>5, <1>o, <1>k DEF SeenInv
  <1>6. CASE WriteFails \/ RowDone
    <2>1. /\ pc = "writing" /\ pc' = "check" /\ UNCHANGED <<opt, offered, seen>>
          /\ Check.hook = "probes" \/ verdict.candidates = {}
      BY <1>6 DEF WriteFails, RowDone, CloseRow
    <2>2. ASSUME NEW o \in offered, opt.checks[o[2]].hook # "probes", ~o[4]
          PROVE  KeyOf(o) \in seen
      BY <2>1, <2>2, <1>s DEF Unwritten, Row, Check
    <2>3. QED
      BY <2>1, <2>2, <1>o, <1>k DEF SeenInv
  <1>7. CASE LoseSession \/ UNCHANGED vars
    <2>1. UNCHANGED <<pc, loopVars, offered, seen, verdict>>
      BY <1>7 DEF LoseSession, vars, bookVars
    <2>2. Row' = Row
      BY <2>1 DEF Row, Surface, loopVars
    <2>3. QED
      BY <2>1, <2>2, <1>o, <1>k, <1>s DEF SeenInv, Unwritten
  <1>8. QED
    BY <1>1, <1>2, <1>3, <1>4, <1>5, <1>6, <1>7 DEF Next, TheScan

\* What is on file changes when a finding is written and when it is retired.
LEMMA OnFile ==
    ASSUME [Next]_vars
    PROVE  findings' = findings \/ WriteFinding \/ MarkUnobserved
  <1>1. CASE CanaryPasses \/ CanaryFails
    BY <1>1 DEF CanaryPasses, CanaryFails
  <1>2. CASE Open \/ ResolveFails \/ Refresh \/ RefreshFails \/ EnterSurface \/ PassOver
             \/ SkipRest \/ LeaveSurface \/ CanaryDue \/ SkipRow \/ LoopDone \/ OpenRow
    BY <1>2 DEF Open, ResolveFails, Refresh, RefreshFails, EnterSurface, PassOver,
         SkipRest, LeaveSurface, CanaryDue, SkipRow, LoopDone, OpenRow, bookVars
  <1>3. CASE ReadTraffic \/ Conclude \/ ProbeAnswered \/ ProbeDelayed \/ PointLost
             \/ ProbeRefused \/ CheckRaises \/ WriteFails \/ RowDone
    BY <1>3 DEF ReadTraffic, Conclude, ProbeAnswered, ProbeDelayed, PointLost, ProbeRefused,
         CheckRaises, WriteFails, RowDone, bookVars
  <1>4. CASE Settle \/ CloseRun \/ InterruptedAtClose \/ Interrupted \/ LoseSession
             \/ UNCHANGED vars
    BY <1>4 DEF Settle, CloseRun, InterruptedAtClose, Interrupted, LoseSession, vars, bookVars
  <1>5. QED
    BY <1>1, <1>2, <1>3, <1>4 DEF Next, TheScan

LEMMA KnownStep ==
    ASSUME CandInv, KnownInv, [Next]_vars
    PROVE  KnownInv'
  <1>o. opt' = opt
    BY OptStays
  <1>1. CASE findings' = findings
    BY <1>1, <1>o DEF KnownInv, Key
  <1>2. CASE WriteFinding
    <2>1. pc = "writing"
      BY <1>2 DEF WriteFinding
    <2>2. PICK c \in verdict.candidates :
            findings' = Upserted(findings, Key(Check, c[1], Surface, c[2]), ci, Surface)
      BY <1>2 DEF WriteFinding
    <2> DEFINE k == Key(Check, c[1], Surface, c[2])
               new == [key |-> k, check |-> ci, surface |-> Surface, observed |-> TRUE]
    <2>3. findings' \subseteq findings \cup {new}
      BY <2>2 DEF Upserted, Observed
    <2>4. new.key.type = c[1]
      BY DEF Key
    <2>5. /\ DOMAIN new = {"key", "check", "surface", "observed"}
          /\ new.key = k /\ new.check = ci /\ new.surface = Surface
      OBVIOUS
    <2>6. Check.hook # "probes" => k = Key(Check, c[1], Surface, Whole)
      BY <2>1 DEF CandInv
    <2> HIDE DEF k, new
    <2>7. opt.checks[new.check].hook # "probes" =>
            new.key = Key(opt.checks[new.check], new.key.type, new.surface, Whole)
      BY <2>4, <2>5, <2>6 DEF Check
    <2>8. QED
      BY <2>3, <2>5, <2>7, <1>o DEF KnownInv, Key
  <1>3. CASE MarkUnobserved
    <2>1. SUFFICES ASSUME NEW g \in findings'
                   PROVE  /\ DOMAIN g = {"key", "check", "surface", "observed"}
                          /\ opt.checks[g.check].hook # "probes" =>
                               g.key = Key(opt.checks[g.check], g.key.type, g.surface, Whole)
      BY <1>o DEF KnownInv, Key
    <2>2. PICK f \in findings : g = f \/ g = Observed(f, FALSE)
      BY <1>3 DEF MarkUnobserved
    <2>3. DOMAIN f = {"key", "check", "surface", "observed"}
      BY DEF KnownInv
    <2>4. /\ DOMAIN g = {"key", "check", "surface", "observed"}
          /\ g.key = f.key /\ g.check = f.check /\ g.surface = f.surface
      BY <2>2, <2>3 DEF Observed
    <2>5. QED
      BY <2>4 DEF KnownInv
  <1>4. QED
    BY <1>1, <1>2, <1>3, OnFile

\* What is marked was offered and retirable: by a check of captured traffic, so
\* that its key was not found, or by one that probed where the run is proven.
LEMMA RetiredStep ==
    ASSUME Shape, BookInv, BookInv', ProvenInv, ViewInv, OffersInv, SeenInv, KnownInv,
           RetiredMeansGone, [Next]_vars
    PROVE  RetiredMeansGone'
  <1>1. CASE findings' = findings
    <2>1. offered \subseteq offered'
      <3>1. CASE ReadTraffic \/ Conclude
        <4>1. PICK v, absent : Accept(v, absent)
          BY <3>1 DEF ReadTraffic, Conclude
        <4>2. QED
          BY <4>1 DEF Accept
      <3>2. QED
        BY <3>1, OfferedSoFar
    <2>2. QED
      BY <1>1, <2>1 DEF RetiredMeansGone
  <1>2. CASE WriteFinding
    BY <1>2 DEF WriteFinding, BookInv, RetiredMeansGone
  <1>3. CASE MarkUnobserved
    <2>1. SUFFICES ASSUME NEW g \in findings', ~g.observed
                   PROVE  <<g.surface, g.check, g.key.type, TRUE>> \in offered'
      BY DEF RetiredMeansGone
    <2>2. /\ pc = "mark" /\ offered' = offered
          /\ findings' = {IF f.key \notin seen
                               /\ <<f.surface, f.check, f.key.type>> \in Considered
                             THEN Observed(f, FALSE) ELSE f : f \in findings}
      BY <1>3 DEF MarkUnobserved
    <2>3. PICK f \in findings :
            g = IF f.key \notin seen /\ <<f.surface, f.check, f.key.type>> \in Considered
                  THEN Observed(f, FALSE) ELSE f
      BY <2>2
    <2>4. f.observed
      BY <2>2 DEF BookInv
    <2>5. /\ f.key \notin seen /\ <<f.surface, f.check, f.key.type>> \in Considered
          /\ g = Observed(f, FALSE)
      BY <2>1, <2>3, <2>4
    <2>6. g.surface = f.surface /\ g.check = f.check /\ g.key = f.key
      BY <2>5 DEF Observed, KnownInv
    <2>7. PICK o \in offered :
            /\ Retirable(o[1], o[2])
            /\ <<o[1], o[2], o[3]>> = <<f.surface, f.check, f.key.type>>
      BY <2>5 DEF Considered
    <2>8. o[1] = f.surface /\ o[2] = f.check /\ o[3] = f.key.type
      BY <2>7
    <2>9. o = <<o[1], o[2], o[3], o[4]>> /\ o[4] \in BOOLEAN
      BY DEF OffersInv
    <2>10. o[4]
      <3>1. CASE opt.checks[o[2]].hook = "probes"
        <4>1. run.identity = "proven" /\ Origin[o[1]] = ProvenOrigin
          BY <2>7, <3>1 DEF Retirable
        <4>2. Vouched
          BY <4>1 DEF ViewInv, ProvenInv, Vouched
        <4>3. QED
          BY <3>1, <4>1, <4>2 DEF OffersInv
      <3>2. CASE opt.checks[o[2]].hook # "probes"
        <4>1. KeyOf(o) = f.key
          BY <2>8, <3>2 DEF KeyOf, KnownInv
        <4>2. KeyOf(o) \notin seen /\ ~Unwritten(o) /\ pc # "done"
          BY <2>2, <2>5, <4>1 DEF Unwritten
        <4>3. QED
          BY <3>2, <4>2 DEF SeenInv
      <3>3. QED
        BY <3>1, <3>2
    <2>11. o = <<g.surface, g.check, g.key.type, TRUE>>
      BY <2>6, <2>8, <2>9, <2>10
    <2>12. QED
      BY <2>2, <2>11
  <1>4. QED
    BY <1>1, <1>2, <1>3, OnFile

\* Where only the findings of checks that probe may fail to be stored, and no
\* body is too large to be compared: a finding that reads as gone was looked
\* for by its own check at its own surface and was absent, in captured traffic
\* or, by a run that had proved itself logged in, at the origin it proved it at
\* (scan._mark_unobserved).  Where a body can be too large, or the findings of
\* other checks can be lost, it does not hold.
THEOREM RetiredHolds ==
    ~LargeBodies /\ FailingWrites \subseteq {"probes"} => (Spec => []RetiredMeansGone)
  <1> SUFFICES ASSUME ~LargeBodies, FailingWrites \subseteq {"probes"}
               PROVE  Spec => []RetiredMeansGone
    OBVIOUS
  <1> DEFINE I == Inv /\ ProvenInv /\ CleanInv /\ GoneInv
  <1>1. Init => I
    BY InvInit, ProvenInit, CleanInit, GoneInit
  <1>2. I /\ [Next]_vars => I'
    BY InvStep, ProvenStep, CleanStep, ViewStep, OffersStep, SeenStep, CandStep, KnownStep,
       RetiredStep DEF Inv, GoneInv
  <1>3. I => RetiredMeansGone
    BY DEF GoneInv
  <1> HIDE DEF I
  <1>4. QED
    BY <1>1, <1>2, <1>3, PTL DEF Spec

-----------------------------------------------------------------------------
(* How far the scan still has to go. *)

\* The parts of a scan, from the last one to the first.
Era ==
    CASE pc = "open" -> 7
      [] pc \in Canaries /\ window.why = "start" -> 6
      [] pc = "surface" \/ InSurface -> 5
      [] pc \in Canaries /\ window.why = "finish" -> 4
      [] pc = "settle" -> 3
      [] pc = "mark" -> 2
      [] pc = "done" -> 0
      [] OTHER -> 1

\* The surfaces it has not left, and the checks it has not made of this one.
SurfacesLeft == (Len(SurfaceSeq) + 1) - si
ChecksLeft == IF pc = "surface" THEN Len(opt.checks) + 1 ELSE (Len(opt.checks) + 1) - ci

\* The stages of a canary and of a row.
CanaryOwed == Bracketed /\ window.due
Stage ==
    CASE pc = "check" -> IF CanaryOwed THEN 7 ELSE 3
      [] pc = "canary" -> 6
      [] pc = "refresh" -> 5
      [] pc = "again" -> 4
      [] pc \in {"reading", "probing"} -> 2
      [] OTHER -> 1

\* The requests a check's loop has still to make at most, when none is asked
\* again, and the candidates still to be written.
Togo(p) == 2 * Len(p.todo) + (IF p.second THEN 0 ELSE 1)
Work ==
    CASE pc = "probing" -> Togo(probing)
      [] pc = "writing" -> Cardinality(verdict.candidates)
      [] OTHER -> 0

\* How often a rate limit is still slept over, and a session that may still die.
Tries == IF pc = "probing" THEN sender.tries ELSE 0
Alive == IF live THEN 1 ELSE 0

Rank == <<Era, SurfacesLeft, ChecksLeft, Stage, Work, Tries, Alive>>
Ranks == Nat \X Nat \X Nat \X Nat \X Nat \X Nat \X Nat

\* The first entry in which two ranks differ is the lower one.
Below(a, b) == \E n \in 1..7 : a[n] < b[n] /\ \A m \in 1..(n - 1) : a[m] = b[m]

\* What makes the rank a tuple of naturals.
Finite(p) == IsLoop(p) /\ IsFiniteSet(p.found)
FarInv ==
    /\ si <= Len(SurfaceSeq) + 1 /\ ci <= Len(opt.checks) + 1
    /\ pc \in Canaries => ~window.due
    /\ pc = "probing" => Finite(probing) /\ sender.tries \in Nat
    /\ pc = "writing" => IsFiniteSet(verdict.candidates)

LEMMA TogoIsNat ==
    ASSUME NEW p, IsLoop(p)
    PROVE  Len(p.todo) \in Nat /\ Togo(p) \in Nat
  BY DEF IsLoop, Togo

\* The loop goes on to the next point ...
LEMMA Onward ==
    ASSUME NEW p, Finite(p), p.todo # <<>>,
           NEW q, DOMAIN q = DOMAIN p, q.todo = p.todo,
           q.found \in {p.found, p.found \cup {Head(p.todo)}}
    PROVE  Finite(NextPoint(q)) /\ Togo(NextPoint(q)) < Togo(p)
  <1>1. IsLoop(q) /\ IsLoop(p)
    BY DEF Finite, IsLoop
  <1>2. IsFiniteSet(q.found)
    BY FS_AddElement DEF Finite
  <1>3. Finite(NextPoint(q))
    BY <1>1, <1>2, NextPointIs DEF Finite
  <1>4. PICK T : p.todo \in Seq(T)
    BY <1>1 DEF IsLoop
  <1>5. Len(p.todo) \in Nat /\ Len(Tail(p.todo)) = Len(p.todo) - 1
    BY <1>4
  <1>6. NextPoint(q).todo = Tail(p.todo) /\ NextPoint(q).second = FALSE
    BY <1>1 DEF NextPoint, IsLoop
  <1>7. Togo(NextPoint(q)) = 2 * (Len(p.todo) - 1) + 1
    BY <1>5, <1>6 DEF Togo
  <1>8. Togo(p) = 2 * Len(p.todo) \/ Togo(p) = 2 * Len(p.todo) + 1
    <2>1. CASE p.second
      BY <1>5, <2>1 DEF Togo
    <2>2. CASE ~p.second
      BY <1>5, <2>2 DEF Togo
    <2>3. QED
      BY <2>1, <2>2
  <1>9. QED
    BY <1>3, <1>5, <1>7, <1>8

\* ... or makes its second request at the point it is at.
LEMMA OnceMore ==
    ASSUME NEW p, Finite(p), ~p.second,
           NEW q, DOMAIN q = DOMAIN p, q.todo = p.todo, q.found = p.found, q.second
    PROVE  Finite(q) /\ Togo(q) < Togo(p)
  <1>1. Finite(q) /\ Len(p.todo) \in Nat
    BY TogoIsNat DEF Finite, IsLoop
  <1>2. QED
    BY <1>1 DEF Togo

LEMMA SingleMoves ==
    ASSUME NEW p, Finite(p), p.todo # <<>>, NEW answer
    PROVE  Finite(AfterSingle(p, answer)) /\ Togo(AfterSingle(p, answer)) < Togo(p)
  <1> DEFINE q == [p EXCEPT !.probed = TRUE]
             found == [q EXCEPT !.found = @ \cup {Head(p.todo)}]
             gap == [q EXCEPT !.gaps = TRUE]
             read == [q EXCEPT !.compared = @ \cup {Head(p.todo)}]
  <1>1. \A r \in {found, gap, read} :
           /\ DOMAIN r = DOMAIN p /\ r.todo = p.todo
           /\ r.found \in {p.found, p.found \cup {Head(p.todo)}}
    BY DEF Finite, IsLoop
  <1>2. \E r \in {found, gap, read} : AfterSingle(p, answer) = NextPoint(r)
    BY DEF AfterSingle
  <1> HIDE DEF found, gap, read
  <1>3. QED
    BY <1>1, <1>2, Onward

LEMMA EscalationMoves ==
    ASSUME NEW p, Finite(p), p.todo # <<>>, NEW answer
    PROVE  Finite(AfterEscalation(p, answer)) /\ Togo(AfterEscalation(p, answer)) < Togo(p)
  <1> DEFINE found == [p EXCEPT !.found = @ \cup {Head(p.todo)}]
             again == [p EXCEPT !.probed = TRUE, !.second = TRUE]
  <1>1. /\ DOMAIN found = DOMAIN p /\ found.todo = p.todo
        /\ found.found = p.found \cup {Head(p.todo)}
    BY DEF Finite, IsLoop
  <1>2. DOMAIN again = DOMAIN p /\ again.todo = p.todo /\ again.found = p.found /\ again.second
    BY DEF Finite, IsLoop
  <1>3. AfterEscalation(p, answer) =
           IF p.second THEN NextPoint(found)
           ELSE IF answer.match THEN again ELSE AfterSingle(p, answer)
    BY DEF AfterEscalation
  <1> HIDE DEF found, again
  <1>4. CASE p.second
    BY <1>1, <1>3, <1>4, Onward
  <1>5. CASE ~p.second /\ answer.match
    BY <1>2, <1>3, <1>5, OnceMore
  <1>6. CASE ~p.second /\ ~answer.match
    BY <1>3, <1>6, SingleMoves
  <1>7. QED
    BY <1>4, <1>5, <1>6

LEMMA PairMoves ==
    ASSUME NEW p, Finite(p), p.todo # <<>>, NEW answer
    PROVE  Finite(AfterPair(p, answer)) /\ Togo(AfterPair(p, answer)) < Togo(p)
  <1> DEFINE q == [p EXCEPT !.probed = TRUE]
             point == {Head(p.todo)}
             again == [p EXCEPT !.second = TRUE]
             found == [q EXCEPT !.found = @ \cup point]
             gap == [q EXCEPT !.gaps = TRUE]
             read == [q EXCEPT !.compared = IF answer.large THEN @ ELSE @ \cup point]
  <1>1. \A r \in {found, gap, read} :
           /\ DOMAIN r = DOMAIN p /\ r.todo = p.todo
           /\ r.found \in {p.found, p.found \cup {Head(p.todo)}}
    BY DEF Finite, IsLoop
  <1>2. DOMAIN again = DOMAIN p /\ again.todo = p.todo /\ again.found = p.found /\ again.second
    BY DEF Finite, IsLoop
  <1>3. IF ~p.second THEN AfterPair(p, answer) = again
        ELSE \E r \in {found, gap, read} : AfterPair(p, answer) = NextPoint(r)
    BY DEF AfterPair
  <1> HIDE DEF again, found, gap, read
  <1>4. CASE ~p.second
    BY <1>2, <1>3, <1>4, OnceMore
  <1>5. CASE p.second
    BY <1>1, <1>3, <1>5, Onward
  <1>6. QED
    BY <1>4, <1>5

\* Every answer, and every refusal a check catches, takes its loop further.
LEMMA AnswerMoves ==
    ASSUME NEW p, Finite(p), p.todo # <<>>, NEW answer
    PROVE  Finite(AfterAnswer(p, answer)) /\ Togo(AfterAnswer(p, answer)) < Togo(p)
  BY SingleMoves, EscalationMoves, PairMoves DEF AfterAnswer

LEMMA RefusalMoves ==
    ASSUME NEW p, Finite(p), p.todo # <<>>
    PROVE  Finite(AfterRefusal(p)) /\ Togo(AfterRefusal(p)) < Togo(p)
  <1> DEFINE q == [p EXCEPT !.gaps = TRUE,
                            !.found = IF p.check.shape = "escalate" /\ p.second
                                        THEN @ \cup {Head(p.todo)} ELSE @]
  <1>1. /\ DOMAIN q = DOMAIN p /\ q.todo = p.todo
        /\ q.found \in {p.found, p.found \cup {Head(p.todo)}}
    BY DEF Finite, IsLoop
  <1>2. AfterRefusal(p) = NextPoint(q)
    BY DEF AfterRefusal
  <1> HIDE DEF q
  <1>3. QED
    BY <1>1, <1>2, Onward

LEMMA TypesFinite ==
    ASSUME NEW c \in Corpus
    PROVE  IsFiniteSet(c.types)
  <1>1. \A x, y, z : IsFiniteSet({x}) /\ IsFiniteSet({x, y}) /\ IsFiniteSet({x, y, z})
    <2> TAKE x, y, z
    <2>1. IsFiniteSet({x})
      BY FS_Singleton
    <2>2. IsFiniteSet({x} \cup {y})
      BY <2>1, FS_AddElement
    <2>3. IsFiniteSet(({x} \cup {y}) \cup {z})
      BY <2>2, FS_AddElement
    <2>4. {x, y} = {x} \cup {y} /\ {x, y, z} = ({x} \cup {y}) \cup {z}
      OBVIOUS
    <2>5. QED
      BY <2>1, <2>2, <2>3, <2>4
  <1>2. c.types \in {{"cookie"}, {"csp", "hsts"}, {"secret"}, {"trace"},
                     {"credentials", "origin", "wildcard"}, {"redirect"}, {"traversal"},
                     {"sql-error"}, {"reflected"}, {"sql"}}
    BY DEF Corpus, CookieFlags, SecurityHeaders, SecretInResponse, StackTrace, Cors,
           OpenRedirect, PathTraversal, SqlError, ReflectedInput, SqlBehaviour, Passive, Active
  <1>3. /\ IsFiniteSet({"cookie"}) /\ IsFiniteSet({"csp", "hsts"}) /\ IsFiniteSet({"secret"})
        /\ IsFiniteSet({"trace"}) /\ IsFiniteSet({"credentials", "origin", "wildcard"})
        /\ IsFiniteSet({"redirect"}) /\ IsFiniteSet({"traversal"})
        /\ IsFiniteSet({"sql-error"}) /\ IsFiniteSet({"reflected"}) /\ IsFiniteSet({"sql"})
    BY <1>1
  <1>4. QED
    BY <1>2, <1>3

\* A verdict's candidates are pairs of one of finitely many types and points.
LEMMA CandidatesFinite ==
    ASSUME NEW T, IsFiniteSet(T), NEW P, IsFiniteSet(P), NEW C, C \subseteq T \X P
    PROVE  IsFiniteSet(C)
  BY FS_Product, FS_Subset

LEMMA FarInit == Init => FarInv
  <1> SUFFICES ASSUME Init PROVE FarInv
    OBVIOUS
  <1>1. opt \in Options /\ pc = "open" /\ si = 1 /\ ci = 1
    BY DEF Init
  <1>2. QED
    BY <1>1, ChecksCounted DEF FarInv, Canaries

LEMMA Counted ==
    ASSUME WalkInv
    PROVE  /\ Len(opt.checks) \in Nat /\ Len(SurfaceSeq) \in Nat
           /\ si \in Nat /\ ci \in Nat /\ si >= 1 /\ ci >= 1
  BY ChecksCounted DEF WalkInv

LEMMA RankTyped == WalkInv /\ FarInv => Rank \in Ranks
  <1> SUFFICES ASSUME WalkInv, FarInv PROVE Rank \in Ranks
    OBVIOUS
  <1>1. Era \in Nat /\ Stage \in Nat /\ Alive \in Nat
    BY DEF Era, Stage, Alive
  <1>2. SurfacesLeft \in Nat /\ ChecksLeft \in Nat
    BY Counted DEF FarInv, SurfacesLeft, ChecksLeft
  <1>3. Work \in Nat
    BY TogoIsNat, FS_CardinalityType DEF FarInv, Finite, Work
  <1>4. Tries \in Nat
    BY DEF FarInv, Tries
  <1>5. QED
    BY <1>1, <1>2, <1>3, <1>4 DEF Rank, Ranks

\* The entries of the rank, in their order.
LEMMA EraFalls == Era' < Era => Below(Rank', Rank)
  <1> SUFFICES ASSUME Era' < Era PROVE \E n \in 1..7 : Rank'[n] < Rank[n]
                                          /\ \A m \in 1..(n - 1) : Rank'[m] = Rank[m]
    BY DEF Below
  <1>1. Rank'[1] < Rank[1] /\ \A m \in 1..(1 - 1) : Rank'[m] = Rank[m]
    BY DEF Rank
  <1>2. QED
    BY <1>1

LEMMA SurfacesFall ==
    ASSUME Era' = Era, SurfacesLeft' < SurfacesLeft
    PROVE  Below(Rank', Rank)
  <1>1. Rank'[2] < Rank[2] /\ \A m \in 1..(2 - 1) : Rank'[m] = Rank[m]
    BY DEF Rank
  <1>2. QED
    BY <1>1 DEF Below

LEMMA ChecksFall ==
    ASSUME Era' = Era, SurfacesLeft' = SurfacesLeft, ChecksLeft' < ChecksLeft
    PROVE  Below(Rank', Rank)
  <1>1. Rank'[3] < Rank[3] /\ \A m \in 1..(3 - 1) : Rank'[m] = Rank[m]
    BY DEF Rank
  <1>2. QED
    BY <1>1 DEF Below

LEMMA StageFalls ==
    ASSUME Era' = Era, SurfacesLeft' = SurfacesLeft, ChecksLeft' = ChecksLeft, Stage' < Stage
    PROVE  Below(Rank', Rank)
  <1>1. Rank'[4] < Rank[4] /\ \A m \in 1..(4 - 1) : Rank'[m] = Rank[m]
    BY DEF Rank
  <1>2. QED
    BY <1>1 DEF Below

LEMMA WorkFalls ==
    ASSUME Era' = Era, SurfacesLeft' = SurfacesLeft, ChecksLeft' = ChecksLeft, Stage' = Stage,
           \/ Work' < Work
           \/ Work' = Work /\ Tries' < Tries
           \/ Work' = Work /\ Tries' = Tries /\ Alive' < Alive
    PROVE  Below(Rank', Rank)
  <1>1. CASE Work' < Work
    <2>1. Rank'[5] < Rank[5] /\ \A m \in 1..(5 - 1) : Rank'[m] = Rank[m]
      BY <1>1 DEF Rank
    <2>2. QED
      BY <2>1 DEF Below
  <1>2. CASE Work' = Work /\ Tries' < Tries
    <2>1. Rank'[6] < Rank[6] /\ \A m \in 1..(6 - 1) : Rank'[m] = Rank[m]
      BY <1>2 DEF Rank
    <2>2. QED
      BY <2>1 DEF Below
  <1>3. CASE Work' = Work /\ Tries' = Tries /\ Alive' < Alive
    <2>1. Rank'[7] < Rank[7] /\ \A m \in 1..(7 - 1) : Rank'[m] = Rank[m]
      BY <1>3 DEF Rank
    <2>2. QED
      BY <2>1 DEF Below
  <1>4. QED
    BY <1>1, <1>2, <1>3

\* A scan that is over is at the end of its rank.
LEMMA EndedFar ==
    ASSUME FarInv, pc # "done", pc' = "done", UNCHANGED <<opt, si, ci>>
    PROVE  FarInv' /\ Below(Rank', Rank)
  <1>1. Era' = 0 /\ Era > 0
    BY DEF Era, InSurface, InRow, Canaries
  <1>2. FarInv'
    BY DEF FarInv, Canaries
  <1>3. QED
    BY <1>1, <1>2, EraFalls

\* Within a row nothing but the row moves ...
LEMMA RowMoves ==
    ASSUME InRow \/ pc = "check", InRow', UNCHANGED <<opt, si, ci>>
    PROVE  Era' = Era /\ SurfacesLeft' = SurfacesLeft /\ ChecksLeft' = ChecksLeft
  BY DEF Era, InSurface, InRow, Canaries, SurfacesLeft, ChecksLeft

\* ... and the next check's turn comes after it.
LEMMA RowPasses ==
    ASSUME WalkInv, FarInv, InRow \/ pc = "check", ci <= Len(opt.checks),
           pc' = "check", ci' = ci + 1, UNCHANGED <<opt, si>>
    PROVE  FarInv' /\ Below(Rank', Rank)
  <1>1. Era' = Era /\ SurfacesLeft' = SurfacesLeft
    BY DEF Era, InSurface, InRow, Canaries, SurfacesLeft
  <1>2. ChecksLeft' < ChecksLeft
    BY Counted DEF ChecksLeft, InRow
  <1>3. FarInv'
    BY Counted DEF FarInv, Canaries
  <1>4. QED
    BY <1>1, <1>2, <1>3, ChecksFall

LEMMA SurfacePasses ==
    ASSUME WalkInv, FarInv, pc \in {"surface", "check"}, si <= Len(SurfaceSeq),
           pc' = "surface", si' = si + 1, UNCHANGED <<opt, ci>>
    PROVE  FarInv' /\ Below(Rank', Rank)
  <1>1. Era' = Era
    BY DEF Era, InSurface, InRow, Canaries
  <1>2. SurfacesLeft' < SurfacesLeft
    BY Counted DEF SurfacesLeft
  <1>3. FarInv'
    BY Counted DEF FarInv, Canaries
  <1>4. QED
    BY <1>1, <1>2, <1>3, SurfacesFall

\* The canaries lead on to the next part, or to the next of their own stages.
LEMMA CanaryMoves ==
    ASSUME Shape, WalkInv, FarInv, CanaryPasses \/ CanaryFails \/ Refresh \/ RefreshFails
    PROVE  FarInv' /\ Below(Rank', Rank)
  <1> USE DEF Shape
  <1>1. pc \in Canaries /\ window.why \in {"start", "due", "finish"} /\ ~window.due
    BY DEF CanaryPasses, CanaryFails, Refresh, RefreshFails, Canaries, WalkInv, FarInv
  <1>2. UNCHANGED <<opt, si, ci>> /\ window'.why = window.why /\ window'.due = window.due
    BY DEF CanaryPasses, CanaryFails, Refresh, RefreshFails, Opened, loopVars
  <1>3. CASE pc' = "done"
    BY <1>1, <1>2, <1>3, EndedFar DEF Canaries
  <1>4. CASE CanaryPasses
    <2>1. /\ pc \in {"canary", "again"}
          /\ pc' = CASE window.why = "start" -> "surface"
                     [] window.why = "due" -> "check"
                     [] window.why = "finish" -> "settle"
      BY <1>4 DEF CanaryPasses, Proceed
    <2>2. pc' \in {"surface", "check", "settle"}
      BY <1>1, <2>1
    <2>3. FarInv'
      BY <1>2, <2>2 DEF FarInv, Canaries
    <2>4. CASE window.why = "start"
      <3>1. Era' = 5 /\ Era = 6
        BY <2>1, <2>4 DEF Era, InSurface, InRow, Canaries
      <3>2. QED
        BY <2>3, <3>1, EraFalls
    <2>5. CASE window.why = "due"
      <3>1. pc' = "check"
        BY <2>1, <2>5
      <3>2. Era' = Era /\ SurfacesLeft' = SurfacesLeft /\ ChecksLeft' = ChecksLeft
        BY <1>2, <2>1, <2>5, <3>1
           DEF Era, InSurface, InRow, Canaries, SurfacesLeft, ChecksLeft
      <3>3. Stage' = 3 /\ Stage > 3
        BY <1>1, <1>2, <2>1, <3>1 DEF Stage, CanaryOwed
      <3>4. QED
        BY <2>3, <3>2, <3>3, StageFalls
    <2>6. CASE window.why = "finish"
      <3>1. Era' = 3 /\ Era = 4
        BY <2>1, <2>6 DEF Era, InSurface, InRow, Canaries
      <3>2. QED
        BY <2>3, <3>1, EraFalls
    <2>7. QED
      BY <1>1, <2>4, <2>5, <2>6
  <1>5. CASE CanaryFails /\ pc' # "done"
    <2>1. \/ window.why = "finish" /\ pc' = "settle"
          \/ pc = "canary" /\ pc' = "refresh"
      BY <1>5 DEF CanaryFails, Halt
    <2>2. FarInv'
      BY <1>1, <1>2, <2>1 DEF FarInv, Canaries
    <2>3. CASE window.why = "finish" /\ pc' = "settle"
      <3>1. Era' = 3 /\ Era = 4
        BY <1>1, <2>3 DEF Era, InSurface, InRow, Canaries
      <3>2. QED
        BY <2>2, <3>1, EraFalls
    <2>4. CASE pc = "canary" /\ pc' = "refresh"
      <3>1. Era' = Era /\ SurfacesLeft' = SurfacesLeft /\ ChecksLeft' = ChecksLeft
        BY <1>2, <2>4 DEF Era, InSurface, InRow, Canaries, SurfacesLeft, ChecksLeft
      <3>2. Stage' = 5 /\ Stage = 6
        BY <2>4 DEF Stage
      <3>3. QED
        BY <2>2, <3>1, <3>2, StageFalls
    <2>5. QED
      BY <2>1, <2>3, <2>4
  <1>6. CASE Refresh
    <2>1. pc = "refresh" /\ pc' = "again"
      BY <1>6 DEF Refresh
    <2>2. FarInv'
      BY <1>1, <1>2, <2>1 DEF FarInv, Canaries
    <2>3. Era' = Era /\ SurfacesLeft' = SurfacesLeft /\ ChecksLeft' = ChecksLeft
      BY <1>2, <2>1 DEF Era, InSurface, InRow, Canaries, SurfacesLeft, ChecksLeft
    <2>4. Stage' = 4 /\ Stage = 5
      BY <2>1 DEF Stage
    <2>5. QED
      BY <2>2, <2>3, <2>4, StageFalls
  <1>7. QED
    BY <1>3, <1>4, <1>5, <1>6 DEF RefreshFails, Halt

\* A request that is answered or given up takes the row's loop further, and one
\* that is asked again uses up an attempt.
LEMMA ProbeMoves ==
    ASSUME Shape, WalkInv, FarInv, ProbeAnswered \/ ProbeDelayed \/ PointLost
    PROVE  FarInv' /\ Below(Rank', Rank)
  <1> USE DEF Shape
  <1>1. pc = "probing" /\ pc' = "probing" /\ UNCHANGED <<opt, si, ci, window>>
    BY DEF ProbeAnswered, ProbeDelayed, PointLost, loopVars
  <1>2. Era' = Era /\ SurfacesLeft' = SurfacesLeft /\ ChecksLeft' = ChecksLeft /\ Stage' = Stage
    BY <1>1, RowMoves DEF InRow, Stage
  <1>3. Finite(probing) /\ sender.tries \in Nat /\ Attempts \in Nat
    BY <1>1, RowAssumptions DEF FarInv
  <1>4. ASSUME Finite(probing'), Togo(probing') < Togo(probing), sender'.tries \in Nat
        PROVE  FarInv' /\ Below(Rank', Rank)
    <2>1. FarInv'
      BY <1>1, <1>4 DEF FarInv, Canaries
    <2>2. Work' < Work
      BY <1>1, <1>4 DEF Work
    <2>3. QED
      BY <1>2, <2>1, <2>2, WorkFalls
  <1>5. CASE ProbeAnswered
    <2>1. probing.todo # <<>> /\ sender'.tries = Attempts
      BY <1>5 DEF ProbeAnswered, Answered, Probing
    <2>2. PICK answer \in Answers :
            probing' = [AfterAnswer(probing, answer) EXCEPT !.dark = @ \/ ~(Genuine /\ live)]
      BY <1>5 DEF ProbeAnswered, Answered
    <2> DEFINE p == AfterAnswer(probing, answer)
    <2>3. Finite(p) /\ Togo(p) < Togo(probing)
      BY <1>3, <2>1, AnswerMoves
    <2>4. probing' = [p EXCEPT !.dark = p.dark \/ ~(Genuine /\ live)]
      BY <2>2
    <2> HIDE DEF p
    <2>5. /\ DOMAIN probing' = DOMAIN p /\ probing'.todo = p.todo
          /\ probing'.second = p.second /\ probing'.found = p.found
      BY <2>3, <2>4 DEF Finite, IsLoop
    <2>6. Finite(probing') /\ Togo(probing') = Togo(p)
      BY <2>3, <2>5 DEF Finite, IsLoop, Togo
    <2>7. QED
      BY <1>3, <1>4, <2>1, <2>3, <2>6
  <1>6. CASE ProbeDelayed
    <2>1. /\ sender.tries > 1 /\ sender'.tries = sender.tries - 1
          /\ UNCHANGED <<probing, live, verdict>>
      BY <1>6 DEF ProbeDelayed, RateLimited, bookVars
    <2>2. FarInv'
      BY <1>1, <1>3, <2>1 DEF FarInv, Canaries
    <2>3. Work' = Work /\ Tries' < Tries
      BY <1>1, <1>3, <2>1 DEF Work, Tries
    <2>4. QED
      BY <1>2, <2>2, <2>3, WorkFalls
  <1>7. CASE PointLost
    <2>1. /\ probing.todo # <<>> /\ probing' = AfterRefusal(probing)
          /\ sender'.tries = Attempts
      BY <1>7 DEF PointLost, PointRefused, RefusedProbe, Probing
    <2>2. Finite(probing') /\ Togo(probing') < Togo(probing)
      BY <1>3, <2>1, RefusalMoves
    <2>3. QED
      BY <1>3, <1>4, <2>1, <2>2
  <1>8. QED
    BY <1>5, <1>6, <1>7

\* A row goes from its opening to its verdict, and a verdict's candidates are
\* written one after the other.
LEMMA VerdictMoves ==
    ASSUME Shape, WalkInv, FarInv, OpenRow \/ ReadTraffic \/ Conclude \/ WriteFinding
    PROVE  FarInv' /\ Below(Rank', Rank)
  <1> USE DEF Shape
  <1>1. UNCHANGED <<opt, si, ci, window>>
    BY DEF OpenRow, ReadTraffic, Conclude, WriteFinding, loopVars
  <1>2. CASE OpenRow
    <2>1. /\ pc = "check" /\ ci <= Len(opt.checks) /\ ~CanaryOwed /\ pc' \in {"reading", "probing"}
          /\ pc' = "probing" =>
                /\ probing' = [NoRow EXCEPT !.check = Check, !.todo = Wanted(Check, Surface)]
                /\ sender' = [NoSender EXCEPT !.tries = Attempts]
      BY <1>2 DEF OpenRow, RowDue, StartRow, CanaryOwed
    <2>2. ASSUME pc' = "probing" PROVE Finite(probing') /\ sender'.tries \in Nat
      <3>1. Surface \in Surfaces
        BY <2>1, RowIsOne DEF InSurface, Surface, Rows, Row
      <3>2. PICK T : Wanted(Check, Surface) \in Seq(T)
        BY <3>1, WantedIsSeq
      <3>3. /\ probing'.todo = Wanted(Check, Surface) /\ probing'.found = {}
            /\ DOMAIN probing' = {"check", "todo", "second", "gaps", "found", "probed",
                                  "compared", "dark"}
        BY <2>1, <2>2 DEF NoRow
      <3>4. IsFiniteSet({})
        BY FS_EmptySet
      <3>5. sender'.tries \in Nat
        BY <2>1, <2>2, RowAssumptions DEF NoSender
      <3>6. QED
        BY <3>2, <3>3, <3>4, <3>5 DEF Finite, IsLoop
    <2>3. FarInv'
      BY <1>1, <2>1, <2>2 DEF FarInv, Canaries
    <2>4. Stage' = 2 /\ Stage = 3
      BY <2>1 DEF Stage
    <2>5. QED
      BY <1>1, <2>1, <2>3, <2>4, RowMoves, StageFalls DEF InRow
  <1>3. CASE ReadTraffic \/ Conclude
    <2>1. pc \in {"reading", "probing"} /\ pc' = "writing" /\ ci <= Len(opt.checks)
      BY <1>3 DEF ReadTraffic, Conclude, Accept, WalkInv, InRow
    <2>2. IsFiniteSet(Check.types)
      <3>1. Check \in Corpus
        BY <2>1, Counted, ScanAssumptions DEF Check, WalkInv
      <3>2. QED
        BY <3>1, TypesFinite
    <2>3. IsFiniteSet(verdict'.candidates)
      <3>1. CASE ReadTraffic
        <4>1. PICK looked \in SUBSET Check.types : \E cands \in SUBSET looked :
                \E readable, gaps \in BOOLEAN :
                  verdict' = PassiveVerdict({<<t, Whole>> : t \in cands}, looked, readable, gaps)
          BY <3>1 DEF ReadTraffic, Accept
        <4>2. verdict'.candidates \subseteq Check.types \X {Whole}
          BY <4>1 DEF PassiveVerdict, Finding, Inconclusive, Clean
        <4>3. IsFiniteSet({Whole})
          BY FS_Singleton
        <4>4. QED
          BY <2>2, <4>2, <4>3, CandidatesFinite
      <3>2. CASE Conclude
        <4>1. Finite(probing)
          BY <3>2 DEF Conclude, FarInv
        <4>2. PICK type \in [probing.found -> Check.types] :
                verdict' = [RowVerdict EXCEPT !.candidates = {<<type[p], p>> : p \in @}]
          BY <3>2 DEF Conclude, Accept
        <4>3. DOMAIN RowVerdict = {"state", "candidates", "considered"}
              /\ RowVerdict.candidates \subseteq probing.found
          BY DEF RowVerdict, ActiveVerdict, Finding, Inconclusive, Clean
        <4>4. verdict'.candidates = {<<type[p], p>> : p \in RowVerdict.candidates}
          BY <4>2, <4>3
        <4>5. verdict'.candidates \subseteq Check.types \X probing.found
          BY <4>3, <4>4
        <4>6. QED
          BY <2>2, <4>1, <4>5, CandidatesFinite DEF Finite
      <3>3. QED
        BY <1>3, <3>1, <3>2
    <2>4. FarInv'
      BY <1>1, <2>1, <2>3 DEF FarInv, Canaries
    <2>5. Stage' = 1 /\ Stage = 2
      BY <2>1 DEF Stage
    <2>6. QED
      BY <1>1, <2>1, <2>4, <2>5, RowMoves, StageFalls DEF InRow
  <1>4. CASE WriteFinding
    <2>1. pc = "writing" /\ pc' = "writing" /\ IsFiniteSet(verdict.candidates)
      BY <1>4 DEF WriteFinding, FarInv
    <2>2. PICK c \in verdict.candidates :
            verdict' = [verdict EXCEPT !.candidates = @ \ {c}]
      BY <1>4 DEF WriteFinding
    <2>3. verdict'.candidates = verdict.candidates \ {c}
      BY <2>2
    <2>4. /\ IsFiniteSet(verdict'.candidates)
          /\ Cardinality(verdict'.candidates) = Cardinality(verdict.candidates) - 1
          /\ Cardinality(verdict.candidates) \in Nat
      BY <2>1, <2>3, FS_RemoveElement, FS_CardinalityType
    <2>5. FarInv'
      BY <1>1, <2>1, <2>4 DEF FarInv, Canaries
    <2>6. Work' < Work /\ Stage' = Stage
      BY <2>1, <2>4 DEF Work, Stage
    <2>7. QED
      BY <1>1, <2>1, <2>5, <2>6, RowMoves, WorkFalls DEF InRow
  <1>5. QED
    BY <1>2, <1>3, <1>4

\* The steps between the parts of a scan, and along its surfaces.
LEMMA LoopMoves ==
    ASSUME Shape, WalkInv, FarInv,
           \/ Open \/ EnterSurface \/ PassOver \/ SkipRest \/ LeaveSurface
           \/ CanaryDue \/ SkipRow \/ LoopDone \/ Settle \/ MarkUnobserved
    PROVE  FarInv' /\ Below(Rank', Rank)
  <1> USE DEF Shape
  <1>o. opt' = opt
    BY OptStays DEF Next, TheScan
  <1>1. CASE Open \/ LoopDone \/ Settle \/ MarkUnobserved
    <2>1. UNCHANGED <<si, ci>>
      BY <1>1 DEF Open, LoopDone, Settle, MarkUnobserved, loopVars
    <2>2. \/ pc = "open" /\ pc' = "surface"
          \/ pc = "open" /\ pc' = "canary" /\ window'.why = "start" /\ ~window'.due
          \/ pc = "surface" /\ pc' = "canary" /\ window'.why = "finish" /\ ~window'.due
          \/ pc = "surface" /\ pc' = "settle"
          \/ pc = "settle" /\ pc' = "mark"
          \/ pc = "mark" /\ pc' = "close"
      BY <1>1 DEF Open, LoopDone, Settle, MarkUnobserved, CanaryFor
    <2>3. FarInv'
      BY <1>o, <2>1, <2>2 DEF FarInv, Canaries
    <2>4. Era' < Era
      BY <2>2 DEF Era, InSurface, InRow, Canaries
    <2>5. QED
      BY <2>3, <2>4, EraFalls
  <1>2. CASE EnterSurface
    <2>1. pc = "surface" /\ pc' = "check" /\ ci' = 1 /\ UNCHANGED <<si, window>>
      BY <1>2 DEF EnterSurface
    <2>2. FarInv'
      BY <1>o, <2>1, Counted DEF FarInv, Canaries
    <2>3. Era' = Era /\ SurfacesLeft' = SurfacesLeft
      BY <2>1 DEF Era, InSurface, InRow, Canaries, SurfacesLeft
    <2>4. ChecksLeft' < ChecksLeft
      BY <1>o, <2>1, Counted DEF ChecksLeft
    <2>5. QED
      BY <2>2, <2>3, <2>4, ChecksFall
  <1>3. CASE PassOver \/ SkipRest \/ LeaveSurface
    <2>1. pc \in {"surface", "check"} /\ pc' = "surface" /\ si' = si + 1 /\ ci' = ci
      BY <1>3 DEF PassOver, SkipRest, LeaveSurface
    <2>2. si <= Len(SurfaceSeq)
      BY <1>3 DEF PassOver, SkipRest, LeaveSurface, WalkInv, InSurface
    <2>3. QED
      BY <1>o, <2>1, <2>2, SurfacePasses
  <1>4. CASE CanaryDue
    <2>1. /\ pc = "check" /\ CanaryOwed /\ pc' = "canary" /\ UNCHANGED <<si, ci>>
          /\ window'.why = "due" /\ ~window'.due
      BY <1>4 DEF CanaryDue, CanaryFor, CanaryOwed, loopVars
    <2>2. FarInv'
      BY <1>o, <2>1 DEF FarInv, Canaries
    <2>3. Era' = Era /\ SurfacesLeft' = SurfacesLeft /\ ChecksLeft' = ChecksLeft
      BY <1>o, <2>1 DEF Era, InSurface, InRow, Canaries, SurfacesLeft, ChecksLeft
    <2>4. Stage' = 6 /\ Stage = 7
      BY <2>1 DEF Stage
    <2>5. QED
      BY <2>2, <2>3, <2>4, StageFalls
  <1>5. CASE SkipRow
    BY <1>o, <1>5, RowPasses DEF SkipRow, RowDue
  <1>6. QED
    BY <1>1, <1>2, <1>3, <1>4, <1>5

LEMMA FarStep ==
    ASSUME Shape, WalkInv, FarInv, Next
    PROVE  FarInv' /\ Below(Rank', Rank)
  <1> USE DEF Shape
  <1>1. CASE CanaryPasses \/ CanaryFails \/ Refresh \/ RefreshFails
    BY <1>1, CanaryMoves
  <1>2. CASE ProbeAnswered \/ ProbeDelayed \/ PointLost
    BY <1>2, ProbeMoves
  <1>3. CASE OpenRow \/ ReadTraffic \/ Conclude \/ WriteFinding
    BY <1>3, VerdictMoves
  <1>4. CASE \/ Open \/ EnterSurface \/ PassOver \/ SkipRest \/ LeaveSurface
             \/ CanaryDue \/ SkipRow \/ LoopDone \/ Settle \/ MarkUnobserved
    BY <1>4, LoopMoves
  <1>5. CASE ProbeRefused \/ CheckRaises \/ WriteFails \/ RowDone
    <2>1. InRow /\ pc' = "check" /\ ci' = ci + 1 /\ UNCHANGED <<opt, si>>
      BY <1>5 DEF ProbeRefused, CheckRaises, WriteFails, RowDone, CloseRow, InRow
    <2>2. ci <= Len(opt.checks)
      BY <2>1 DEF WalkInv
    <2>3. QED
      BY <2>1, <2>2, RowPasses
  <1>6. CASE ResolveFails \/ CloseRun \/ Interrupted \/ InterruptedAtClose
    <2>1. pc # "done" /\ pc' = "done" /\ UNCHANGED <<opt, si, ci>>
      BY <1>6 DEF ResolveFails, CloseRun, Interrupted, InterruptedAtClose, Halt, loopVars
    <2>2. QED
      BY <2>1, EndedFar
  <1>7. CASE LoseSession
    <2>1. live /\ live' = FALSE
          /\ UNCHANGED <<pc, opt, si, ci, window, verdict, probing, sender>>
      BY <1>7 DEF LoseSession, SessionDies, loopVars, bookVars
    <2>2. FarInv'
      BY <2>1 DEF FarInv, Finite, IsLoop
    <2>3. /\ Era' = Era /\ SurfacesLeft' = SurfacesLeft /\ ChecksLeft' = ChecksLeft
          /\ Stage' = Stage
      BY <2>1 DEF Era, InSurface, InRow, SurfacesLeft, ChecksLeft, Stage, CanaryOwed, Bracketed
    <2>4. Work' = Work /\ Tries' = Tries /\ Alive' < Alive
      BY <2>1 DEF Work, Togo, Tries, Alive
    <2>5. QED
      BY <2>2, <2>3, <2>4, WorkFalls
  <1>8. QED
    BY <1>1, <1>2, <1>3, <1>4, <1>5, <1>6, <1>7 DEF Next, TheScan

\* Every step of a scan takes it nearer to its end (scan.run): its rank is a
\* tuple of naturals and each step lowers it, whatever the surfaces, checks,
\* answers, rate limits, canaries, refreshes and failing writes, and however
\* often the session dies and is minted again.  No loop of a scan goes round
\* without having used up something it has finitely much of.
THEOREM ScanNears == Spec => [](Rank \in Ranks) /\ [][Below(Rank', Rank)]_vars
  <1> DEFINE I == Shape /\ WalkInv /\ FarInv
  <1>1. Init => I
    BY ScanInit, WalkInit, FarInit
  <1>2. I /\ [Next]_vars => I' /\ [Below(Rank', Rank)]_vars
    <2> SUFFICES ASSUME I, [Next]_vars PROVE I' /\ [Below(Rank', Rank)]_vars
      OBVIOUS
    <2>1. Shape' /\ WalkInv'
      BY ShapeStep, WalkStep
    <2>2. CASE Next
      BY <2>1, <2>2, FarStep
    <2>3. CASE UNCHANGED vars
      <3>1. UNCHANGED <<pc, opt, si, ci, window, probing, sender, verdict>>
        BY <2>3 DEF vars, loopVars, bookVars, rowVars
      <3>2. FarInv'
        BY <3>1 DEF FarInv, Finite, IsLoop
      <3>3. QED
        BY <2>1, <2>3, <3>2
    <2>4. QED
      BY <2>2, <2>3
  <1>3. I => Rank \in Ranks
    BY RankTyped
  <1> HIDE DEF I
  <1>4. QED
    BY <1>1, <1>2, <1>3, PTL DEF Spec
=============================================================================
