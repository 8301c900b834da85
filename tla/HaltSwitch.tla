----------------------------- MODULE HaltSwitch -----------------------------
(***************************************************************************)
(* The halted flag of the extension                                        *)
(* (extension/src/hx/send/HaltSwitch.java): two independent inputs, a      *)
(* halt/resume frame and a sentinel file polled by a thread of its own.    *)
(*                                                                         *)
(* Time is relative, in ticks of the wall clock: `age` is the code's       *)
(* clock.nowUs() - lastPollUs.  A poll is up to four steps of the poller:  *)
(* it asks for the sentinel, on "no such file" it asks for the directory,  *)
(* it reads the clock, it publishes under the lock.  In between, frames    *)
(* arrive, file and directory change and any time may pass: either call    *)
(* may hang on a dead mount, for a while or for good, and a runnable       *)
(* thread may have to wait.                                                *)
(***************************************************************************)
EXTENDS Integers

CONSTANTS
    StaleAfter,   \* staleAfterUs: five poll intervals
    MaxAge,       \* bound: the age from which on answers are equally old
    MaxSetBack    \* how far the wall clock is set back under one answer

ASSUME HaltSwitchAssumption ==
    /\ StaleAfter \in Nat \ {0}
    /\ MaxSetBack \in Nat
    /\ MaxAge \in Nat
    /\ MaxAge > StaleAfter + MaxSetBack

VARIABLES
    present,            \* is the sentinel's name in its directory
    directory,          \* can that directory be looked into, and is it there
    life,               \* where start() and stop() have brought the switch
    frameHalted, sentinelHalted,            \* HaltSwitch.State
    age,                \* clock.nowUs() - State.lastPollUs
    poll,               \* the poll under way
    \* What really happened (not in the code):
    setBack,            \* how far the clock was set back under the answer
    lastFrame,          \* the last halt or resume frame
    exposed             \* how long an armed switch has overlooked a sentinel
                        \* that was there all the time

fileVars   == <<present, directory>>
switchVars == <<life, frameHalted, sentinelHalted, age, poll, setBack, lastFrame>>
vars       == <<fileVars, switchVars, exposed>>

----------------------------------------------------------------------------
NoPoll == [phase |-> "idle", saw |-> FALSE, sinceStamp |-> 0, back |-> 0]

\* What the operator means to say: a file that cannot be looked at, or whose
\* directory is gone, is a halt.
Seen == directory = "open" => present

\* State.armed: the staleness rule is in force.
armed == life = "armed"

MutantStale == FALSE
Stale       == armed /\ age > StaleAfter
Halted      == frameHalted \/ sentinelHalted \/ Stale

\* One window of "not halted": the ticks an answer is good for, and those a
\* clock set back gives it on top.
Window == StaleAfter + 1 + MaxSetBack

Init ==
    /\ present \in BOOLEAN
    /\ directory = "open"
    /\ life = "new"
    /\ frameHalted = FALSE
    /\ sentinelHalted = FALSE
    /\ age = MaxAge                     \* lastPollUs = 0
    /\ poll = NoPoll
    /\ setBack = 0
    /\ lastFrame = "resume"               \* no halt frame
    /\ exposed = 0

\* start(), called once, before the bridge is connected.  Its first poll runs
\* on the caller's thread and under the lock; what that poll publishes arms
\* the switch.
Start ==
    /\ life = "new"
    /\ life' = "starting"
    /\ UNCHANGED <<fileVars, frameHalted, sentinelHalted, age, poll, setBack, lastFrame, exposed>>

Armed == life' = IF life = "starting" THEN "armed" ELSE life

\* stop(): the staleness rule retires with the poller; what was last published
\* stands, and a poll under way may still publish.
Stop ==
    /\ armed
    /\ life' = "stopped"
    /\ UNCHANGED <<fileVars, frameHalted, sentinelHalted, age, poll, setBack, lastFrame, exposed>>

\* Files.readAttributes(sentinel): the name is there, or the directory may not
\* be looked into, and either is a halt; or there is no such file.
Look ==
    /\ life \in {"starting", "armed"}
    /\ poll.phase = "idle"
    /\ poll' = IF directory = "locked" \/ (directory = "open" /\ present)
               THEN [NoPoll EXCEPT !.phase = "looked", !.saw = TRUE]
               ELSE [NoPoll EXCEPT !.phase = "parent"]
    /\ UNCHANGED <<fileVars, life, frameHalted, sentinelHalted, age, setBack, lastFrame, exposed>>

\* parentIsNotADirectory(), a second call: no file is an answer when there is a
\* directory for it to be missing from, whoever may look into that.
LookAtParent ==
    /\ poll.phase = "parent"
    /\ poll' = [poll EXCEPT !.phase = "looked", !.saw = directory = "gone"]
    /\ UNCHANGED <<fileVars, life, frameHalted, sentinelHalted, age, setBack, lastFrame, exposed>>

\* publishAnswer() reads the clock before it takes the lock.
Stamp ==
    /\ poll.phase = "looked"
    /\ poll' = [poll EXCEPT !.phase = "stamped"]
    /\ UNCHANGED <<fileVars, life, frameHalted, sentinelHalted, age, setBack, lastFrame, exposed>>

\* Mutant: a publish that takes a new answer for a new arming.
MutantPublishLatches ==
    /\ poll.phase = "stamped"
    /\ sentinelHalted' = (sentinelHalted \/ poll.saw)
    /\ age' = poll.sinceStamp
    /\ setBack' = poll.back
    /\ poll' = NoPoll
    /\ Armed
    /\ UNCHANGED <<fileVars, frameHalted, lastFrame, exposed>>

\* publishAnswer() under the lock, which re-reads the state it replaces.
Publish ==
    /\ poll.phase = "stamped"
    /\ sentinelHalted' = poll.saw
    /\ age' = poll.sinceStamp
    /\ setBack' = poll.back
    /\ poll' = NoPoll
    /\ Armed
    /\ UNCHANGED <<fileVars, frameHalted, lastFrame, exposed>>

\* Mutant: a poll that failed is stamped like one that answered.
MutantPublishFailure ==
    /\ poll.phase = "looked"
    /\ age' = 0
    /\ poll' = NoPoll
    /\ Armed
    /\ UNCHANGED <<fileVars, frameHalted, sentinelHalted, setBack, lastFrame, exposed>>

\* publishFailure(): a poll whose clock threw is an unknown state.  It leaves
\* lastPollUs where the last answer put it.
PublishFailure ==
    /\ poll.phase = "looked"
    /\ sentinelHalted' = TRUE
    /\ poll' = NoPoll
    /\ Armed
    /\ UNCHANGED <<fileVars, frameHalted, age, setBack, lastFrame, exposed>>

\* haltedByFrame and resumedByFrame touch the frame half and nothing else.
\* The bridge that brings them is connected after start() has returned.
HaltedByFrame ==
    /\ life \in {"armed", "stopped"}
    /\ frameHalted' = TRUE
    /\ lastFrame' = "halt"
    /\ UNCHANGED <<fileVars, life, sentinelHalted, age, poll, setBack, exposed>>

ResumedByFrame ==
    /\ life \in {"armed", "stopped"}
    /\ frameHalted' = FALSE
    /\ lastFrame' = "resume"
    /\ UNCHANGED <<fileVars, life, sentinelHalted, age, poll, setBack, exposed>>

----------------------------------------------------------------------------
Older(a) == IF a < MaxAge THEN a + 1 ELSE a

\* Time passes for the published answer, for a stamp just taken, and for a
\* sentinel that is there and not obeyed.
Tick ==
    /\ age' = Older(age)
    /\ poll' = IF poll.phase = "stamped"
               THEN [poll EXCEPT !.sinceStamp = Older(@)] ELSE poll
    /\ exposed' = IF Seen /\ armed /\ ~Halted /\ exposed =< 2 * Window
                  THEN exposed + 1 ELSE exposed
    /\ UNCHANGED <<fileVars, life, frameHalted, sentinelHalted, setBack, lastFrame>>

\* An adjustment sets the wall clock back, under the published stamp and under
\* a stamp just taken.
ClockSetBack ==
    /\ setBack < MaxSetBack
    /\ poll.phase = "stamped" => poll.back < MaxSetBack
    /\ age' = age - 1
    /\ setBack' = setBack + 1
    /\ poll' = IF poll.phase = "stamped"
               THEN [poll EXCEPT !.sinceStamp = @ - 1, !.back = @ + 1]
               ELSE poll
    /\ UNCHANGED <<fileVars, life, frameHalted, sentinelHalted, lastFrame, exposed>>

Switch ==
    \/ Start \/ Stop
    \/ Look \/ LookAtParent \/ Stamp \/ Publish \/ PublishFailure
    \/ HaltedByFrame \/ ResumedByFrame
    \/ Tick \/ ClockSetBack

\* Whatever writes, removes or hides the file.
FileBecomes(name, place) ==
    /\ present' = name
    /\ directory' = place
    /\ exposed' = IF UNCHANGED fileVars THEN exposed ELSE 0
    /\ UNCHANGED switchVars

Directory == {"open", "locked", "gone"}

FileChanges == \E name \in BOOLEAN, place \in Directory : FileBecomes(name, place)

Next == Switch \/ FileChanges

Spec == Init /\ [][Next]_vars

----------------------------------------------------------------------------
Phase == {"idle", "parent", "looked", "stamped"}

TypeOK ==
    /\ present \in BOOLEAN
    /\ directory \in Directory
    /\ life \in {"new", "starting", "armed", "stopped"}
    /\ frameHalted \in BOOLEAN
    /\ sentinelHalted \in BOOLEAN
    /\ age \in -MaxSetBack .. MaxAge
    /\ poll \in [phase : Phase, saw : BOOLEAN, sinceStamp : -MaxSetBack .. MaxAge,
                 back : 0..MaxSetBack]
    /\ setBack \in 0..MaxSetBack
    /\ lastFrame \in {"halt", "resume"}
    /\ exposed \in 0 .. 2 * Window + 1

\* A sentinel that is there is overlooked for two windows at most, whatever
\* hangs, and for how long (HaltSwitch.java:50-64, 242-252): the answer that
\* stood when it came, and that of the one poll that had asked before.  The
\* stamp is taken after the answer, so a poll that hung publishes an answer of
\* any age as a fresh one, but only once: the next poll asks anew.
ExposureIsBounded == exposed =< 2 * Window

\* "A stale answer to 'is the operator holding the stop button' is not an
\* answer" (HaltSwitch.java:58-60): no answer stands longer after its question
\* than the limit, so a sentinel is overlooked for one window.  It does not
\* hold: a poll whose second call hangs is stamped when it returns.
StaleIsNoAnswer == exposed =< Window

\* No publication of the poller undoes a halt frame, and no frame is undone by
\* anything but the next one (HaltSwitch.java:24-29).
FrameHalfStands == frameHalted <=> lastFrame = "halt"
=============================================================================
