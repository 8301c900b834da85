----------------------------- MODULE HaltProofs -----------------------------
(***************************************************************************)
(* The halt switch, for every staleness limit and clock, and whatever      *)
(* hangs for however long: and the durable halt's commands leave it as     *)
(* they find it.                                                           *)
(***************************************************************************)
EXTENDS OperatorHalt, TLAPS

(***************************************************************************)
(* ExposureIsBounded is not inductive: what may still be added depends on  *)
(* the answer that stands and on the poll under way.                       *)
(*                                                                         *)
(* Left is what the published answer is still good for.  A poll is Unaware *)
(* of a sentinel that is there if it is going to answer "no file"; there   *)
(* is at most one, since every poll that asks after the sentinel came sees *)
(* it.  Its answer opens one more window, and none when it is published.   *)
(***************************************************************************)
Left == Window - setBack - age

Unaware ==
    \/ poll.phase = "parent" /\ directory # "gone"
    \/ poll.phase \in {"looked", "stamped"} /\ ~poll.saw

Standing == armed /\ ~sentinelHalted

\* The clock is the only thing that makes an age negative.
Ages == age >= -setBack /\ poll.sinceStamp >= -poll.back

Overlooked ==
    /\ ~Seen => exposed = 0
    /\ exposed =< 2 * Window
    /\ Unaware => exposed =< Window
    /\ Standing => exposed + Left =< 2 * Window
    /\ Standing /\ Unaware => exposed + Left =< Window

IInv == TypeOK /\ Ages /\ Overlooked /\ FrameHalfStands

Poll == [phase : Phase, saw : BOOLEAN, sinceStamp : -MaxSetBack .. MaxAge, back : 0..MaxSetBack]

\* The poll that has not begun is a poll, idle and of no age.
LEMMA NoPollFacts ==
    /\ NoPoll \in Poll
    /\ NoPoll.phase = "idle" /\ NoPoll.sinceStamp = 0 /\ NoPoll.back = 0
  BY HaltSwitchAssumption DEF NoPoll, Poll, Phase

LEMMA WindowNat == Window \in Nat /\ Window = StaleAfter + 1 + MaxSetBack
  BY HaltSwitchAssumption DEF Window

\* A switch that has published nothing, and a poll that has not begun.
LEMMA HaltInit == Init => IInv
  <1> SUFFICES ASSUME Init PROVE IInv
    OBVIOUS
  <1> USE HaltSwitchAssumption, NoPollFacts, WindowNat
  <1>1. /\ life = "new" /\ age = MaxAge /\ setBack = 0 /\ exposed = 0
        /\ poll = NoPoll /\ directory = "open" /\ lastFrame = "resume"
    BY DEF Init
  <1>2. present \in BOOLEAN /\ frameHalted = FALSE /\ sentinelHalted = FALSE
    BY Zenon DEF Init
  <1>3. TypeOK
    <2>1. age \in -MaxSetBack .. MaxAge /\ setBack \in 0..MaxSetBack
      BY <1>1
    <2>2. exposed \in 0 .. 2 * Window + 1
      BY <1>1
    <2>3. /\ poll \in Poll /\ directory \in Directory
          /\ life \in {"new", "starting", "armed", "stopped"}
          /\ lastFrame \in {"halt", "resume"}
      BY <1>1 DEF Directory
    <2>4. present \in BOOLEAN /\ frameHalted \in BOOLEAN /\ sentinelHalted \in BOOLEAN
      BY <1>2
    <2>5. QED
      BY <2>1, <2>2, <2>3, <2>4, Zenon DEF TypeOK, Poll
  <1>4. Ages /\ Overlooked
    BY <1>1 DEF Ages, Overlooked, Unaware, Standing, armed
  <1>5. FrameHalfStands
    BY <1>1, <1>2 DEF FrameHalfStands
  <1>6. QED
    BY <1>3, <1>4, <1>5 DEF IInv

\* What the published answer is still good for is one window at most.
LEMMA LeftInWindow ==
    TypeOK /\ Ages => Left \in Int /\ Left =< Window /\ (~(age > StaleAfter) => Left >= 1)
  BY HaltSwitchAssumption, WindowNat DEF TypeOK, Ages, Left

\* One more tick keeps an age within its bounds.
LEMMA OlderFacts ==
    ASSUME NEW a \in -MaxSetBack .. MaxAge
    PROVE  /\ Older(a) \in -MaxSetBack .. MaxAge /\ Older(a) >= a
           /\ ~(a > StaleAfter) => Older(a) = a + 1
  BY HaltSwitchAssumption DEF Older

\* Two windows hold two windows, and what shrinks still fits.
LEMMA TwoWindows ==
    ASSUME NEW e \in Nat, NEW l \in Int, NEW w \in Nat, e =< w, l =< w
    PROVE  e + l =< 2 * w
  OBVIOUS

LEMMA StillFits ==
    ASSUME NEW e \in Nat, NEW l \in Int, NEW m \in Int, NEW b \in Int, m =< l, e + l =< b
    PROVE  e + m =< b
  OBVIOUS

\* A poll that begins asks after the sentinel came, and is aware of it.
LEMMA LookIsAware == Look /\ Seen /\ directory \in Directory => ~Unaware'
  <1> SUFFICES ASSUME Look, Seen, directory \in Directory PROVE ~Unaware'
    OBVIOUS
  <1>1. directory' = directory
    BY DEF Look, fileVars
  <1>2. CASE directory = "locked" \/ (directory = "open" /\ present)
    <2>1. poll'.phase = "looked" /\ poll'.saw = TRUE
      BY <1>2 DEF Look, NoPoll
    <2>2. QED
      BY <2>1 DEF Unaware
  <1>3. CASE ~(directory = "locked" \/ (directory = "open" /\ present))
    <2>1. poll'.phase = "parent" /\ directory # "open"
      BY <1>3 DEF Look, NoPoll, Seen
    <2>2. directory \in Directory => directory = "gone"
      BY <1>3, <2>1 DEF Directory
    <2>3. QED
      BY <1>1, <2>1, <2>2 DEF Unaware
  <1>4. QED
    BY <1>2, <1>3

\* Every step of the poller.
LEMMA PollerStep ==
    ASSUME IInv, Look \/ LookAtParent \/ Stamp \/ Publish \/ PublishFailure PROVE IInv'
  <1> USE HaltSwitchAssumption, NoPollFacts, WindowNat
  <1>1. TypeOK /\ Ages /\ Overlooked /\ FrameHalfStands
    BY DEF IInv
  <1>2. poll \in Poll /\ exposed \in Nat
    BY <1>1 DEF TypeOK, Poll
  <1>3. Left \in Int /\ Left =< Window
    BY <1>1, LeftInWindow
  <1> USE <1>1, <1>2, <1>3
  <1>4. ASSUME Look PROVE IInv'
    <2>1. poll' \in Poll /\ poll'.sinceStamp = 0 /\ poll'.back = 0
      BY <1>4 DEF Look, NoPoll, Poll, Phase
    <2>2. /\ UNCHANGED <<present, directory, life, frameHalted, sentinelHalted, age,
                         setBack, lastFrame, exposed>>
          /\ ~Unaware
      BY <1>4 DEF Look, fileVars, Unaware
    <2>3. TypeOK' /\ Ages' /\ FrameHalfStands'
      BY <2>1, <2>2 DEF TypeOK, Poll, Ages, FrameHalfStands
    <2>4. Left' = Left /\ Standing' = Standing /\ Seen' = Seen
      BY <2>2 DEF Left, Standing, armed, Seen
    <2>5. CASE Seen
      <3>1. ~Unaware'
        BY <1>4, <2>5, LookIsAware DEF TypeOK
      <3>2. Overlooked'
        BY <2>2, <2>4, <3>1 DEF Overlooked
      <3>3. QED
        BY <2>3, <3>2 DEF IInv
    <2>6. CASE ~Seen
      <3>1. exposed = 0
        BY <2>6 DEF Overlooked
      <3>2. Overlooked'
        BY <2>2, <2>4, <2>6, <3>1 DEF Overlooked
      <3>3. QED
        BY <2>3, <3>2 DEF IInv
    <2>7. QED
      BY <2>5, <2>6
  <1>5. ASSUME LookAtParent PROVE IInv'
    <2>1. /\ poll' \in Poll /\ poll'.phase = "looked" /\ poll'.saw = (directory = "gone")
          /\ poll'.sinceStamp = poll.sinceStamp /\ poll'.back = poll.back
          /\ poll.phase = "parent"
      BY <1>5 DEF LookAtParent, Poll, Phase
    <2>2. UNCHANGED <<present, directory, life, frameHalted, sentinelHalted, age,
                      setBack, lastFrame, exposed>>
      BY <1>5 DEF LookAtParent, fileVars
    <2>3. TypeOK' /\ Ages' /\ FrameHalfStands'
      BY <2>1, <2>2 DEF TypeOK, Poll, Ages, FrameHalfStands
    <2>4. Left' = Left /\ Standing' = Standing /\ Seen' = Seen
      BY <2>2 DEF Left, Standing, armed, Seen
    <2>5. Unaware' = Unaware
      BY <2>1, <2>2 DEF Unaware
    <2>6. Overlooked'
      BY <2>2, <2>4, <2>5 DEF Overlooked
    <2>7. QED
      BY <2>3, <2>6 DEF IInv
  <1>6. ASSUME Stamp PROVE IInv'
    <2>1. /\ poll' \in Poll /\ poll'.phase = "stamped" /\ poll'.saw = poll.saw
          /\ poll'.sinceStamp = poll.sinceStamp /\ poll'.back = poll.back
          /\ poll.phase = "looked"
      BY <1>6 DEF Stamp, Poll, Phase
    <2>2. UNCHANGED <<present, directory, life, frameHalted, sentinelHalted, age,
                      setBack, lastFrame, exposed>>
      BY <1>6 DEF Stamp, fileVars
    <2>3. TypeOK' /\ Ages' /\ FrameHalfStands'
      BY <2>1, <2>2 DEF TypeOK, Poll, Ages, FrameHalfStands
    <2>4. Left' = Left /\ Standing' = Standing /\ Seen' = Seen
      BY <2>2 DEF Left, Standing, armed, Seen
    <2>5. Unaware' = Unaware
      BY <2>1, <2>2 DEF Unaware
    <2>6. Overlooked'
      BY <2>2, <2>4, <2>5 DEF Overlooked
    <2>7. QED
      BY <2>3, <2>6 DEF IInv
  <1>7. ASSUME Publish PROVE IInv'
    <2>1. /\ age' = poll.sinceStamp /\ setBack' = poll.back /\ sentinelHalted' = poll.saw
          /\ poll' = NoPoll /\ poll.phase = "stamped"
          /\ UNCHANGED <<present, directory, frameHalted, lastFrame, exposed>>
          /\ life' \in {"new", "starting", "armed", "stopped"}
      BY <1>7 DEF Publish, fileVars, Armed, TypeOK
    <2>2. TypeOK' /\ Ages' /\ FrameHalfStands'
      BY <2>1 DEF TypeOK, Poll, Ages, FrameHalfStands
    <2>3. Left' \in Int /\ Left' =< Window
      BY <2>1 DEF Left, Ages, Poll
    <2>4. ~Unaware' /\ Seen' = Seen
      BY <2>1 DEF Unaware, Seen
    <2>5. Standing' => exposed =< Window
      BY <2>1 DEF Standing, Unaware, Overlooked
    <2>6. Overlooked'
      <3>1. Standing' => exposed + Left' =< 2 * Window
        BY <2>3, <2>5, TwoWindows
      <3>2. (~Seen => exposed = 0) /\ exposed =< 2 * Window /\ exposed' = exposed
        BY <2>1 DEF Overlooked
      <3>3. QED
        BY <2>4, <3>1, <3>2 DEF Overlooked
    <2>7. QED
      BY <2>2, <2>6 DEF IInv
  <1>8. ASSUME PublishFailure PROVE IInv'
    <2>1. /\ sentinelHalted' = TRUE /\ poll' = NoPoll
          /\ UNCHANGED <<present, directory, frameHalted, age, setBack, lastFrame, exposed>>
          /\ life' \in {"new", "starting", "armed", "stopped"}
      BY <1>8 DEF PublishFailure, fileVars, Armed, TypeOK
    <2>2. TypeOK' /\ Ages' /\ FrameHalfStands'
      BY <2>1 DEF TypeOK, Poll, Ages, FrameHalfStands
    <2>3. ~Unaware' /\ ~Standing' /\ Seen' = Seen
      BY <2>1 DEF Unaware, Standing, Seen
    <2>4. Overlooked'
      BY <2>1, <2>3 DEF Overlooked
    <2>5. QED
      BY <2>2, <2>4 DEF IInv
  <1>9. QED
    BY <1>4, <1>5, <1>6, <1>7, <1>8

\* Time and its adjustment.
LEMMA ClockStep == ASSUME IInv, Tick \/ ClockSetBack PROVE IInv'
  <1> USE HaltSwitchAssumption, WindowNat
  <1>1. TypeOK /\ Ages /\ Overlooked /\ FrameHalfStands
    BY DEF IInv
  <1>2. /\ poll \in Poll /\ exposed \in Nat /\ exposed \in 0 .. 2 * Window + 1
        /\ age \in -MaxSetBack .. MaxAge /\ setBack \in 0..MaxSetBack
    BY <1>1 DEF TypeOK, Poll
  <1>3. Left \in Int /\ (~(age > StaleAfter) => Left >= 1)
    BY <1>1, LeftInWindow
  <1> USE <1>1, <1>2, <1>3
  <1>4. ASSUME Tick PROVE IInv'
    <2>1. /\ age' = Older(age) /\ UNCHANGED <<present, directory, life, frameHalted,
                                              sentinelHalted, setBack, lastFrame>>
          /\ exposed' = IF Seen /\ armed /\ ~Halted /\ exposed =< 2 * Window
                        THEN exposed + 1 ELSE exposed
      BY <1>4 DEF Tick, fileVars
    <2>2. /\ age' \in -MaxSetBack .. MaxAge /\ age' >= age
          /\ ~(age > StaleAfter) => age' = age + 1
      BY <2>1, OlderFacts
    <2>3. /\ poll' \in Poll /\ poll'.phase = poll.phase /\ poll'.saw = poll.saw
          /\ poll'.back = poll.back /\ poll'.sinceStamp >= poll.sinceStamp
      <3>1. CASE poll.phase = "stamped"
        <4>1. poll' = [poll EXCEPT !.sinceStamp = Older(poll.sinceStamp)]
          BY <1>4, <3>1 DEF Tick
        <4>2. poll.sinceStamp \in -MaxSetBack .. MaxAge
          BY DEF Poll
        <4>3. /\ Older(poll.sinceStamp) \in -MaxSetBack .. MaxAge
              /\ Older(poll.sinceStamp) >= poll.sinceStamp
          BY <4>2, OlderFacts
        <4>4. QED
          BY <4>1, <4>3 DEF Poll
      <3>2. CASE poll.phase # "stamped"
        <4>1. poll' = poll
          BY <1>4, <3>2 DEF Tick
        <4>2. poll.sinceStamp \in -MaxSetBack .. MaxAge
          BY DEF Poll
        <4>3. QED
          BY <4>1, <4>2
      <3>3. QED
        BY <3>1, <3>2
    <2>4. exposed' \in 0 .. 2 * Window + 1
      BY <2>1
    <2>5. TypeOK'
      BY <2>1, <2>2, <2>3, <2>4 DEF TypeOK, Poll
    <2>6. Ages'
      <3>1. poll.sinceStamp \in Int /\ poll'.sinceStamp \in Int /\ poll.back \in Int
        BY <2>3 DEF Poll
      <3>2. QED
        BY <2>1, <2>2, <2>3, <3>1 DEF Ages
    <2>7. FrameHalfStands'
      BY <2>1 DEF FrameHalfStands
    <2>8. /\ Unaware' = Unaware /\ Standing' = Standing /\ Seen' = Seen
          /\ Left' \in Int /\ Left' =< Left /\ (~(age > StaleAfter) => Left' = Left - 1)
      BY <2>1, <2>2, <2>3 DEF Unaware, Standing, armed, Seen, Left
    <2>9. Overlooked'
      <3>1. CASE Seen /\ armed /\ ~Halted /\ exposed =< 2 * Window
        <4>1. Standing /\ ~(age > StaleAfter)
          BY <3>1 DEF Standing, Halted, Stale
        <4>2. exposed' = exposed + 1 /\ Left' = Left - 1 /\ Left >= 1
          BY <2>1, <2>8, <3>1, <4>1
        <4>3. QED
          BY <2>8, <3>1, <4>1, <4>2 DEF Overlooked
      <3>2. CASE ~(Seen /\ armed /\ ~Halted /\ exposed =< 2 * Window)
        <4>1. exposed' = exposed
          BY <2>1, <3>2
        <4>2. Standing => exposed + Left' =< 2 * Window
          <5>1. 2 * Window \in Int /\ (Standing => exposed + Left =< 2 * Window)
            BY DEF Overlooked
          <5>2. QED
            BY <2>8, <5>1, StillFits
        <4>3. Standing /\ Unaware => exposed + Left' =< Window
          <5>1. Window \in Int /\ (Standing /\ Unaware => exposed + Left =< Window)
            BY DEF Overlooked
          <5>2. QED
            BY <2>8, <5>1, StillFits
        <4>4. /\ ~Seen' => exposed' = 0
              /\ exposed' =< 2 * Window
              /\ Unaware' => exposed' =< Window
          BY <2>8, <4>1 DEF Overlooked
        <4>5. QED
          BY <2>8, <4>1, <4>2, <4>3, <4>4 DEF Overlooked
      <3>3. QED
        BY <3>1, <3>2
    <2>10. QED
      BY <2>5, <2>6, <2>7, <2>9 DEF IInv
  <1>5. ASSUME ClockSetBack PROVE IInv'
    <2>1. /\ age' = age - 1 /\ setBack' = setBack + 1 /\ setBack < MaxSetBack
          /\ UNCHANGED <<present, directory, life, frameHalted, sentinelHalted, lastFrame, exposed>>
      BY <1>5 DEF ClockSetBack, fileVars
    <2>2. /\ poll' \in Poll /\ poll'.phase = poll.phase /\ poll'.saw = poll.saw
          /\ poll'.sinceStamp >= -poll'.back
      <3>1. CASE poll.phase = "stamped"
        <4>1. /\ poll' = [poll EXCEPT !.sinceStamp = @ - 1, !.back = @ + 1]
              /\ poll.back < MaxSetBack /\ poll.sinceStamp >= -poll.back
          BY <1>5, <3>1 DEF ClockSetBack, Ages
        <4>2. poll.sinceStamp \in -MaxSetBack .. MaxAge /\ poll.back \in 0..MaxSetBack
          BY DEF Poll
        <4>3. poll.sinceStamp - 1 \in -MaxSetBack .. MaxAge /\ poll.back + 1 \in 0..MaxSetBack
          BY <4>1, <4>2
        <4>4. poll' \in Poll /\ poll'.sinceStamp = poll.sinceStamp - 1
              /\ poll'.back = poll.back + 1
          BY <4>1, <4>3 DEF Poll
        <4>5. QED
          BY <4>1, <4>2, <4>4 DEF Poll
      <3>2. CASE poll.phase # "stamped"
        BY <1>5, <3>2 DEF ClockSetBack, Ages
      <3>3. QED
        BY <3>1, <3>2
    <2>3. age' \in -MaxSetBack .. MaxAge /\ setBack' \in 0..MaxSetBack /\ age' >= -setBack'
      BY <2>1 DEF Ages
    <2>4. TypeOK' /\ Ages' /\ FrameHalfStands'
      BY <2>1, <2>2, <2>3 DEF TypeOK, Poll, Ages, FrameHalfStands
    <2>5. Unaware' = Unaware /\ Standing' = Standing /\ Seen' = Seen /\ Left' = Left
      BY <2>1, <2>2 DEF Unaware, Standing, armed, Seen, Left
    <2>6. Overlooked'
      BY <2>1, <2>5 DEF Overlooked
    <2>7. QED
      BY <2>4, <2>6 DEF IInv
  <1>6. QED
    BY <1>4, <1>5

\* Every step of the switch and of its clock.
LEMMA SwitchStep == IInv /\ Switch => IInv'
  <1> SUFFICES ASSUME IInv, Switch PROVE IInv'
    OBVIOUS
  <1>1. TypeOK /\ Ages /\ Overlooked /\ FrameHalfStands
    BY DEF IInv
  <1>2. ASSUME Start \/ Stop PROVE IInv'
    <2>1. /\ UNCHANGED <<present, directory, frameHalted, sentinelHalted, age, poll,
                         setBack, lastFrame, exposed>>
          /\ life' \in {"starting", "stopped"}
      BY <1>2 DEF Start, Stop, fileVars
    <2>2. TypeOK' /\ Ages' /\ FrameHalfStands'
      BY <1>1, <2>1 DEF TypeOK, Ages, FrameHalfStands
    <2>3. ~Standing' /\ Unaware' = Unaware /\ Seen' = Seen
      BY <2>1 DEF Standing, armed, Unaware, Seen
    <2>4. Overlooked'
      BY <1>1, <2>1, <2>3, WindowNat DEF Overlooked
    <2>5. QED
      BY <2>2, <2>4 DEF IInv
  <1>3. ASSUME HaltedByFrame \/ ResumedByFrame PROVE IInv'
    <2>1. UNCHANGED <<present, directory, life, sentinelHalted, age, poll, setBack, exposed>>
      BY <1>3 DEF HaltedByFrame, ResumedByFrame, fileVars
    <2>2. TypeOK' /\ FrameHalfStands'
      BY <1>1, <1>3, <2>1 DEF HaltedByFrame, ResumedByFrame, TypeOK, FrameHalfStands
    <2>3. Ages' /\ Overlooked'
      BY <1>1, <2>1 DEF Ages, Overlooked, Standing, armed, Unaware, Seen, Left
    <2>4. QED
      BY <2>2, <2>3 DEF IInv
  <1>4. QED
    BY <1>2, <1>3, PollerStep, ClockStep DEF Switch

\* The file and its directory may change in any way between any two steps of
\* the switch; whoever has come has been overlooked for no time yet.
LEMMA FileStep == IInv /\ (FileChanges \/ UNCHANGED vars) => IInv'
  <1> SUFFICES ASSUME IInv, FileChanges \/ UNCHANGED vars PROVE IInv'
    OBVIOUS
  <1> USE HaltSwitchAssumption, WindowNat
  <1>1. /\ TypeOK /\ Ages /\ Overlooked /\ FrameHalfStands
        /\ Left \in Int /\ Left =< Window
    BY LeftInWindow DEF IInv
  <1>2. UNCHANGED switchVars
    BY DEF FileChanges, FileBecomes, vars
  <1>3. UNCHANGED <<life, frameHalted, sentinelHalted, age, poll, setBack, lastFrame>>
    BY <1>2 DEF switchVars
  <1>4. /\ present' \in BOOLEAN /\ directory' \in Directory
        /\ exposed' = 0 \/ UNCHANGED <<present, directory, exposed>>
    BY <1>1 DEF FileChanges, FileBecomes, vars, fileVars, TypeOK
  <1>5. exposed' \in 0 .. 2 * Window + 1
    BY <1>1, <1>4 DEF TypeOK
  <1>6. TypeOK' /\ Ages' /\ FrameHalfStands'
    BY <1>1, <1>3, <1>4, <1>5 DEF TypeOK, Ages, FrameHalfStands
  <1>7. Left' = Left /\ Standing' = Standing
    BY <1>3 DEF Left, Standing, armed
  <1>8. Overlooked'
    <2>1. CASE exposed' = 0
      BY <1>1, <1>7, <2>1 DEF Overlooked
    <2>2. CASE UNCHANGED <<present, directory, exposed>>
      <3>1. Unaware' = Unaware /\ Seen' = Seen
        BY <1>3, <2>2 DEF Unaware, Seen
      <3>2. QED
        BY <1>1, <1>7, <2>2, <3>1 DEF Overlooked
    <2>3. QED
      BY <1>4, <2>1, <2>2
  <1>9. QED
    BY <1>6, <1>8 DEF IInv

----------------------------------------------------------------------------
\* Every step of the composed system is a step of the switch alone or one that
\* changes at most the file: the commands cannot reach the switch otherwise.
LEMMA SystemStep == TypeOK /\ [SystemNext]_allVars => [Next]_vars
  <1> SUFFICES ASSUME TypeOK, SystemNext PROVE [Next]_vars
    BY DEF allVars, vars, fileVars, switchVars
  <1>1. ASSUME ExtensionStep PROVE [Next]_vars
    BY <1>1 DEF ExtensionStep, Next
  <1>2. present \in BOOLEAN /\ directory \in Directory
    BY DEF TypeOK
  <1>3. \A name \in BOOLEAN, place \in Directory : FileBecomes(name, place) => FileChanges
    BY DEF FileChanges
  <1>4. ASSUME NEW c \in Commands, Command(c) PROVE [Next]_vars
    <2>1. CASE UNCHANGED vars
      BY <2>1
    <2>2. CASE WriteSentinel(c) \/ UnlinkSentinel(c)
      BY <1>2, <1>3, <2>2, Zenon DEF WriteSentinel, UnlinkSentinel, Next
    <2>3. QED
      BY <1>4, <2>1, <2>2 DEF Command, BeginHalt, InsertHalt, BeginResume, InsertResume, Abandon
  <1>5. ASSUME TouchByHand \/ RemoveByHand \/ DirectoryChanges PROVE [Next]_vars
    BY <1>2, <1>3, <1>5, Zenon DEF TouchByHand, RemoveByHand, DirectoryChanges, Next
  <1>6. QED
    BY <1>1, <1>4, <1>5 DEF SystemNext

\* The commands move the sentinel only: with them, the same invariant holds.
LEMMA SystemIInv == SystemSpec => []IInv
  <1>1. SystemInit => IInv
    BY HaltInit DEF SystemInit
  <1>2. IInv /\ [SystemNext]_allVars => IInv'
    BY SystemStep, SwitchStep, FileStep DEF IInv, Next
  <1>3. QED
    BY <1>1, <1>2, PTL DEF SystemSpec

\* The types of the switch.
THEOREM SwitchTypes == SystemSpec => []TypeOK
  BY SystemIInv, PTL DEF IInv

\* A sentinel that is there is overlooked for two windows at most, for every
\* limit and every adjustment of the clock, whatever hangs for however long.
THEOREM ExposureHolds == SystemSpec => []ExposureIsBounded
  <1>1. IInv => ExposureIsBounded
    BY DEF IInv, Overlooked, ExposureIsBounded
  <1>2. QED
    BY <1>1, SystemIInv, PTL

\* The frame half is the last frame's, whatever the poller publishes.
THEOREM FrameHalfHolds == SystemSpec => []FrameHalfStands
  BY SystemIInv, PTL DEF IInv
----------------------------------------------------------------------------
(***************************************************************************)
(* The two records of the durable halt, for any number of processes that   *)
(* may run a command, as long as no two run one at the same time, and for  *)
(* a wall clock that stamps their rows in any order.                       *)
(*                                                                         *)
(* FileAndRowAgree speaks of the quiet moments only.  Between the steps of *)
(* a command a halt row on its way has its file or the file was removed by *)
(* hand, and whoever is about to remove the file has its resume row in.    *)
(***************************************************************************)
Step == {"idle", "write", "insert_halt", "insert_resume", "unlink"}

RowsTyped ==
    /\ pc \in [Commands -> Step]
    /\ latest \in [tool : {"halt", "resume"}, ts : Nat]
    /\ last \in [tool : {"halt", "resume"}, ts : Nat]
    /\ present \in BOOLEAN /\ byHand \in BOOLEAN

AtMostOne == \A c, d \in Commands : pc[c] # "idle" /\ pc[d] # "idle" => c = d

OnItsWay(c) ==
    /\ pc[c] = "insert_halt" => present \/ byHand
    /\ pc[c] = "unlink" => last.tool = "resume"

RInv ==
    /\ RowsTyped
    /\ AtMostOne
    /\ latest = last \/ last.ts < latest.ts
    /\ \A c \in Commands : OnItsWay(c)
    /\ ~present /\ ~byHand => last.tool = "resume"

Lifts == present /\ ~present' /\ ~byHand' => last.tool = "resume"

LEMMA RowsInit == SystemInit => RInv
  <1> SUFFICES ASSUME SystemInit PROVE RInv
    OBVIOUS
  <1>1. pc = [c \in Commands |-> "idle"] /\ latest = NoRow /\ last = NoRow
    BY DEF SystemInit
  <1>2. NoRow \in [tool : {"halt", "resume"}, ts : Nat] /\ NoRow.tool = "resume"
    BY DEF NoRow
  <1>3. present \in BOOLEAN /\ byHand \in BOOLEAN
    BY Zenon DEF SystemInit
  <1>4. RowsTyped
    BY <1>1, <1>2, <1>3 DEF RowsTyped, Step
  <1>5. \A c \in Commands : pc[c] = "idle"
    BY <1>1
  <1>6. QED
    BY <1>1, <1>2, <1>4, <1>5 DEF RInv, AtMostOne, OnItsWay

\* One command steps, alone, and the others stay idle.
LEMMA Alone ==
    ASSUME RInv, NEW c \in Commands, pc[c] # "idle" \/ Quiet, NEW l \in Step, GoTo(c, l)
    PROVE  /\ \A d \in Commands : d # c => pc[d] = "idle" /\ pc'[d] = "idle"
           /\ pc'[c] = l
           /\ pc' \in [Commands -> Step]
           /\ AtMostOne'
  <1>1. pc \in [Commands -> Step] /\ pc' = [pc EXCEPT ![c] = l]
    BY DEF RInv, RowsTyped, GoTo
  <1>2. \A d \in Commands : d # c => pc[d] = "idle"
    BY DEF RInv, AtMostOne, Quiet
  <1>3. /\ pc'[c] = l /\ \A d \in Commands : d # c => pc'[d] = pc[d]
        /\ pc' \in [Commands -> Step]
    BY <1>1
  <1>4. QED
    BY <1>2, <1>3 DEF AtMostOne

\* Whatever instant a row is stamped with, it is the last one in, and the
\* newest unless the newest is stamped later.
LEMMA InsertFacts ==
    ASSUME RowsTyped, NEW tool \in {"halt", "resume"}, InsertRow(tool)
    PROVE  /\ last' \in [tool : {"halt", "resume"}, ts : Nat] /\ last'.tool = tool
           /\ latest' \in [tool : {"halt", "resume"}, ts : Nat]
           /\ latest' = last' \/ last'.ts < latest'.ts
  <1>1. PICK now \in 0..MaxTime :
            /\ last' = [tool |-> tool, ts |-> now]
            /\ latest' = IF now >= latest.ts THEN last' ELSE latest
    BY DEF InsertRow
  <1>2. now \in Nat /\ latest.ts \in Nat
    BY OperatorHaltAssumption DEF RowsTyped
  <1>3. last' \in [tool : {"halt", "resume"}, ts : Nat] /\ last'.tool = tool /\ last'.ts = now
    BY <1>1, <1>2
  <1>4. CASE now >= latest.ts
    BY <1>1, <1>3, <1>4
  <1>5. CASE ~(now >= latest.ts)
    <2>1. latest' = latest /\ now < latest.ts
      BY <1>1, <1>2, <1>5
    <2>2. QED
      BY <1>3, <2>1 DEF RowsTyped
  <1>6. QED
    BY <1>4, <1>5

LEMMA CommandStep ==
    ASSUME RInv, ~Overlap, NEW c \in Commands, Command(c)
    PROVE  RInv' /\ Lifts
  <1> USE DEF RInv, RowsTyped
  <1>1. CASE BeginHalt(c)
    <2>1. /\ \A d \in Commands : d # c => pc'[d] = "idle"
          /\ pc'[c] = "write" /\ AtMostOne' /\ pc' \in [Commands -> Step]
      BY <1>1, Alone DEF BeginHalt, Begin, Step
    <2>2. UNCHANGED <<present, latest, last, byHand>>
      BY <1>1 DEF BeginHalt, vars, fileVars, rowVars
    <2>3. \A d \in Commands : OnItsWay(d)'
      BY <2>1 DEF OnItsWay
    <2>4. QED
      BY <2>1, <2>2, <2>3 DEF Lifts
  <1>2. CASE WriteSentinel(c)
    <2>1. /\ \A d \in Commands : d # c => pc'[d] = "idle"
          /\ pc'[c] = "insert_halt" /\ AtMostOne' /\ pc' \in [Commands -> Step]
      BY <1>2, Alone DEF WriteSentinel, Step
    <2>2. /\ present' = TRUE /\ byHand' = FALSE /\ UNCHANGED <<latest, last>>
          /\ present' /\ present' \in BOOLEAN /\ byHand' \in BOOLEAN
      BY <1>2 DEF WriteSentinel, FileBecomes, rowVars
    <2>3. \A d \in Commands : OnItsWay(d)'
      BY <2>1, <2>2 DEF OnItsWay
    <2>4. QED
      BY <2>1, <2>2, <2>3 DEF Lifts
  <1>3. CASE InsertHalt(c)
    <2>1. /\ \A d \in Commands : d # c => pc'[d] = "idle"
          /\ pc'[c] = "idle" /\ AtMostOne' /\ pc' \in [Commands -> Step]
      BY <1>3, Alone DEF InsertHalt, Step
    <2>2. UNCHANGED <<present, byHand>> /\ (present \/ byHand)
      BY <1>3 DEF InsertHalt, OnItsWay, vars, fileVars
    <2>3. /\ latest' \in [tool : {"halt", "resume"}, ts : Nat]
          /\ last' \in [tool : {"halt", "resume"}, ts : Nat]
          /\ latest' = last' \/ last'.ts < latest'.ts
      BY <1>3, InsertFacts DEF InsertHalt
    <2>4. \A d \in Commands : OnItsWay(d)'
      BY <2>1 DEF OnItsWay
    <2>5. QED
      BY <2>1, <2>2, <2>3, <2>4 DEF Lifts
  <1>4. CASE BeginResume(c)
    <2>1. /\ \A d \in Commands : d # c => pc'[d] = "idle"
          /\ pc'[c] = "insert_resume" /\ AtMostOne' /\ pc' \in [Commands -> Step]
      BY <1>4, Alone DEF BeginResume, Begin, Step
    <2>2. UNCHANGED <<present, latest, last, byHand>>
      BY <1>4 DEF BeginResume, vars, fileVars, rowVars
    <2>3. \A d \in Commands : OnItsWay(d)'
      BY <2>1 DEF OnItsWay
    <2>4. QED
      BY <2>1, <2>2, <2>3 DEF Lifts
  <1>5. CASE InsertResume(c)
    <2>1. /\ \A d \in Commands : d # c => pc'[d] = "idle"
          /\ pc'[c] = "unlink" /\ AtMostOne' /\ pc' \in [Commands -> Step]
      BY <1>5, Alone DEF InsertResume, Step
    <2>2. UNCHANGED <<present, byHand>>
      BY <1>5 DEF InsertResume, vars, fileVars
    <2>3. /\ latest' \in [tool : {"halt", "resume"}, ts : Nat]
          /\ last' \in [tool : {"halt", "resume"}, ts : Nat] /\ last'.tool = "resume"
          /\ latest' = last' \/ last'.ts < latest'.ts
      BY <1>5, InsertFacts DEF InsertResume
    <2>4. \A d \in Commands : OnItsWay(d)'
      BY <2>1, <2>3 DEF OnItsWay
    <2>5. QED
      BY <2>1, <2>2, <2>3, <2>4 DEF Lifts
  <1>6. CASE UnlinkSentinel(c)
    <2>1. /\ \A d \in Commands : d # c => pc'[d] = "idle"
          /\ pc'[c] = "idle" /\ AtMostOne' /\ pc' \in [Commands -> Step]
      BY <1>6, Alone DEF UnlinkSentinel, Step
    <2>2. /\ UNCHANGED <<latest, last>> /\ last.tool = "resume"
          /\ present' = FALSE /\ byHand' \in BOOLEAN
      BY <1>6 DEF UnlinkSentinel, FileBecomes, OnItsWay, rowVars
    <2>3. \A d \in Commands : OnItsWay(d)'
      BY <2>1 DEF OnItsWay
    <2>4. QED
      BY <2>1, <2>2, <2>3 DEF Lifts
  <1>7. CASE Abandon(c)
    <2>1. /\ \A d \in Commands : d # c => pc'[d] = "idle"
          /\ pc'[c] = "idle" /\ AtMostOne' /\ pc' \in [Commands -> Step]
      BY <1>7, Alone DEF Abandon, Step
    <2>2. UNCHANGED <<present, latest, last, byHand>>
      BY <1>7 DEF Abandon, vars, fileVars, rowVars
    <2>3. \A d \in Commands : OnItsWay(d)'
      BY <2>1 DEF OnItsWay
    <2>4. QED
      BY <2>1, <2>2, <2>3 DEF Lifts
  <1>8. QED
    BY <1>1, <1>2, <1>3, <1>4, <1>5, <1>6, <1>7 DEF Command

LEMMA RowsStep == ~Overlap /\ RInv /\ [SystemNext]_allVars => RInv' /\ Lifts
  <1> SUFFICES ASSUME ~Overlap, RInv, [SystemNext]_allVars PROVE RInv' /\ Lifts
    OBVIOUS
  <1>u. ASSUME UNCHANGED <<present, commandVars>> PROVE RInv' /\ Lifts
    BY <1>u DEF RInv, RowsTyped, AtMostOne, OnItsWay, commandVars, rowVars, Lifts
  <1>1. CASE ExtensionStep
    <2>1. Switch => UNCHANGED present
      BY DEF Switch, Start, Stop, Look, LookAtParent, Stamp, Publish, PublishFailure,
             HaltedByFrame, ResumedByFrame, Tick, ClockSetBack, fileVars
    <2>2. QED
      BY <1>1, <2>1, <1>u DEF ExtensionStep
  <1>2. CASE \E c \in Commands : Command(c)
    BY <1>2, CommandStep
  <1>3. CASE TouchByHand \/ RemoveByHand
    <2>1. UNCHANGED <<pc, latest, last>> /\ (present' \/ byHand')
      BY <1>3 DEF TouchByHand, RemoveByHand, FileBecomes, rowVars
    <2>2. present' \in BOOLEAN /\ byHand' \in BOOLEAN
      BY <1>3 DEF TouchByHand, RemoveByHand, FileBecomes
    <2>3. QED
      BY <2>1, <2>2 DEF RInv, RowsTyped, AtMostOne, OnItsWay, Lifts
  <1>4. CASE DirectoryChanges
    BY <1>4, <1>u DEF DirectoryChanges, FileBecomes
  <1>5. CASE UNCHANGED allVars
    BY <1>5, <1>u DEF allVars, vars, fileVars
  <1>6. QED
    BY <1>1, <1>2, <1>3, <1>4, <1>5 DEF SystemNext

\* One command at a time, however each is cut short and whatever the wall clock
\* does: when none is under way and nobody removed the file by hand, a missing
\* file means the last row in is not a halt, and the newest is one only if it is
\* stamped later than the last (halt.py:65-67, 80-88).
THEOREM AgreementHolds == ~Overlap => (SystemSpec => []FileAndRowAgree)
  <1> SUFFICES ASSUME ~Overlap PROVE SystemSpec => []FileAndRowAgree
    OBVIOUS
  <1>1. SystemInit => RInv
    BY RowsInit
  <1>2. RInv /\ [SystemNext]_allVars => RInv'
    BY RowsStep
  <1>3. RInv => FileAndRowAgree
    BY DEF RInv, FileAndRowAgree
  <1>4. QED
    BY <1>1, <1>2, <1>3, PTL DEF SystemSpec

\* One command at a time, no command removes the file before the row that says
\* who lifted the halt, whatever instant that row is stamped with
\* (halt.py:173-178).
THEOREM LiftHolds == ~Overlap => (SystemSpec => LiftIsRecorded)
  <1> SUFFICES ASSUME ~Overlap PROVE SystemSpec => LiftIsRecorded
    OBVIOUS
  <1>1. SystemInit => RInv
    BY RowsInit
  <1>2. RInv /\ [SystemNext]_allVars => RInv'
    BY RowsStep
  <1>3. RInv /\ [SystemNext]_allVars
          => [present /\ ~present' /\ ~byHand' => last.tool = "resume"]_allVars
    BY RowsStep DEF Lifts
  <1>4. QED
    BY <1>1, <1>2, <1>3, PTL DEF SystemSpec, LiftIsRecorded
=============================================================================
