----------------------------- MODULE SendProofs -----------------------------
(***************************************************************************)
(* The send path, for every set of targets, configurations and threads.    *)
(***************************************************************************)
EXTENDS SendPath, TLAPS

Loop == [pc : {"read", "commit", "arm", "held", "gate", "http"},
         auth : Authorisation, target : Targets \cup {None}, held : BOOLEAN]
ProxyCall == [pc : {"idle", "arm", "decide"}, auth : Authorisation, target : Targets \cup {None}]
Limit == [budget : Nat \ {0}, issued : Nat]

\* The initial records are of the types of what they initialise.
LEMMA ConstantFacts ==
    /\ DENIED \in Authorisation /\ DENIED.epoch = 0 /\ DENIED.scope = Empty
    /\ Reading \in Loop /\ Reading.pc = "read" /\ Reading.auth = DENIED /\ Reading.held = FALSE
    /\ ProxyIdle \in ProxyCall /\ ProxyIdle.pc = "idle" /\ ProxyIdle.auth = DENIED
    /\ Empty.budget = Absent /\ Empty.targets = {}
  BY SendPathAssumption DEF DENIED, Authorisation, Empty, Reading, Loop, ProxyIdle, ProxyCall, Absent

\* A snapshot is usable for arming whenever arming does not throw.
LEMMA BudgetIsPositive ==
    ASSUME NEW auth \in Authorisation, auth.scope.budget # Unusable
    PROVE  Budget(auth.scope) \in Nat \ {0}
  <1>1. auth.scope \in Config \cup {Empty}
    BY SendPathAssumption DEF Authorisation
  <1>2. CASE auth.scope = Empty
    BY <1>2, ConstantFacts, SendPathAssumption DEF Budget
  <1>3. CASE auth.scope \in Config
    BY <1>3, SendPathAssumption DEF Config, Budget, Absent, Unusable
  <1>4. QED
    BY <1>1, <1>2, <1>3

\* Arming leaves the limits armed or untouched.
LEMMA ArmTypes ==
    ASSUME TypeOK, NEW auth \in Authorisation, NEW who \in {"loop", "proxy"},
           ~ArmThrows(auth), Arm(auth, who)
    PROVE  /\ limiter' \in {None} \cup Limit
           /\ armer' \in {None, "loop", "proxy"}
           /\ limiter # None => UNCHANGED limitVars
           /\ UNCHANGED limitVars \/ (limiter = None /\ armer' = who /\ limiter'.issued = 0
                                      /\ limiter'.budget = Budget(auth.scope) /\ limiter' \in Limit)
  <1>1. CASE limiter # None \/ auth.epoch = 0
    BY <1>1 DEF Arm, limitVars, TypeOK, Limit
  <1>2. CASE limiter = None /\ auth.epoch # 0
    <2>1. Budget(auth.scope) \in Nat \ {0}
      BY <1>2, BudgetIsPositive DEF ArmThrows
    <2>2. limiter' = [budget |-> Budget(auth.scope), issued |-> 0] /\ armer' = who
      BY <1>2 DEF Arm
    <2>3. QED
      BY <1>2, <2>1, <2>2 DEF Limit
  <1>3. QED
    BY <1>1, <1>2

\* A check that allows leaves a limiter.
LEMMA GateTypes ==
    ASSUME TypeOK, GateAllows
    PROVE  /\ limiter \in Limit /\ limiter' \in Limit
           /\ limiter'.budget = limiter.budget /\ limiter'.issued = limiter.issued + 1
           /\ limiter.issued < limiter.budget /\ armer' = armer
  BY DEF TypeOK, GateAllows, Limit

\* Switches are Booleans, one by one.
Flags == /\ reading \in BOOLEAN /\ closed \in BOOLEAN /\ configured \in BOOLEAN
         /\ frameHalted \in BOOLEAN /\ sentinel \in BOOLEAN /\ stop \in BOOLEAN
Types ==
    /\ Flags
    /\ committed \in Authorisation
    /\ epochCounter \in 0..MaxEpoch
    /\ limiter \in {None} \cup Limit
    /\ loop \in Loop
    /\ proxy \in [Proxies -> ProxyCall]
    /\ granted \in [1..MaxEpoch -> Configs \cup {Empty}]
    /\ spent \in Nat
    /\ armer \in {None, "loop", "proxy"}
    /\ last \in {None} \cup [by : {"send", "reply", "proxy"}, epoch : 0..MaxEpoch,
                             target : Targets]

\* The request on its way was allowed by the snapshot it was decided under.
TargetInScope == loop.pc = "http" => /\ loop.auth.epoch # 0
                                     /\ loop.target \in loop.auth.scope.targets

\* The types, split for the provers, are the type invariant.
LEMMA TypesAre == Types <=> TypeOK
  <1>1. Flags <=> {reading, closed, configured, frameHalted, sentinel, stop} \subseteq BOOLEAN
    BY Zenon DEF Flags
  <1>2. QED
    BY <1>1 DEF Types, TypeOK, Loop, ProxyCall, Limit
\* The types hold when the extension has just been loaded.
LEMMA InitTypes == Init => Types
  <1> SUFFICES ASSUME Init PROVE Types
    OBVIOUS
  <1> USE ConstantFacts, SendPathAssumption
  <1>1. Flags
    BY Zenon DEF Init, Flags
  <1>2. /\ committed \in Authorisation /\ epochCounter \in 0..MaxEpoch /\ loop \in Loop
        /\ spent \in Nat /\ limiter = None /\ last = None /\ armer = None
    BY DEF Init
  <1>3. proxy \in [Proxies -> ProxyCall] /\ granted \in [1..MaxEpoch -> Configs \cup {Empty}]
    BY DEF Init
  <1>4. QED
    BY <1>1, <1>2, <1>3 DEF Types

\* What a refusal and the end of the loop leave behind.
LEMMA Ends == LoopEnds => /\ reading' = FALSE /\ configured' = FALSE
                          /\ committed' = DENIED /\ loop' = Reading
  BY DEF LoopEnds, DenyAll

\* Every step keeps the types.
LEMMA TypesStep == Types /\ TargetInScope /\ [Next]_vars => Types'
  <1> SUFFICES ASSUME Types, TargetInScope, [Next]_vars PROVE Types'
    OBVIOUS
  <1> USE ConstantFacts, SendPathAssumption
  <1> USE DEF clientVars, haltVars, limitVars
  <1>t. TypeOK
    BY TypesAre
  <1>a. /\ Flags /\ committed \in Authorisation /\ epochCounter \in 0..MaxEpoch
        /\ limiter \in {None} \cup Limit /\ loop \in Loop /\ proxy \in [Proxies -> ProxyCall]
        /\ granted \in [1..MaxEpoch -> Configs \cup {Empty}] /\ spent \in Nat
        /\ armer \in {None, "loop", "proxy"}
        /\ last \in {None} \cup [by : {"send", "reply", "proxy"}, epoch : 0..MaxEpoch,
                                 target : Targets]
    BY DEF Types
  <1>f. /\ reading \in BOOLEAN /\ closed \in BOOLEAN /\ configured \in BOOLEAN
        /\ frameHalted \in BOOLEAN /\ sentinel \in BOOLEAN /\ stop \in BOOLEAN
    BY <1>a DEF Flags
  <1>p. /\ loop.auth \in Authorisation /\ loop.target \in Targets \cup {None}
        /\ loop.auth.epoch \in 0..MaxEpoch
        /\ \A p \in Proxies : proxy[p] \in ProxyCall /\ proxy[p].auth \in Authorisation
                              /\ proxy[p].auth.epoch \in 0..MaxEpoch
    BY <1>a DEF Loop, ProxyCall, Authorisation
  <1>1. CASE ChannelGone
    BY ZenonT(60), <1>1, <1>a, <1>f, Ends DEF ChannelGone, Types, Flags
  <1>2. CASE ConfigureUnparsable
    BY ZenonT(60), <1>2, <1>a, <1>f DEF ConfigureUnparsable, DenyAll, Types, Flags
  <1>3. ASSUME NEW cfg \in Configs, Configure(cfg) PROVE Types'
    <2>1. [epoch |-> 0, scope |-> cfg] \in Authorisation
      BY DEF Authorisation
    <2>2. loop' \in Loop
      <3>1. [Reading EXCEPT !.pc = "commit", !.auth = [epoch |-> 0, scope |-> cfg]] \in Loop
        BY <2>1 DEF Reading, Loop
      <3>2. QED
        BY <1>3, <1>a, <3>1 DEF Configure
    <2>3. committed' \in Authorisation /\ configured' \in BOOLEAN
      BY <1>3, <1>a, <1>f DEF Configure, DenyAll
    <2>4. QED
      BY <1>3, <1>a, <1>f, <2>2, <2>3 DEF Configure, Types, Flags
  <1>4. CASE Commit
    <2>1. CASE closed
      BY <1>4, <2>1, <1>a, <1>f, Ends DEF Commit, Types, Flags
    <2>2. CASE ~closed
      <3>1. loop.auth.scope \in Configs \cup {Empty}
        BY <1>p DEF Authorisation
      <3>2. epochCounter + 1 \in 0..MaxEpoch
        BY <1>4, <2>2, <1>a DEF Commit
      <3>3. committed' \in Authorisation /\ configured' = TRUE
        BY <1>4, <2>2, <3>1, <3>2 DEF Commit, Authorisation
      <3>4. granted' \in [1..MaxEpoch -> Configs \cup {Empty}]
        BY <1>4, <2>2, <3>1, <1>a DEF Commit
      <3>5. QED
        BY <1>4, <2>2, <3>2, <3>3, <3>4, <1>a, <1>f DEF Commit, Types, Flags
    <2>3. QED
      BY <2>1, <2>2
  <1>5. ASSUME NEW on \in BOOLEAN, HaltFrame(on) PROVE Types'
    BY <1>5, <1>a, <1>f DEF HaltFrame, Types, Flags
  <1>6. ASSUME NEW t \in Targets, TakeSend(t) PROVE Types'
    <2>1. Held \in BOOLEAN
      BY <1>f DEF Held
    <2>2. loop' \in Loop
      BY <1>6, <1>a, <2>1 DEF TakeSend, Loop
    <2>3. QED
      BY <1>6, <1>a, <1>f, <2>2 DEF TakeSend, Types, Flags
  <1>7. CASE SendArm
    <2>1. CASE ArmThrows(loop.auth)
      BY <1>7, <2>1, <1>a, <1>f, Ends DEF SendArm, Types, Flags
    <2>2. CASE ~ArmThrows(loop.auth)
      <3>1. limiter' \in {None} \cup Limit /\ armer' \in {None, "loop", "proxy"}
        BY <1>7, <2>2, <1>t, <1>p, ArmTypes DEF SendArm
      <3>2. loop' \in Loop
        BY <1>7, <2>2, <1>a DEF SendArm, Loop
      <3>3. QED
        BY <1>7, <2>2, <3>1, <3>2, <1>a, <1>f DEF SendArm, Types, Flags
    <2>3. QED
      BY <2>1, <2>2
  <1>8. CASE CheckHeld
    <2>1. loop' \in Loop
      BY <1>8, <1>a DEF CheckHeld, Refused, Loop
    <2>2. UNCHANGED <<clientVars, haltVars, limitVars, proxy, granted, spent, last>>
      BY <1>8 DEF CheckHeld, Refused
    <2>3. QED
      BY <2>1, <2>2, <1>a, <1>f DEF Types, Flags
  <1>9. CASE SendGate
    <2>1. limiter' \in {None} \cup Limit /\ armer' = armer
      BY <1>9, <1>t, <1>a, GateTypes DEF SendGate, GateRefuses
    <2>2. loop' \in Loop
      BY <1>9, <1>a DEF SendGate, Refused, Loop
    <2>3. UNCHANGED <<clientVars, haltVars, proxy, granted>> /\ spent' \in Nat
      BY <1>9, <1>a DEF SendGate, Refused
    <2>4. \/ last' = last
          \/ /\ last' = [by |-> "send", epoch |-> loop.auth.epoch, target |-> loop.target]
             /\ loop.target \in loop.auth.scope.targets
      BY <1>9 DEF SendGate, Refused
    <2>5. loop.auth.scope.targets \subseteq Targets
      <3>1. loop.auth.scope \in Config \cup {Empty}
        BY <1>p DEF Authorisation
      <3>2. QED
        BY <3>1 DEF Config
    <2>6. last' \in {None} \cup [by : {"send", "reply", "proxy"}, epoch : 0..MaxEpoch,
                                 target : Targets]
      BY <2>4, <2>5, <1>a, <1>p
    <2>7. QED
      BY <2>1, <2>2, <2>3, <2>6, <1>a, <1>f DEF Types, Flags
  <1>10. CASE Reply
    <2>1. loop' = Reading /\ stop' \in BOOLEAN
      BY <1>10, <1>f, Ends DEF Reply
    <2>2. committed' \in Authorisation /\ configured' \in BOOLEAN /\ reading' \in BOOLEAN
      BY <1>10, <1>a, <1>f, Ends DEF Reply
    <2>3. last' \in {None} \cup [by : {"send", "reply", "proxy"}, epoch : 0..MaxEpoch,
                                 target : Targets]
      <3>1. loop.auth.scope \in Config \cup {Empty}
        BY <1>p DEF Authorisation
      <3>2. loop.target \in Targets
        BY <1>10, <3>1 DEF Reply, TargetInScope, Config
      <3>3. QED
        BY <1>10, <1>a, <1>p, <3>2 DEF Reply
    <2>4. QED
      BY <1>10, <2>1, <2>2, <2>3, <1>a, <1>f DEF Reply, Types, Flags
  <1>11. ASSUME NEW p \in Proxies, NEW t \in Targets, ProxyTake(p, t) PROVE Types'
    <2>1. proxy' \in [Proxies -> ProxyCall]
      BY <1>11, <1>a DEF ProxyTake, ProxyCall
    <2>2. QED
      BY <1>11, <2>1, <1>a, <1>f DEF ProxyTake, Types, Flags
  <1>12. ASSUME NEW p \in Proxies, ProxyArm(p) PROVE Types'
    <2>1. proxy' \in [Proxies -> ProxyCall]
      <3>1. [proxy[p] EXCEPT !.pc = "decide"] \in ProxyCall
        BY <1>p DEF ProxyCall
      <3>2. proxy' = [proxy EXCEPT ![p] = ProxyIdle]
            \/ proxy' = [proxy EXCEPT ![p] = [proxy[p] EXCEPT !.pc = "decide"]]
        BY <1>12 DEF ProxyArm
      <3>3. QED
        BY <3>1, <3>2, <1>a
    <2>2. limiter' \in {None} \cup Limit /\ armer' \in {None, "loop", "proxy"}
      <3>1. CASE ArmThrows(proxy[p].auth)
        BY <1>12, <3>1, <1>a DEF ProxyArm
      <3>2. CASE ~ArmThrows(proxy[p].auth)
        BY <1>12, <3>2, <1>t, <1>p, ArmTypes DEF ProxyArm
      <3>3. QED
        BY <3>1, <3>2
    <2>3. QED
      BY <1>12, <2>1, <2>2, <1>a, <1>f DEF ProxyArm, Types, Flags
  <1>13. ASSUME NEW p \in Proxies, ProxyDecide(p) PROVE Types'
    <2>1. proxy' \in [Proxies -> ProxyCall]
      BY <1>13, <1>a DEF ProxyDecide
    <2>2. limiter' \in {None} \cup Limit /\ armer' = armer /\ spent' \in Nat
      BY <1>13, <1>t, <1>a, GateTypes DEF ProxyDecide
    <2>3. proxy[p].auth.scope.targets \subseteq Targets
      <3>1. proxy[p].auth.scope \in Config \cup {Empty}
        BY <1>p DEF Authorisation
      <3>2. QED
        BY <3>1 DEF Config
    <2>4. last' \in {None} \cup [by : {"send", "reply", "proxy"}, epoch : 0..MaxEpoch,
                                 target : Targets]
      BY <1>13, <2>3, <1>a, <1>p DEF ProxyDecide
    <2>5. QED
      BY <1>13, <2>1, <2>2, <2>4, <1>a, <1>f DEF ProxyDecide, Types, Flags
  <1>14. CASE Close
    BY <1>14, <1>a, <1>f DEF Close, DenyAll, Types, Flags
  <1>15. CASE SentinelChanges
    <2>1. loop' \in Loop
      BY <1>15, <1>a, <1>f DEF SentinelChanges, Loop
    <2>2. QED
      BY <1>15, <2>1, <1>a, <1>f DEF SentinelChanges, Types, Flags
  <1>16. CASE UNCHANGED vars
    BY <1>16, <1>a, <1>f DEF vars, Types, Flags
  <1>17. QED
    BY <1>1, <1>2, <1>3, <1>4, <1>5, <1>6, <1>7, <1>8, <1>9, <1>10, <1>11, <1>12,
       <1>13, <1>14, <1>15, <1>16 DEF Next, ReadLoop, Proxied

(***************************************************************************)
(* What each property rests on.  A snapshot is never of more than what was *)
(* committed, so the history of commits answers for the requests on their  *)
(* way; what is spent was counted; a hold seen when a frame was taken is   *)
(* still there while it is decided; and a configure past its guard agrees  *)
(* with limits the read loop has armed.                                    *)
(***************************************************************************)
GrantedAs(auth) == auth.epoch # 0 => /\ auth.epoch \in 1..epochCounter
                                     /\ granted[auth.epoch] = auth.scope

Snapshots ==
    /\ GrantedAs(committed)
    /\ GrantedAs(loop.auth)
    /\ \A p \in Proxies : GrantedAs(proxy[p].auth)
    /\ loop.pc = "gate" => loop.auth.epoch # 0
    /\ TargetInScope
    /\ EpochGrantedIt

Counted ==
    /\ limiter = None => spent = 0
    /\ limiter # None => spent =< limiter.issued /\ limiter.issued =< limiter.budget

HoldStands ==
    /\ loop.held => Held
    /\ loop.pc \in {"gate", "http"} => ~loop.held

AgreesWithLimits(cfg) ==
    limiter # None /\ armer = "loop" /\ cfg.budget \notin {Absent, Unusable} =>
        limiter.budget = cfg.budget

ArmedAsAsked ==
    /\ AgreesWithLimits(committed.scope)
    /\ AgreesWithLimits(loop.auth.scope)
    /\ loop.pc = "arm" => committed \in {loop.auth, DENIED}

IInv == Types /\ Snapshots /\ Counted /\ HoldStands /\ ArmedAsAsked /\ ClosedStaysDenied

\* The same without the limits.
LEMMA CommitsOnly ==
    Types /\ [Next]_vars =>
        \/ UNCHANGED <<epochCounter, granted>>
        \/ Commit /\ ~closed
  <1> SUFFICES ASSUME [Next]_vars PROVE UNCHANGED <<epochCounter, granted>> \/ (Commit /\ ~closed)
    OBVIOUS
  <1> USE DEF clientVars
  <1>1. CASE ChannelGone \/ ConfigureUnparsable \/ Close \/ SentinelChanges
    BY <1>1 DEF ChannelGone, ConfigureUnparsable, Close, SentinelChanges
  <1>2. CASE Commit
    BY <1>2 DEF Commit
  <1>3. CASE \E cfg \in Configs : Configure(cfg)
    BY <1>3 DEF Configure
  <1>4. CASE (\E on \in BOOLEAN : HaltFrame(on)) \/ (\E t \in Targets : TakeSend(t))
    BY <1>4 DEF HaltFrame, TakeSend
  <1>5. CASE SendArm \/ CheckHeld \/ SendGate \/ Reply
    BY <1>5 DEF SendArm, CheckHeld, SendGate, Reply, Refused
  <1>6. CASE Proxied
    BY <1>6 DEF Proxied, ProxyTake, ProxyArm, ProxyDecide
  <1>7. CASE UNCHANGED vars
    BY <1>7 DEF vars
  <1>8. QED
    BY <1>1, <1>2, <1>3, <1>4, <1>5, <1>6, <1>7 DEF Next, ReadLoop

\* A commit takes a new epoch and leaves what earlier ones granted.
LEMMA GrantsStand ==
    ASSUME Types, [Next]_vars, NEW auth \in Authorisation, GrantedAs(auth)
    PROVE  auth.epoch # 0 => /\ auth.epoch \in 1..epochCounter'
                             /\ granted'[auth.epoch] = auth.scope
  <1>1. CASE UNCHANGED <<epochCounter, granted>>
    BY <1>1 DEF GrantedAs
  <1>2. CASE Commit /\ ~closed
    <2>1. /\ epochCounter' = epochCounter + 1
          /\ granted' = [granted EXCEPT ![epochCounter + 1] = loop.auth.scope]
      BY <1>2 DEF Commit
    <2>2. QED
      BY <2>1, SendPathAssumption DEF Types, GrantedAs, Authorisation
  <1>3. QED
    BY <1>1, <1>2, CommitsOnly

\* Where an authorisation in use can come from.
LEMMA AuthorisationsMove ==
    ASSUME Types, [Next]_vars
    PROVE  /\ committed' \in {committed, DENIED} \/ (Commit /\ ~closed)
           /\ loop'.auth \in {loop.auth, committed, DENIED} \/ loop'.auth.epoch = 0
           /\ \A p \in Proxies : proxy'[p].auth \in {proxy[p].auth, committed, DENIED}
  <1> USE ConstantFacts DEF clientVars, LoopEnds, DenyAll
  <1>a. loop \in Loop /\ proxy \in [Proxies -> ProxyCall]
    BY DEF Types
  <1>1. CASE ChannelGone \/ ConfigureUnparsable \/ Close
    BY <1>1, <1>a DEF ChannelGone, ConfigureUnparsable, Close
  <1>2. CASE SentinelChanges
    BY <1>2, <1>a DEF SentinelChanges, Loop
  <1>3. CASE Commit
    BY <1>3, <1>a DEF Commit
  <1>4. ASSUME NEW cfg \in Configs, Configure(cfg)
        PROVE  /\ committed' \in {committed, DENIED} /\ UNCHANGED proxy
               /\ loop'.auth \in {loop.auth, DENIED} \/ loop'.auth.epoch = 0
    <2>1. [Reading EXCEPT !.pc = "commit", !.auth = [epoch |-> 0, scope |-> cfg]].auth.epoch = 0
      BY DEF Reading
    <2>2. QED
      BY <1>4, <2>1 DEF Configure
  <1>5. CASE \E on \in BOOLEAN : HaltFrame(on)
    BY <1>5, <1>a DEF HaltFrame
  <1>6. CASE \E t \in Targets : TakeSend(t)
    BY <1>6, <1>a DEF TakeSend
  <1>7. CASE SendArm
    BY <1>7, <1>a DEF SendArm, Loop
  <1>8. CASE CheckHeld \/ SendGate
    BY <1>8, <1>a DEF CheckHeld, SendGate, Refused, Loop
  <1>9. CASE Reply
    BY <1>9, <1>a DEF Reply
  <1>10. ASSUME NEW p \in Proxies, (\E t \in Targets : ProxyTake(p, t)) \/ ProxyArm(p) \/ ProxyDecide(p)
         PROVE  /\ UNCHANGED <<committed, loop>>
                /\ \A q \in Proxies : proxy'[q].auth \in {proxy[q].auth, committed, DENIED}
    <2>1. CASE \E t \in Targets : ProxyTake(p, t)
      BY <2>1, <1>a DEF ProxyTake
    <2>2. CASE ProxyArm(p)
      BY <2>2, <1>a DEF ProxyArm, ProxyCall
    <2>3. CASE ProxyDecide(p)
      BY <2>3, <1>a DEF ProxyDecide
    <2>4. QED
      BY <1>10, <2>1, <2>2, <2>3
  <1>11. CASE UNCHANGED vars
    BY <1>11 DEF vars
  <1>12. QED
    BY <1>1, <1>2, <1>3, <1>4, <1>5, <1>6, <1>7, <1>8, <1>9, <1>10, <1>11
       DEF Next, ReadLoop, Proxied

\* Where a request gets past the checks, and where one is recorded.
LEMMA RequestsMove ==
    ASSUME Types, [Next]_vars
    PROVE  /\ loop'.pc = "gate" => \/ loop.pc = "gate" /\ loop'.auth = loop.auth
                                   \/ CheckHeld /\ loop'.auth = loop.auth /\ loop.auth.epoch # 0
           /\ loop'.pc = "http" =>
                  /\ loop'.auth = loop.auth /\ loop'.target = loop.target
                  /\ \/ loop.pc = "http"
                     \/ loop.pc = "gate" /\ loop.target \in loop.auth.scope.targets
           /\ \/ last' = last
              \/ /\ last'.epoch = loop.auth.epoch /\ last'.target = loop.target
                 /\ \/ loop.pc = "http"
                    \/ loop.pc = "gate" /\ loop.target \in loop.auth.scope.targets
              \/ \E p \in Proxies :
                    /\ last'.epoch = proxy[p].auth.epoch /\ last'.target = proxy[p].target
                    /\ proxy[p].auth.epoch # 0
                    /\ proxy[p].target \in proxy[p].auth.scope.targets
  <1> USE ConstantFacts DEF LoopEnds, DenyAll
  <1>a. loop \in Loop
    BY DEF Types
  <1>1. CASE ChannelGone \/ ConfigureUnparsable \/ Close
    BY <1>1, <1>a DEF ChannelGone, ConfigureUnparsable, Close
  <1>2. CASE SentinelChanges
    BY <1>2, <1>a DEF SentinelChanges, Loop
  <1>3. CASE Commit
    BY <1>3, <1>a DEF Commit
  <1>4. ASSUME NEW cfg \in Configs, Configure(cfg)
        PROVE  last' = last /\ (loop' = loop \/ loop'.pc = "commit")
    <2>1. [Reading EXCEPT !.pc = "commit", !.auth = [epoch |-> 0, scope |-> cfg]].pc = "commit"
      BY DEF Reading
    <2>2. QED
      BY <1>4, <2>1 DEF Configure
  <1>5. CASE \E on \in BOOLEAN : HaltFrame(on)
    BY <1>5, <1>a DEF HaltFrame
  <1>6. CASE \E t \in Targets : TakeSend(t)
    BY <1>6, <1>a DEF TakeSend
  <1>7. CASE SendArm
    BY <1>7, <1>a DEF SendArm, Loop
  <1>8. CASE CheckHeld
    BY <1>8, <1>a DEF CheckHeld, Refused, Loop
  <1>9. CASE SendGate
    BY <1>9, <1>a DEF SendGate, Refused, Loop
  <1>10. CASE Reply
    BY <1>10, <1>a DEF Reply
  <1>11. CASE Proxied
    BY <1>11 DEF Proxied, ProxyTake, ProxyArm, ProxyDecide
  <1>12. CASE UNCHANGED vars
    BY <1>12 DEF vars
  <1>13. QED
    BY <1>1, <1>2, <1>3, <1>4, <1>5, <1>6, <1>7, <1>8, <1>9, <1>10, <1>11, <1>12
       DEF Next, ReadLoop

\* Whatever is decided against a snapshot, the snapshot was committed whole.
LEMMA SnapshotsStep == Types /\ Snapshots /\ [Next]_vars => Snapshots'
  <1> SUFFICES ASSUME Types, Snapshots, [Next]_vars PROVE Snapshots'
    OBVIOUS
  <1> DEFINE Kept(auth) == auth.epoch # 0 => /\ auth.epoch \in 1..epochCounter'
                                             /\ granted'[auth.epoch] = auth.scope
  <1>a. /\ committed \in Authorisation /\ loop.auth \in Authorisation
        /\ \A p \in Proxies : proxy[p].auth \in Authorisation
    BY DEF Types, Loop, ProxyCall
  <1>b. Kept(committed) /\ Kept(loop.auth) /\ \A p \in Proxies : Kept(proxy[p].auth)
    BY <1>a, GrantsStand DEF Snapshots
  <1>c. Kept(DENIED)
    BY ConstantFacts
  <1>1. Kept(committed')
    <2>1. CASE committed' \in {committed, DENIED}
      BY <2>1, <1>b, <1>c
    <2>2. CASE Commit /\ ~closed
      <3>1. /\ committed' = [epoch |-> epochCounter + 1, scope |-> loop.auth.scope]
            /\ epochCounter' = epochCounter + 1
            /\ granted' = [granted EXCEPT ![epochCounter + 1] = loop.auth.scope]
            /\ epochCounter < MaxEpoch
        BY <2>2 DEF Commit
      <3>2. epochCounter + 1 \in 1..MaxEpoch
        BY <3>1, SendPathAssumption DEF Types
      <3>3. QED
        BY <3>1, <3>2, SendPathAssumption DEF Types
    <2>3. QED
      BY <2>1, <2>2, AuthorisationsMove
  <1>2. Kept(loop'.auth)
    BY <1>b, <1>c, AuthorisationsMove
  <1>3. \A p \in Proxies : Kept(proxy'[p].auth)
    BY <1>b, <1>c, AuthorisationsMove
  <1>4. loop'.pc = "gate" => loop'.auth.epoch # 0
    BY RequestsMove DEF Snapshots
  <1>5. TargetInScope'
    BY RequestsMove DEF Snapshots, TargetInScope
  <1>6. EpochGrantedIt'
    <2>1. CASE last' = last
      <3>1. CASE last = None
        BY <2>1, <3>1 DEF EpochGrantedIt
      <3>2. CASE last # None
        <4>1. /\ last.epoch \in 1..epochCounter
              /\ last.target \in granted[last.epoch].targets
          BY <3>2 DEF Snapshots, EpochGrantedIt
        <4>2. \/ UNCHANGED <<epochCounter, granted>>
              \/ /\ epochCounter' = epochCounter + 1
                 /\ granted' = [granted EXCEPT ![epochCounter + 1] = loop.auth.scope]
          BY CommitsOnly DEF Commit
        <4>3. last.epoch \in 1..epochCounter' /\ granted'[last.epoch] = granted[last.epoch]
          BY <4>1, <4>2, SendPathAssumption DEF Types
        <4>4. QED
          BY <2>1, <4>1, <4>3 DEF EpochGrantedIt
      <3>3. QED
        BY <3>1, <3>2
    <2>2. CASE /\ last'.epoch = loop.auth.epoch /\ last'.target = loop.target
               /\ \/ loop.pc = "http"
                  \/ loop.pc = "gate" /\ loop.target \in loop.auth.scope.targets
      <3>1. loop.auth.epoch # 0 /\ loop.target \in loop.auth.scope.targets
        BY <2>2 DEF Snapshots, TargetInScope
      <3>2. QED
        BY <2>2, <3>1, <1>b DEF EpochGrantedIt
    <2>3. CASE \E p \in Proxies :
                    /\ last'.epoch = proxy[p].auth.epoch /\ last'.target = proxy[p].target
                    /\ proxy[p].auth.epoch # 0
                    /\ proxy[p].target \in proxy[p].auth.scope.targets
      BY <2>3, <1>b DEF EpochGrantedIt
    <2>4. QED
      BY <2>1, <2>2, <2>3, RequestsMove
  <1>7. QED
    BY <1>1, <1>2, <1>3, <1>4, <1>5, <1>6 DEF Snapshots, GrantedAs

\* The three things a step may do to the limits.
Armed(auth, who) ==
    /\ limiter = None /\ limiter' \in Limit /\ limiter'.issued = 0
    /\ limiter'.budget = Budget(auth.scope) /\ armer' = who /\ spent' = spent
    /\ committed' = committed

\* The limiter is left alone, armed by one of the threads, or spends one request.
LEMMA LimitsMove ==
    ASSUME Types, [Next]_vars
    PROVE  \/ UNCHANGED <<limiter, armer, spent>>
           \/ SendArm /\ Armed(loop.auth, "loop") /\ loop'.auth = loop.auth /\ loop'.pc = "held"
           \/ \E p \in Proxies : Armed(proxy[p].auth, "proxy")
           \/ GateAllows /\ spent' \in {spent, spent + 1}
  <1> USE DEF limitVars
  <1>a. TypeOK
    BY TypesAre
  <1>b. /\ loop \in Loop /\ loop.auth \in Authorisation
        /\ \A p \in Proxies : proxy[p].auth \in Authorisation
    BY DEF Types, Loop, ProxyCall
  <1>1. CASE ChannelGone \/ ConfigureUnparsable \/ Commit \/ Close \/ SentinelChanges
    BY <1>1 DEF ChannelGone, ConfigureUnparsable, Commit, Close, SentinelChanges
  <1>2. CASE \E cfg \in Configs : Configure(cfg)
    BY <1>2 DEF Configure
  <1>3. CASE (\E on \in BOOLEAN : HaltFrame(on)) \/ (\E t \in Targets : TakeSend(t))
    BY <1>3 DEF HaltFrame, TakeSend
  <1>4. CASE SendArm
    <2>1. CASE ArmThrows(loop.auth)
      BY <1>4, <2>1 DEF SendArm
    <2>2. CASE ~ArmThrows(loop.auth)
      <3>1. UNCHANGED limitVars \/ (limiter = None /\ armer' = "loop" /\ limiter'.issued = 0
                 /\ limiter'.budget = Budget(loop.auth.scope) /\ limiter' \in Limit)
        BY <1>4, <2>2, <1>a, <1>b, ArmTypes DEF SendArm
      <3>2. /\ loop' = [loop EXCEPT !.pc = "held"] /\ spent' = spent
            /\ committed' = committed
        BY <1>4, <2>2 DEF SendArm
      <3>3. loop'.auth = loop.auth /\ loop'.pc = "held"
        BY <3>2, <1>b DEF Loop
      <3>4. QED
        BY <1>4, <3>1, <3>2, <3>3 DEF Armed
    <2>3. QED
      BY <2>1, <2>2
  <1>5. CASE CheckHeld \/ Reply
    BY <1>5 DEF CheckHeld, Refused, Reply
  <1>6. CASE SendGate
    BY <1>6 DEF SendGate, GateRefuses, Refused
  <1>7. ASSUME NEW p \in Proxies, ProxyArm(p)
        PROVE  UNCHANGED <<limiter, armer, spent>> \/ Armed(proxy[p].auth, "proxy")
    <2>1. CASE ArmThrows(proxy[p].auth)
      BY <1>7, <2>1 DEF ProxyArm
    <2>2. CASE ~ArmThrows(proxy[p].auth)
      <3>1. UNCHANGED limitVars \/ (limiter = None /\ armer' = "proxy" /\ limiter'.issued = 0
                 /\ limiter'.budget = Budget(proxy[p].auth.scope) /\ limiter' \in Limit)
        BY <1>7, <2>2, <1>a, <1>b, ArmTypes DEF ProxyArm
      <3>2. spent' = spent /\ committed' = committed
        BY <1>7 DEF ProxyArm, clientVars
      <3>3. QED
        BY <3>1, <3>2 DEF Armed
    <2>3. QED
      BY <2>1, <2>2
  <1>8. ASSUME NEW p \in Proxies, (\E t \in Targets : ProxyTake(p, t)) \/ ProxyDecide(p)
        PROVE  UNCHANGED <<limiter, armer, spent>> \/ (GateAllows /\ spent' \in {spent, spent + 1})
    BY <1>8 DEF ProxyTake, ProxyDecide
  <1>9. CASE UNCHANGED vars
    BY <1>9 DEF vars
  <1>10. QED
    BY <1>1, <1>2, <1>3, <1>4, <1>5, <1>6, <1>7, <1>8, <1>9 DEF Next, ReadLoop, Proxied

\* No step takes the count of what was issued beyond the armed budget.
LEMMA CountedStep == Types /\ Counted /\ [Next]_vars => Counted'
  <1> SUFFICES ASSUME Types, Counted, [Next]_vars PROVE Counted'
    OBVIOUS
  <1>n. \A l \in Limit : l # None
    BY SendPathAssumption DEF Limit
  <1>1. CASE UNCHANGED <<limiter, armer, spent>>
    BY <1>1 DEF Counted
  <1>2. ASSUME NEW auth, NEW who, Armed(auth, who) PROVE Counted'
    BY <1>2, <1>n DEF Armed, Counted, Limit
  <1>3. CASE GateAllows /\ spent' \in {spent, spent + 1}
    <2>1. /\ limiter \in Limit /\ limiter' \in Limit
          /\ limiter'.budget = limiter.budget /\ limiter'.issued = limiter.issued + 1
          /\ limiter.issued < limiter.budget
      BY <1>3, GateTypes, TypesAre
    <2>2. spent =< limiter.issued /\ spent \in Nat
      BY <2>1, <1>n DEF Counted, Types
    <2>3. QED
      BY <1>3, <2>1, <2>2, <1>n DEF Counted, Limit
  <1>4. QED
    BY <1>1, <1>2, <1>3, LimitsMove

\* A hold read before the gate is not forgotten on the way to the wire.
LEMMA HoldStep == Types /\ HoldStands /\ [Next]_vars => HoldStands'
  <1> SUFFICES ASSUME Types, HoldStands, [Next]_vars PROVE HoldStands'
    OBVIOUS
  <1> USE ConstantFacts DEF HoldStands, Held, haltVars, LoopEnds
  <1>a. loop \in Loop
    BY DEF Types
  <1>1. CASE ChannelGone \/ Close
    BY <1>1, <1>a DEF ChannelGone, Close
  <1>2. CASE ConfigureUnparsable
    BY <1>2, <1>a DEF ConfigureUnparsable
  <1>3. CASE Commit
    BY <1>3, <1>a DEF Commit
  <1>4. ASSUME NEW cfg \in Configs, Configure(cfg) PROVE HoldStands'
    <2>1. /\ [Reading EXCEPT !.pc = "commit", !.auth = [epoch |-> 0, scope |-> cfg]].held = FALSE
          /\ [Reading EXCEPT !.pc = "commit", !.auth = [epoch |-> 0, scope |-> cfg]].pc = "commit"
      BY DEF Reading
    <2>2. QED
      BY <1>4, <2>1, <1>a DEF Configure
  <1>5. CASE \E on \in BOOLEAN : HaltFrame(on)
    BY <1>5, <1>a DEF HaltFrame, Ready
  <1>6. ASSUME NEW t \in Targets, TakeSend(t) PROVE HoldStands'
    BY <1>6, <1>a DEF TakeSend
  <1>7. CASE SendArm
    BY <1>7, <1>a DEF SendArm, Loop
  <1>8. CASE CheckHeld
    BY <1>8, <1>a DEF CheckHeld, Refused, Loop
  <1>9. CASE SendGate
    BY <1>9, <1>a DEF SendGate, Refused, Loop
  <1>10. CASE Reply
    BY <1>10, <1>a DEF Reply
  <1>11. CASE Proxied
    BY <1>11, <1>a DEF Proxied, ProxyTake, ProxyArm, ProxyDecide
  <1>12. CASE SentinelChanges
    <2>1. /\ loop'.held = (loop.held /\ (frameHalted \/ stop)) /\ loop'.pc = loop.pc
          /\ frameHalted' = frameHalted /\ stop' = stop
      BY <1>12, <1>a, Zenon DEF SentinelChanges, Loop
    <2>2. QED
      BY <2>1
  <1>13. CASE UNCHANGED vars
    BY <1>13 DEF vars
  <1>14. QED
    BY <1>1, <1>2, <1>3, <1>4, <1>5, <1>6, <1>7, <1>8, <1>9, <1>10, <1>11, <1>12, <1>13
       DEF Next, ReadLoop

\* Once closed, the published authorisation is not replaced by a step of any thread.
LEMMA ClosedStep == ClosedStaysDenied /\ [Next]_vars => ClosedStaysDenied'
  <1> SUFFICES ASSUME ClosedStaysDenied, [Next]_vars PROVE ClosedStaysDenied'
    OBVIOUS
  <1> USE DEF ClosedStaysDenied, LoopEnds, DenyAll, clientVars
  <1>1. CASE ChannelGone \/ ConfigureUnparsable \/ Commit \/ Close \/ SentinelChanges
    BY <1>1 DEF ChannelGone, ConfigureUnparsable, Commit, Close, SentinelChanges
  <1>2. CASE \E cfg \in Configs : Configure(cfg)
    BY <1>2 DEF Configure
  <1>3. CASE (\E on \in BOOLEAN : HaltFrame(on)) \/ (\E t \in Targets : TakeSend(t))
    BY <1>3 DEF HaltFrame, TakeSend
  <1>4. CASE SendArm \/ CheckHeld \/ SendGate \/ Reply
    BY <1>4 DEF SendArm, CheckHeld, SendGate, Reply, Refused
  <1>5. CASE Proxied
    BY <1>5 DEF Proxied, ProxyTake, ProxyArm, ProxyDecide
  <1>6. CASE UNCHANGED vars
    BY <1>6 DEF vars
  <1>7. QED
    BY <1>1, <1>2, <1>3, <1>4, <1>5, <1>6 DEF Next, ReadLoop

\* What a loop that is arming is arming from, and where a configure comes from.
LEMMA ConfiguresMove ==
    ASSUME Types, [Next]_vars
    PROVE  /\ \/ loop'.auth \in {loop.auth, committed, DENIED}
              \/ \E cfg \in Configs : /\ ~LimitsMoved(cfg) /\ loop'.auth.scope = cfg
                                      /\ UNCHANGED <<limiter, armer>>
           /\ \/ committed' \in {committed, DENIED}
              \/ committed'.scope = loop.auth.scope /\ loop' = Reading
           /\ loop'.pc = "arm" =>
                  \/ loop.pc = "arm" /\ loop'.auth = loop.auth /\ committed' \in {committed, DENIED}
                  \/ loop'.auth = committed /\ committed' = committed
  <1> USE ConstantFacts DEF clientVars, limitVars, LoopEnds, DenyAll
  <1>a. loop \in Loop
    BY DEF Types
  <1>1. CASE ChannelGone \/ ConfigureUnparsable \/ Close
    BY <1>1, <1>a DEF ChannelGone, ConfigureUnparsable, Close
  <1>2. CASE SentinelChanges
    BY <1>2, <1>a DEF SentinelChanges, Loop
  <1>3. CASE Commit
    BY <1>3, <1>a DEF Commit
  <1>4. ASSUME NEW cfg \in Configs, Configure(cfg)
        PROVE  /\ committed' \in {committed, DENIED} /\ UNCHANGED <<limiter, armer>>
               /\ \/ loop' = loop /\ loop.pc = "read"
                  \/ ~LimitsMoved(cfg) /\ loop'.auth.scope = cfg /\ loop'.pc = "commit"
    <2>1. LET l == [Reading EXCEPT !.pc = "commit", !.auth = [epoch |-> 0, scope |-> cfg]]
          IN  l.auth.scope = cfg /\ l.pc = "commit"
      BY DEF Reading
    <2>2. QED
      BY <1>4, <2>1 DEF Configure, Ready
  <1>5. CASE \E on \in BOOLEAN : HaltFrame(on)
    BY <1>5, <1>a DEF HaltFrame
  <1>6. CASE \E t \in Targets : TakeSend(t)
    BY <1>6, <1>a DEF TakeSend
  <1>7. CASE SendArm
    BY <1>7, <1>a DEF SendArm, Loop
  <1>8. CASE CheckHeld \/ SendGate
    BY <1>8, <1>a DEF CheckHeld, SendGate, Refused, Loop
  <1>9. CASE Reply
    BY <1>9, <1>a DEF Reply
  <1>10. CASE Proxied
    BY <1>10 DEF Proxied, ProxyTake, ProxyArm, ProxyDecide
  <1>11. CASE UNCHANGED vars
    BY <1>11 DEF vars
  <1>12. QED
    BY <1>1, <1>2, <1>3, <1>4, <1>5, <1>6, <1>7, <1>8, <1>9, <1>10, <1>11 DEF Next, ReadLoop

\* What was armed is what the loop asked for, while the loop is the one that armed.
LEMMA ArmedStep == Types /\ Counted /\ ArmedAsAsked /\ [Next]_vars => ArmedAsAsked'
  <1> SUFFICES ASSUME Types, ArmedAsAsked, [Next]_vars PROVE ArmedAsAsked'
    OBVIOUS
  <1> USE ConstantFacts
  <1>n. \A l \in Limit : l # None
    BY SendPathAssumption DEF Limit
  <1>1. loop'.pc = "arm" => committed' \in {loop'.auth, DENIED}
    BY ConfiguresMove DEF ArmedAsAsked
  <1>2. CASE /\ limiter # None => limiter' # None /\ limiter'.budget = limiter.budget
             /\ limiter' # None => limiter # None
             /\ armer' = armer
    <2> DEFINE Agrees(cfg) == limiter' # None /\ armer' = "loop"
                                /\ cfg.budget \notin {Absent, Unusable} =>
                                  limiter'.budget = cfg.budget
    <2>1. Agrees(committed.scope) /\ Agrees(loop.auth.scope) /\ Agrees(Empty)
      BY <1>2 DEF ArmedAsAsked, AgreesWithLimits
    <2>2. \A cfg \in Configs : ~LimitsMoved(cfg) => Agrees(cfg)
      BY <1>2 DEF LimitsMoved
    <2>3. Agrees(loop'.auth.scope)
      <3>1. CASE loop'.auth \in {loop.auth, committed, DENIED}
        BY <3>1, <2>1
      <3>2. CASE \E cfg \in Configs : ~LimitsMoved(cfg) /\ loop'.auth.scope = cfg
        BY <3>2, <2>2
      <3>3. QED
        BY <3>1, <3>2, ConfiguresMove
    <2>4. Agrees(committed'.scope)
      BY <2>1, ConfiguresMove
    <2>5. QED
      BY <1>1, <2>3, <2>4 DEF ArmedAsAsked, AgreesWithLimits
  <1>3. CASE UNCHANGED <<limiter, armer, spent>>
    BY <1>2, <1>3
  <1>4. CASE GateAllows
    BY <1>2, <1>4, <1>n, GateTypes, TypesAre
  <1>5. CASE SendArm /\ Armed(loop.auth, "loop") /\ loop'.auth = loop.auth /\ loop'.pc = "held"
    <2>1. committed' \in {loop.auth, DENIED} /\ limiter'.budget = Budget(loop.auth.scope)
      BY <1>5 DEF ArmedAsAsked, Armed, SendArm
    <2>2. loop.auth.scope.budget # Absent => Budget(loop.auth.scope) = loop.auth.scope.budget
      BY DEF Budget
    <2>3. QED
      BY <1>1, <1>5, <2>1, <2>2 DEF ArmedAsAsked, AgreesWithLimits
  <1>6. CASE \E p \in Proxies : Armed(proxy[p].auth, "proxy")
    <2>1. armer' # "loop"
      BY <1>6 DEF Armed
    <2>2. QED
      BY <1>1, <2>1 DEF ArmedAsAsked, AgreesWithLimits
  <1>7. QED
    BY <1>3, <1>4, <1>5, <1>6, LimitsMove

----------------------------------------------------------------------------
\* All of it, in every reachable state.
LEMMA SendIInv == Spec => []IInv
  <1>1. Init => IInv
    <2> SUFFICES ASSUME Init PROVE IInv
      OBVIOUS
    <2> USE ConstantFacts
    <2>1. Types
      BY InitTypes
    <2>2. /\ committed = DENIED /\ loop = Reading /\ \A p \in Proxies : proxy[p] = ProxyIdle
          /\ last = None /\ limiter = None /\ spent = 0 /\ closed = FALSE
      BY DEF Init
    <2>3. Snapshots
      BY <2>2 DEF Snapshots, GrantedAs, TargetInScope, EpochGrantedIt
    <2>4. Counted /\ HoldStands /\ ArmedAsAsked /\ ClosedStaysDenied
      BY <2>2 DEF Counted, HoldStands, ArmedAsAsked, AgreesWithLimits, ClosedStaysDenied
    <2>5. QED
      BY <2>1, <2>3, <2>4 DEF IInv
  <1>2. IInv /\ [Next]_vars => IInv'
    BY TypesStep, SnapshotsStep, CountedStep, HoldStep, ArmedStep, ClosedStep
       DEF IInv, Snapshots
  <1>3. QED
    BY <1>1, <1>2, PTL DEF Spec

\* The types of the send path, for all its constants.
THEOREM SendTypes == Spec => []TypeOK
  BY SendIInv, TypesAre, PTL DEF IInv

\* Every request that leaves, and every reply's stamp, names an epoch whose
\* configuration allows the target: no snapshot is torn between two commits
\* (BridgeClient.java:332-346).
THEOREM GrantHolds == Spec => []EpochGrantedIt
  BY SendIInv, PTL DEF IInv, Snapshots

\* The budget is handed out once, however many configures, proxy threads and
\* deny-alls there are (Limits.java:72-84).
THEOREM BudgetHolds == Spec => []SpentWithinBudget
  <1>1. IInv => SpentWithinBudget
    <2> SUFFICES ASSUME IInv, spent > 0 PROVE limiter # None /\ spent =< limiter.budget
      BY DEF SpentWithinBudget
    <2>1. limiter # None
      BY DEF IInv, Counted
    <2>2. limiter \in Limit /\ spent \in Nat /\ spent =< limiter.issued /\ limiter.issued =< limiter.budget
      BY <2>1 DEF IInv, Counted, Types
    <2>3. QED
      BY <2>1, <2>2 DEF Limit
  <1>2. QED
    BY <1>1, SendIInv, PTL

\* A closed client holds no authorisation (BridgeClient.java:590-607, 965-971).
THEOREM ClosedHolds == Spec => []ClosedStaysDenied
  BY SendIInv, PTL DEF IInv

\* A send taken under a hold that stands is not issued (Sender.java:242-249).
THEOREM HoldHolds == Spec => []HeldIsNotIssued
  <1>1. IInv => HeldIsNotIssued
    BY DEF IInv, HoldStands, HeldIsNotIssued
  <1>2. QED
    BY <1>1, SendIInv, PTL

\* Limits the read loop armed are the ones every later configuration in force
\* asks for (Limits.java:142-186).
THEOREM LimitsHold == Spec => []LimitsInForceWhenLoopArmed
  <1>1. IInv => LimitsInForceWhenLoopArmed
    BY DEF IInv, ArmedAsAsked, AgreesWithLimits, LimitsInForceWhenLoopArmed, LimitsInForce
  <1>2. QED
    BY <1>1, SendIInv, PTL
=============================================================================
