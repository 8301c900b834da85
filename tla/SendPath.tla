------------------------------ MODULE SendPath ------------------------------
(***************************************************************************)
(* Who may issue a request, and under which authorisation: the permission  *)
(* state of the bridge client (extension/src/hx/bridge/BridgeClient.java), *)
(* the decision order of the sender (send/Sender.java), the once-armed     *)
(* limits (send/Limits.java) and the gate on the proxy (proxy/ProxyGate,   *)
(* HxExtension.java).                                                      *)
(*                                                                         *)
(* Three kinds of threads share it: the read loop, which takes one frame   *)
(* at a time and carries a send through to its reply; Burp's proxy         *)
(* threads, which decide about browser and crawler traffic; and whoever    *)
(* unloads the extension and closes the client.  A step is what one thread *)
(* does under one lock or between two reads of shared state.               *)
(*                                                                         *)
(* A configuration is the targets it allows and the request budget it asks *)
(* for.  The halt switch and the distress monitor are seen only through    *)
(* their answers; HaltSwitch models the first.                             *)
(***************************************************************************)
EXTENDS Integers

CONSTANTS
    Targets,
    Configs,        \* what configure frames carry: [targets, budget]
    DefaultBudget,  \* Limits.defaultMaxRequests
    Proxies,        \* proxy threads
    None,
    MaxEpoch        \* bound on configures

\* limit.max_requests: absent, or present and not a positive integer.
Absent   == 0
Unusable == -1

Config == [targets : SUBSET Targets, budget : {Absent, Unusable} \cup (Nat \ {0})]

ASSUME SendPathAssumption ==
    /\ Configs \subseteq Config
    /\ DefaultBudget \in Nat \ {0}
    /\ MaxEpoch \in Nat
    /\ None \notin [budget : Nat, issued : Nat]

VARIABLES
    reading,        \* the read loop runs
    closed, configured, committed, epochCounter,   \* BridgeClient
    frameHalted,    \* halted by frame: the client's and the switch's copy
    sentinel,       \* what else the halt switch answers
    stop,           \* Distress.stop, sticky
    limiter,        \* Limits.limiter: None, or [budget, issued]
    loop,           \* the frame the read loop is working on
    proxy,          \* the request each proxy thread is deciding
    \* What really happened (not in the code):
    granted,        \* the configuration each epoch was committed with
    spent,          \* requests let through against the budget
    armer,          \* which kind of thread armed the limits
    last            \* the last request that left, or reply that claims one did

clientVars == <<reading, closed, configured, committed, epochCounter>>
haltVars   == <<frameHalted, sentinel, stop>>
limitVars  == <<limiter, armer>>
vars == <<clientVars, haltVars, limitVars, loop, proxy, granted, spent, last>>

Empty  == [targets |-> {}, budget |-> Absent]
DENIED == [epoch |-> 0, scope |-> Empty]

Reading   == [pc |-> "read", auth |-> DENIED, target |-> None, held |-> FALSE]
ProxyIdle == [pc |-> "idle", auth |-> DENIED, target |-> None]

Init ==
    /\ reading = TRUE
    /\ closed = FALSE
    /\ configured = FALSE
    /\ committed = DENIED
    /\ epochCounter = 0
    /\ frameHalted = FALSE
    /\ sentinel \in BOOLEAN
    /\ stop = FALSE
    /\ limiter = None
    /\ loop = Reading
    /\ proxy = [p \in Proxies |-> ProxyIdle]
    /\ granted = [e \in 1..MaxEpoch |-> Empty]
    /\ spent = 0
    /\ armer = None
    /\ last = None

----------------------------------------------------------------------------
(* Permission state. *)

DenyAll ==
    /\ configured' = FALSE
    /\ committed' = DENIED

\* Sender.issuanceHeldReason().
Held == frameHalted \/ sentinel \/ stop

\* Limits.refuseIfLimitsMoved(): an armed limit does not move, an absent key
\* asks for nothing.
MutantLimitsMoved(cfg) == limiter # None /\ cfg.budget = Unusable
LimitsMoved(cfg) ==
    limiter # None /\ cfg.budget # Absent /\ cfg.budget # limiter.budget

Budget(cfg) == IF cfg.budget = Absent THEN DefaultBudget ELSE cfg.budget

\* Limits.arm(): once, from the first snapshot that has an epoch; TRUE when a
\* key it needs is unusable and it throws.
ArmThrows(auth) == limiter = None /\ auth.epoch # 0 /\ auth.scope.budget = Unusable

MutantArm(auth, who) ==
    IF auth.epoch = 0 THEN UNCHANGED limitVars
    ELSE /\ limiter' = [budget |-> Budget(auth.scope), issued |-> 0]
         /\ armer' = who
Arm(auth, who) ==
    IF limiter # None \/ auth.epoch = 0 THEN UNCHANGED limitVars
    ELSE /\ limiter' = [budget |-> Budget(auth.scope), issued |-> 0]
         /\ armer' = who

\* Limiter.check() allows: it counts, and only then.
GateAllows ==
    /\ limiter # None
    /\ limiter.issued < limiter.budget
    /\ limiter' = [limiter EXCEPT !.issued = @ + 1]
    /\ UNCHANGED armer

\* Limiter.check() refuses: no budget left, or the rate window is full.
GateRefuses == UNCHANGED limitVars

----------------------------------------------------------------------------
(* The read loop: BridgeClient.handle(), one frame at a time. *)

\* A frame handled in one step, or the end of one handled in several.
Ready == reading /\ ~closed /\ loop = Reading

\* Out of the loop: the finally clause denies all and closes the channel.
LoopEnds ==
    /\ reading' = FALSE
    /\ DenyAll
    /\ loop' = Reading

\* End of stream, an I/O error, a frame of another protocol version; or the
\* client was closed.
ChannelGone ==
    /\ reading
    /\ loop = Reading
    /\ LoopEnds
    /\ UNCHANGED <<closed, epochCounter, haltVars, limitVars, proxy, granted, spent, last>>

\* A configure whose body does not parse denies all and keeps the channel.
ConfigureUnparsable ==
    /\ Ready
    /\ DenyAll
    /\ UNCHANGED <<reading, closed, epochCounter, haltVars, limitVars, loop, proxy,
                   granted, spent, last>>

\* configure, up to the guard's verdict: refused, it denies all.
Configure(cfg) ==
    /\ Ready
    /\ IF LimitsMoved(cfg)
       THEN DenyAll /\ UNCHANGED loop
       ELSE /\ loop' = [Reading EXCEPT !.pc = "commit", !.auth = [epoch |-> 0, scope |-> cfg]]
            /\ UNCHANGED <<configured, committed>>
    /\ UNCHANGED <<reading, closed, epochCounter, haltVars, limitVars, proxy,
                   granted, spent, last>>

\* Mutants: the commit does not look at closed again under the lock.
MutantCommit ==
    /\ loop.pc = "commit"
    /\ epochCounter < MaxEpoch
    /\ epochCounter' = epochCounter + 1
    /\ committed' = [epoch |-> epochCounter + 1, scope |-> loop.auth.scope]
    /\ configured' = TRUE
    /\ granted' = [granted EXCEPT ![epochCounter + 1] = loop.auth.scope]
    /\ loop' = Reading
    /\ UNCHANGED <<reading, closed, haltVars, limitVars, proxy, spent, last>>

\* The commit, under commitLock: one write publishes epoch and scope.
Commit ==
    /\ loop.pc = "commit"
    /\ \/ /\ closed
          /\ LoopEnds
          /\ UNCHANGED <<epochCounter, granted>>
       \/ /\ ~closed
          /\ epochCounter < MaxEpoch
          /\ epochCounter' = epochCounter + 1
          /\ committed' = [epoch |-> epochCounter + 1, scope |-> loop.auth.scope]
          /\ configured' = TRUE
          /\ granted' = [granted EXCEPT ![epochCounter + 1] = loop.auth.scope]
          /\ loop' = Reading
          /\ UNCHANGED reading
    /\ UNCHANGED <<closed, haltVars, limitVars, proxy, spent, last>>

\* halt and resume frames.  A configure lifts neither.
HaltFrame(on) ==
    /\ Ready
    /\ frameHalted' = on
    /\ UNCHANGED <<clientVars, sentinel, stop, limitVars, loop, proxy, granted, spent, last>>

----------------------------------------------------------------------------
(* A send frame, from its snapshot to its reply. *)

\* The handler gets the authorisation as it stands now, once.
TakeSend(target) ==
    /\ Ready
    /\ loop' = [pc |-> "arm", auth |-> committed, target |-> target, held |-> Held]
    /\ UNCHANGED <<clientVars, haltVars, limitVars, proxy, granted, spent, last>>

\* A frame answered without issuing: unusable, past its deadline, refused.
Refused ==
    /\ loop' = Reading
    /\ UNCHANGED <<clientVars, haltVars, proxy, granted, spent, last>>

\* limits.arm(auth) before Sender.issue(); a throw denies all and ends the loop.
SendArm ==
    /\ loop.pc = "arm"
    /\ IF ArmThrows(loop.auth)
       THEN LoopEnds /\ UNCHANGED limitVars
       ELSE /\ Arm(loop.auth, "loop")
            /\ loop' = [loop EXCEPT !.pc = "held"]
            /\ UNCHANGED <<reading, configured, committed>>
    /\ UNCHANGED <<closed, epochCounter, haltVars, proxy, granted, spent, last>>

MutantCheckHeld ==
    /\ loop.pc = "held"
    /\ \/ Refused
       \/ /\ loop.auth.epoch # 0
          /\ loop' = [loop EXCEPT !.pc = "gate"]
          /\ UNCHANGED <<clientVars, haltVars, proxy, granted, spent, last>>
    /\ UNCHANGED limitVars

\* bad_frame, a deadline gone by, not_configured, halted: before any policy.
CheckHeld ==
    /\ loop.pc = "held"
    /\ \/ Refused
       \/ /\ loop.auth.epoch # 0
          /\ ~Held
          /\ loop' = [loop EXCEPT !.pc = "gate"]
          /\ UNCHANGED <<clientVars, haltVars, proxy, granted, spent, last>>
    /\ UNCHANGED limitVars

\* The boundary under the snapshot's scope, a credential hx did not inject,
\* then the gate, which spends; then an identity that is unknown or not for
\* this host, refused after the gate has counted.
SendGate ==
    /\ loop.pc = "gate"
    /\ \/ Refused /\ GateRefuses
       \/ /\ loop.target \in loop.auth.scope.targets
          /\ GateAllows
          /\ \/ Refused
             \/ /\ spent' = spent + 1
                /\ loop' = [loop EXCEPT !.pc = "http"]
                /\ last' = [by |-> "send", epoch |-> loop.auth.epoch, target |-> loop.target]
                /\ UNCHANGED <<clientVars, haltVars, proxy, granted>>

\* http.send() comes back or throws; the monitor records it and may stop the
\* run; the stop is announced, and an announcement that cannot be delivered
\* denies all; then the reply, stamped with the snapshot's epoch.
Reply ==
    /\ loop.pc = "http"
    /\ stop' \in {stop, TRUE}
    /\ last' \in {last, [by |-> "reply", epoch |-> loop.auth.epoch, target |-> loop.target]}
    /\ \/ loop' = Reading /\ UNCHANGED <<reading, configured, committed>>
       \/ LoopEnds
    /\ UNCHANGED <<closed, epochCounter, frameHalted, sentinel, limitVars, proxy,
                   granted, spent>>

----------------------------------------------------------------------------
(* Burp's proxy threads: handleRequestReceived(). *)

\* One read of the authorisation, then the same arming the send path does.
ProxyTake(p, target) ==
    /\ proxy[p].pc = "idle"
    /\ proxy' = [proxy EXCEPT ![p] = [pc |-> "arm", auth |-> committed, target |-> target]]
    /\ UNCHANGED <<clientVars, haltVars, limitVars, loop, granted, spent, last>>

\* A throw is a denial of this request and of nothing else.
ProxyArm(p) ==
    /\ proxy[p].pc = "arm"
    /\ IF ArmThrows(proxy[p].auth)
       THEN proxy' = [proxy EXCEPT ![p] = ProxyIdle] /\ UNCHANGED limitVars
       ELSE /\ Arm(proxy[p].auth, "proxy")
            /\ proxy' = [proxy EXCEPT ![p].pc = "decide"]
    /\ UNCHANGED <<clientVars, haltVars, loop, granted, spent, last>>

\* The mutant reads the authorisation's two halves at two moments.
MutantProxyDecide(p) ==
    /\ proxy[p].pc = "decide"
    /\ proxy' = [proxy EXCEPT ![p] = ProxyIdle]
    /\ \/ UNCHANGED <<limitVars, spent, last>>
       \/ /\ proxy[p].auth.epoch # 0
          /\ proxy[p].target \in committed.scope.targets
          /\ last' = [by |-> "proxy", epoch |-> proxy[p].auth.epoch, target |-> proxy[p].target]
          /\ UNCHANGED <<limitVars, spent>>
    /\ UNCHANGED <<clientVars, haltVars, loop, granted>>

\* ProxyGate.decide(): the operator's requests meet the scope, the crawler's
\* the gate as well; neither asks whether the run is halted.
ProxyDecide(p) ==
    /\ proxy[p].pc = "decide"
    /\ proxy' = [proxy EXCEPT ![p] = ProxyIdle]
    /\ \/ UNCHANGED <<limitVars, spent, last>>
       \/ /\ proxy[p].auth.epoch # 0
          /\ proxy[p].target \in proxy[p].auth.scope.targets
          /\ last' = [by |-> "proxy", epoch |-> proxy[p].auth.epoch, target |-> proxy[p].target]
          /\ \/ UNCHANGED <<limitVars, spent>>
             \/ GateAllows /\ spent' = spent + 1
    /\ UNCHANGED <<clientVars, haltVars, loop, granted>>

----------------------------------------------------------------------------
\* close(): sticky, and exclusive with the commit.
Close ==
    /\ ~closed
    /\ closed' = TRUE
    /\ DenyAll
    /\ UNCHANGED <<reading, epochCounter, haltVars, limitVars, loop, proxy, granted, spent, last>>

\* The sentinel appears or goes, or the poller stops answering.  A hold that
\* lifts while a frame is on its way no longer counts against it.
SentinelChanges ==
    /\ sentinel' = ~sentinel
    /\ loop' = [loop EXCEPT !.held = @ /\ (frameHalted \/ stop)]
    /\ UNCHANGED <<clientVars, frameHalted, stop, limitVars, proxy, granted, spent, last>>

ReadLoop ==
    \/ ChannelGone \/ ConfigureUnparsable \/ Commit
    \/ \E cfg \in Configs : Configure(cfg)
    \/ \E on \in BOOLEAN : HaltFrame(on)
    \/ \E t \in Targets : TakeSend(t)
    \/ SendArm \/ CheckHeld \/ SendGate \/ Reply

Proxied == \E p \in Proxies :
    \/ \E t \in Targets : ProxyTake(p, t)
    \/ ProxyArm(p) \/ ProxyDecide(p)

Next == ReadLoop \/ Proxied \/ Close \/ SentinelChanges

Spec == Init /\ [][Next]_vars

----------------------------------------------------------------------------
Authorisation == [epoch : 0..MaxEpoch, scope : Configs \cup {Empty}]

TypeOK ==
    /\ {reading, closed, configured, frameHalted, sentinel, stop} \subseteq BOOLEAN
    /\ committed \in Authorisation
    /\ epochCounter \in 0..MaxEpoch
    /\ limiter \in {None} \cup [budget : Nat \ {0}, issued : Nat]
    /\ loop \in [pc : {"read", "commit", "arm", "held", "gate", "http"},
                 auth : Authorisation, target : Targets \cup {None}, held : BOOLEAN]
    /\ proxy \in [Proxies -> [pc : {"idle", "arm", "decide"},
                              auth : Authorisation, target : Targets \cup {None}]]
    /\ granted \in [1..MaxEpoch -> Configs \cup {Empty}]
    /\ spent \in Nat
    /\ armer \in {None, "loop", "proxy"}
    /\ last \in {None} \cup [by : {"send", "reply", "proxy"}, epoch : 0..MaxEpoch,
                             target : Targets]

\* "An evidence line claiming authorisation from an epoch that never granted
\* it" (BridgeClient.java:338-341) does not happen: what leaves, and what a
\* reply is stamped with, is an epoch whose configuration allows the target,
\* whatever was committed, denied or closed while the request was on its way.
EpochGrantedIt ==
    last # None => /\ last.epoch \in 1..epochCounter
                   /\ last.target \in granted[last.epoch].targets

\* The budget of a run is handed out once, across configures, deny-alls and
\* all the threads that spend it (Limits.java:56-71).
SpentWithinBudget == spent > 0 => limiter # None /\ spent =< limiter.budget

\* An extension that was unloaded holds no authorisation, even when the close
\* came between a configure's guard and its commit (BridgeClient.java:312-320).
ClosedStaysDenied == closed => committed = DENIED /\ ~configured

\* A send taken under a hold that stands until it is decided is not issued,
\* whatever else changes in between (Sender.java:242-249).
HeldIsNotIssued == loop.pc = "http" => ~loop.held

\* "REFUSED, NOT IGNORED" (Limits.java:142-162): a configuration in force that
\* asks for a budget runs under that budget or none yet.
LimitsInForce ==
    limiter # None /\ committed.scope.budget \notin {Absent, Unusable} =>
        limiter.budget = committed.scope.budget

\* It holds when the read loop armed the limits, the thread that also commits.
LimitsInForceWhenLoopArmed == armer = "loop" => LimitsInForce
=============================================================================
