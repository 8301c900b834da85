------------------------------- MODULE Tools --------------------------------
(***************************************************************************)
(* `hx mcp`: one process that serves tool calls for a whole conversation,   *)
(* one at a time (hx.tools.dispatch, live, impl.run, impl.http, impl.scan,  *)
(* hx.issue), and holds a Burp open between them (hx.session).  Around it,  *)
(* other processes open and end runs, the operator halts, edits and amends  *)
(* the configuration, Burp dies, the process is stopped.                    *)
(***************************************************************************)
EXTENDS Engagement, Runs, FiniteSetsExt

CONSTANTS
    Statics,            \* identities whose credential is in the environment
    Minted,             \* the identities whose credential a command mints
    ScanIdentities,     \* what config.scan_identity may name, or "none"
    Plans,              \* the identities an http.send or replay_as goes through
    CallKinds,          \* the kinds of run a call may name
    Others,             \* and those another process opens
    Statuses,           \* how a run.finish may end one
    MaxRuns, MaxCalls, MaxMishaps, MaxGeneration

ASSUME ToolsAssumptions ==
    /\ Statics \cap Minted = {}
    /\ ScanIdentities \subseteq Statics \cup Minted \cup {"none"}
    /\ CallKinds \cup Others \subseteq Kinds
    /\ Statuses \subseteq Endings

Identities == Statics \cup Minted
Egress == {"manual", "scan", "crawl"}

VARIABLES
    runs,       \* the run table
    filed,      \* per run, and for no run at 0, the exchanges issue() recorded
    ctx,        \* ToolContext: the run bound, the run that opened the session,
                \* the identities it takes to be registered
    jvm,        \* its Burp: what the extension holds of each identity and
                \* what it was authorised with
    call,       \* the call being served
    log,        \* the last agent_action row, and the runs its call filed under
    halted,     \* the operator's halt
    count       \* calls, mishaps and credentials minted so far

tvars == <<runs, filed, ctx, jvm, call, log, halted, count>>
vars == <<evars, tvars>>

Nothing == [generation |-> 0, credential |-> 0]
NoBurp == [state |-> "none", holds |-> [i \in Identities |-> Nothing],
           version |-> 0, cfg |-> First]
FreshContext == [bound |-> 0, owner |-> 0, registered |-> {}]
NoCall == [pc |-> "idle", tool |-> "none", kind |-> "none", plan |-> <<>>, run |-> 0,
           read |-> FALSE, snap |-> {}, filedUnder |-> {}, identity |-> "none",
           resolved |-> Nothing, version |-> 0]

Init ==
    /\ EngagementInit
    /\ runs = <<>>
    /\ filed = [r \in 0..MaxRuns |-> 0]
    /\ ctx = FreshContext
    /\ jvm = NoBurp
    /\ call = NoCall
    /\ log = [filedUnder |-> {}, run |-> 0]
    /\ halted = FALSE
    /\ count = [calls |-> 0, mishaps |-> 0, minted |-> 0]

Mishap == /\ count.mishaps < MaxMishaps
          /\ count' = [count EXCEPT !.mishaps = @ + 1]
At(pc) == call.pc = pc
Goto(pc) == call' = [call EXCEPT !.pc = pc]
Answer == Goto("journal")

-----------------------------------------------------------------------------
(* Which run a call is about: the run bound, else the only one open.  The    *)
(* open runs are read once for a call, when they are first needed.           *)

MutantOpenRuns == Running(runs)
OpenRuns == IF call.read THEN call.snap ELSE Running(runs)
RunId == IF ctx.bound # 0 THEN ctx.bound
         ELSE IF Cardinality(OpenRuns) = 1 THEN Max(OpenRuns) ELSE 0
WhenRead == [call EXCEPT !.read = TRUE, !.snap = OpenRuns]
\* Only an unbound context goes to the store.
AfterRunId == IF ctx.bound # 0 THEN call ELSE WhenRead

-----------------------------------------------------------------------------
(* dispatch. *)

Tools == {"run.start", "run.finish", "http.send", "replay_as", "scan.run"}
HaltExempt == {"run.finish"}
NeedsEgress == {"http.send", "replay_as", "scan.run"}
FirstStep == [t \in Tools |->
    CASE t = "run.start" -> "look"
      [] t = "run.finish" -> "resolve"
      [] t = "scan.run" -> "enter"
      [] OTHER -> "register"]

KindsFor(tool) == CASE tool = "run.start" -> CallKinds
                    [] tool = "run.finish" -> CallKinds \cup {"none"}
                    [] OTHER -> {"none"}
PlansFor(tool) == CASE tool = "http.send" -> {p \in Plans : Len(p) = 1}
                    [] tool = "replay_as" -> Plans
                    [] OTHER -> {<<>>}

\* A call that is refused for its shape changes nothing and is not modelled.
Dispatch ==
    /\ opening.pc = "open" /\ At("idle")
    /\ count.calls < MaxCalls
    /\ count' = [count EXCEPT !.calls = @ + 1]
    /\ \E t \in Tools : \E k \in KindsFor(t), p \in PlansFor(t) :
          call' = [NoCall EXCEPT !.tool = t, !.kind = k, !.plan = p,
                     !.pc = IF \/ halted /\ t \notin HaltExempt
                               \/ t \in NeedsEgress /\ ctx.owner = 0
                              THEN "journal" ELSE FirstStep[t]]
    /\ UNCHANGED <<evars, runs, filed, ctx, jvm, log, halted>>

\* The row is written or the failure is logged; the call stands.
Journal ==
    /\ At("journal")
    /\ \/ log' = [filedUnder |-> call.filedUnder, run |-> RunId]
       \/ UNCHANGED log
    /\ call' = NoCall
    /\ UNCHANGED <<evars, runs, filed, ctx, jvm, halted, count>>

-----------------------------------------------------------------------------
(* run.start. *)

StartLooks ==
    /\ At("look")
    /\ IF LiveOf(runs, call.kind) # {} THEN Answer ELSE Goto("open")
    /\ UNCHANGED <<evars, runs, filed, ctx, jvm, log, halted, count>>

\* open_for: a kind that sends nothing, or a session that is held, ends here.
StartOpens ==
    LET r == Len(runs) + 1 IN
    /\ At("open") /\ r <= MaxRuns
    /\ runs' = OpenRun(runs, call.kind, 0)
    /\ ctx' = [ctx EXCEPT !.bound = r]
    /\ call' = [call EXCEPT !.run = r,
                  !.pc = IF call.kind \in Egress /\ ctx.owner = 0 THEN "scope" ELSE "journal"]
    /\ UNCHANGED <<evars, filed, jvm, log, halted, count>>

\* stored_scope_sha256: the hash of the version recorded last.
ReadScope ==
    /\ At("scope")
    /\ call' = [call EXCEPT !.version = Len(scopes), !.pc = "launch"]
    /\ UNCHANGED <<evars, runs, filed, ctx, jvm, log, halted, count>>

Launch ==
    /\ At("launch")
    /\ jvm' = [NoBurp EXCEPT !.state = "live"]
    /\ Goto("configure")
    /\ UNCHANGED <<evars, runs, filed, ctx, log, halted, count>>

\* The boundary is the one this process loaded when it started.
Configure ==
    /\ At("configure") /\ jvm.state = "live"
    /\ jvm' = [jvm EXCEPT !.version = call.version, !.cfg = opening.cfg]
    /\ Goto("check")
    /\ UNCHANGED <<evars, runs, filed, ctx, log, halted, count>>

\* The bridge does not start, the handshake does not complete or configure is
\* refused: session() kills what it launched.
LaunchFails ==
    /\ call.pc \in {"launch", "configure"}
    /\ jvm' = NoBurp
    /\ Answer
    /\ UNCHANGED <<evars, runs, filed, ctx, log, halted, count>>

Forgotten == {}

CheckAlive ==
    /\ At("check")
    /\ IF jvm.state = "live"
         THEN ctx' = [ctx EXCEPT !.owner = call.run, !.registered = Forgotten] /\ UNCHANGED jvm
         ELSE jvm' = NoBurp /\ UNCHANGED ctx
    /\ Answer
    /\ UNCHANGED <<evars, runs, filed, log, halted, count>>

-----------------------------------------------------------------------------
(* run.finish. *)

FinishResolves ==
    LET ofKind == {r \in OpenRuns : runs[r].kind = call.kind}
        r == IF call.kind = "none" THEN RunId
             ELSE IF ofKind = {} THEN 0 ELSE Min(ofKind)
    IN
    /\ At("resolve")
    /\ call' = [IF call.kind = "none" /\ ctx.bound # 0 THEN call ELSE WhenRead EXCEPT
                  !.run = r, !.pc = IF r = 0 THEN "journal" ELSE "close"]
    /\ UNCHANGED <<evars, runs, filed, ctx, jvm, log, halted, count>>

FinishCloses ==
    /\ At("close")
    /\ \E e \in Statuses : runs' = CloseRun(runs, call.run, e, "agent")
    /\ Goto("free")
    /\ UNCHANGED <<evars, filed, ctx, jvm, log, halted, count>>

\* close_for, for the run that opened the session: the bookkeeping goes
\* whatever the teardown does.
MutantTornDown == UNCHANGED jvm
TornDown == jvm' = NoBurp
Unbound == IF ctx.bound = call.run THEN 0 ELSE ctx.bound

FinishFrees ==
    /\ At("free")
    /\ IF ctx.owner = call.run
         THEN /\ TornDown
              /\ \E b \in {Unbound, ctx.bound} :     \* or the teardown raises
                    ctx' = [bound |-> b, owner |-> 0, registered |-> Forgotten]
         ELSE ctx' = [ctx EXCEPT !.bound = Unbound] /\ UNCHANGED jvm
    /\ Answer
    /\ UNCHANGED <<evars, runs, filed, log, halted, count>>

-----------------------------------------------------------------------------
(* The extension's identity registry: a generation that goes back is         *)
(* refused, one that does not advance changes nothing.                       *)
Refuses(held, new) == new.generation < held.generation
Holding(held, new) == IF new.generation > held.generation THEN new ELSE held
RegisterOn(b, i, new) == [b EXCEPT !.holds[i] = Holding(@, new)]

(* http.send and replay_as: every identity is registered, then one request   *)
(* is issued after the other.                                                *)
Unregistered == {n \in DOMAIN call.plan :
                    call.plan[n] # "none" /\ call.plan[n] \notin ctx.registered}
InEnvironment == [generation |-> 1, credential |-> 0]

Register ==
    LET i == call.plan[Min(Unregistered)] IN
    /\ At("register") /\ Unregistered # {}
    /\ IF i \in Statics /\ jvm.state = "live" /\ ~Refuses(jvm.holds[i], InEnvironment)
         THEN /\ jvm' = RegisterOn(jvm, i, InEnvironment)
              /\ ctx' = [ctx EXCEPT !.registered = @ \cup {i}]
              /\ UNCHANGED call
         ELSE Answer /\ UNCHANGED <<jvm, ctx>>
    /\ UNCHANGED <<evars, runs, filed, log, halted, count>>

Registered ==
    /\ At("register") /\ Unregistered = {}
    /\ Goto("send")
    /\ UNCHANGED <<evars, runs, filed, ctx, jvm, log, halted, count>>

\* The run is settled before the request leaves.  The bridge looks at the
\* durable halt first, and only a live Burp answers.
Send ==
    /\ At("send") /\ ~halted /\ jvm.state = "live"
    /\ call' = [AfterRunId EXCEPT !.run = RunId, !.pc = "file"]
    /\ UNCHANGED <<evars, runs, filed, ctx, jvm, log, halted, count>>

OneSent == IF Len(call.plan) = 1
             THEN [call EXCEPT !.plan = <<>>, !.pc = "journal"]
             ELSE [call EXCEPT !.plan = Tail(@), !.pc = "send"]

\* Refused, lost or timed out: no row.
SendRefused ==
    /\ At("send")
    /\ call' = [OneSent EXCEPT !.read = @ \/ ctx.bound = 0, !.snap = AfterRunId.snap]
    /\ UNCHANGED <<evars, runs, filed, ctx, jvm, log, halted, count>>

\* The blobs, then the row, the run's counter and the surface in one
\* transaction.
File ==
    /\ At("file")
    /\ filed' = [filed EXCEPT ![call.run] = @ + 1]
    /\ runs' = IF call.run = 0 THEN runs ELSE CountRequest(runs, call.run)
    /\ call' = [OneSent EXCEPT !.filedUnder = @ \cup {call.run}]
    /\ UNCHANGED <<evars, ctx, jvm, log, halted, count>>

FileFails ==
    /\ At("file")
    /\ Mishap
    /\ Answer
    /\ UNCHANGED <<evars, runs, filed, ctx, jvm, log, halted>>

-----------------------------------------------------------------------------
(* scan.run, as far as the session and the run table go: what a scan does    *)
(* between is Scan's.                                                        *)

ScanEnters ==
    /\ At("enter")
    /\ \E enabled \in BOOLEAN :       \* some check is
          call' = [WhenRead EXCEPT
            !.pc = IF enabled /\ \E r \in OpenRuns : runs[r].kind = "scan"
                     THEN "join" ELSE "journal"]
    /\ UNCHANGED <<evars, runs, filed, ctx, jvm, log, halted, count>>

\* current_run in one step: it joins the latest scan run, unless that has been
\* idle for too long.
ScanJoins ==
    LET live == LiveOf(runs, "scan") IN
    /\ At("join")
    /\ \/ /\ live # {}
          /\ call' = [call EXCEPT !.run = Max(live), !.pc = "resolve identity"]
          /\ UNCHANGED runs
       \/ /\ Len(runs) < MaxRuns
          /\ runs' = OpenRun(IF live = {} THEN runs
                             ELSE CloseRun(runs, Max(live), "completed", "idle"), "scan", 0)
          /\ call' = [call EXCEPT !.run = Len(runs) + 1, !.pc = "resolve identity"]
    /\ UNCHANGED <<evars, filed, ctx, jvm, log, halted, count>>

\* A credential from the environment, or one minted for this scan.
ScanResolves ==
    /\ At("resolve identity")
    /\ \E i \in ScanIdentities :
          IF i \in Minted
            THEN /\ count' = [count EXCEPT !.minted = @ + 1]
                 /\ call' = [call EXCEPT !.identity = i, !.pc = "scan register",
                     !.resolved = [generation |-> 1, credential |-> count.minted + 1]]
            ELSE /\ call' = [call EXCEPT !.identity = i, !.resolved = InEnvironment,
                     !.pc = IF i = "none" THEN "scanning" ELSE "scan register"]
                 /\ UNCHANGED count
    /\ UNCHANGED <<evars, runs, filed, ctx, jvm, log, halted>>

ScanUnresolved ==
    /\ At("resolve identity") /\ ScanIdentities # {"none"}
    /\ Goto("scan fails")
    /\ UNCHANGED <<evars, runs, filed, ctx, jvm, log, halted, count>>

ScanRegisters ==
    /\ At("scan register")
    /\ IF jvm.state = "live" /\ ~Refuses(jvm.holds[call.identity], call.resolved)
         THEN jvm' = RegisterOn(jvm, call.identity, call.resolved) /\ Goto("scanning")
         ELSE UNCHANGED jvm /\ Goto("scan fails")
    /\ UNCHANGED <<evars, runs, filed, ctx, log, halted, count>>

\* A canary failed: another credential, at the next generation.
ScanRefreshes ==
    /\ At("scanning") /\ call.identity \in Minted
    /\ call.resolved.generation < MaxGeneration
    /\ count' = [count EXCEPT !.minted = @ + 1]
    /\ call' = [call EXCEPT !.pc = "scan register",
                  !.resolved = [generation |-> @.generation + 1,
                                credential |-> count.minted + 1]]
    /\ UNCHANGED <<evars, runs, filed, ctx, jvm, log, halted>>

\* The scan closes the run it joined.
ScanEnds ==
    /\ call.pc \in {"scanning", "scan fails"}
    /\ \E e \in {"error"} \cup (IF At("scanning") THEN {"completed"} ELSE {}) :
          runs' = CloseRun(runs, call.run, e, "scan")
    /\ Answer
    /\ UNCHANGED <<evars, filed, ctx, jvm, log, halted, count>>

-----------------------------------------------------------------------------
(* What happens around it. *)

\* Another process opens a run by current_run, or ends one: an abort, a stop,
\* the reaper.
OthersOpen ==
    /\ Len(runs) < MaxRuns
    /\ Mishap
    /\ \E k \in Others :
          /\ LiveOf(runs, k) = {}
          /\ runs' = OpenRun(runs, k, 0)
    /\ UNCHANGED <<evars, filed, ctx, jvm, call, log, halted>>

OthersEnd ==
    /\ Mishap
    /\ \E r \in Running(runs) : runs' = EndRuns(runs, {r}, "aborted", "outside")
    /\ UNCHANGED <<evars, filed, ctx, jvm, call, log, halted>>

BurpDies ==
    /\ jvm.state = "live"
    /\ Mishap
    /\ jvm' = [jvm EXCEPT !.state = "dead"]
    /\ UNCHANGED <<evars, runs, filed, ctx, call, log, halted>>

OperatorHalts ==
    /\ Mishap
    /\ halted' = ~halted
    /\ UNCHANGED <<evars, runs, filed, ctx, jvm, call, log>>

\* The client closes the pipe, or a signal arrives: the stack unwinds, and a
\* scan closes its run on the way out.
Exit ==
    /\ opening.pc = "open"
    /\ Mishap
    /\ runs' = IF call.tool = "scan.run" /\ call.run # 0
                 THEN CloseRun(runs, call.run, "error", "scan") ELSE runs
    /\ TornDown
    /\ ctx' = FreshContext
    /\ call' = NoCall
    /\ opening' = NotOpen
    /\ UNCHANGED <<file, scopes, edits, amending, filed, log, halted>>

RunStart == StartLooks \/ StartOpens \/ ReadScope \/ Launch \/ Configure \/ LaunchFails
            \/ CheckAlive
RunFinish == FinishResolves \/ FinishCloses \/ FinishFrees
Issue == Register \/ Registered \/ Send \/ SendRefused \/ File \/ FileFails
ScanRun == ScanEnters \/ ScanJoins \/ ScanResolves \/ ScanUnresolved \/ ScanRegisters \/ ScanRefreshes
           \/ ScanEnds
Outside == OthersOpen \/ OthersEnd \/ BurpDies \/ OperatorHalts \/ Exit

Next ==
    \/ Dispatch \/ RunStart \/ RunFinish \/ Issue \/ ScanRun \/ Journal
    \/ Outside
    \/ EngagementNext /\ UNCHANGED tvars

Spec == Init /\ [][Next]_vars
-----------------------------------------------------------------------------
(* The context's account of its Burp is right.  One that lives is the        *)
(* session's or is being brought up, and only one at a time is: a call that  *)
(* fails, a Burp that dies early or a process that is stopped leaves none    *)
(* behind (session.session, live.open_for, close_for).  And the identities   *)
(* it takes to be registered, this Burp holds (live.ensure_identity).        *)
SessionIsOurs ==
    /\ jvm.state = "live" => ctx.owner # 0 \/ call.pc \in {"configure", "check"}
    /\ At("launch") => jvm.state = "none"
    /\ jvm.state = "live" =>
          \A i \in ctx.registered : jvm.holds[i].generation >= InEnvironment.generation

(* The exchanges a call files, and its own row in agent_action, name one     *)
(* run, while others open and end runs (ToolContext.open_runs).  The rows of *)
(* the checks are not meant: scan.run files them under the scan run that     *)
(* current_run gives it, whatever else is bound or open.                     *)
OneResolution == log.filedUnder \subseteq {log.run}

(* The record comes first.  A file hx wrote holds a recorded version, also   *)
(* when the process dies between the row and the file; and the extension was *)
(* authorised for a configuration that had been recorded when the session    *)
(* looked, unless the file was changed while the process was comparing it    *)
(* (engagement.record_scope_version, open_).                                 *)
RecordedFirst ==
    /\ file.byHx => \E v \in DOMAIN scopes : scopes[v] = file.cfg
    /\ jvm.version # 0 /\ ~opening.torn =>
          \E v \in 1..jvm.version : scopes[v] = jvm.cfg

(* What a session is authorised for is what the hash it was given stands for *)
(* (session.stored_scope_sha256).                                            *)
AuthorisedIsRecorded == jvm.version # 0 => scopes[jvm.version] = jvm.cfg

(* While a session is held, some run.finish frees it (live._held).           *)
Closable == (IF RunId = 0 THEN {} ELSE {RunId})
            \cup {Min(LiveOf(runs, k)) : k \in {k \in Kinds : LiveOf(runs, k) # {}}}
SessionCanBeFreed == ctx.owner # 0 /\ At("idle") => ctx.owner \in Closable

(* A scan's traffic carries the credential the scan resolved                 *)
(* (identity.resolve).                                                       *)
ScanCarriesItsCredential ==
    At("scanning") /\ call.identity # "none" /\ jvm.state = "live" =>
        jvm.holds[call.identity].credential = call.resolved.credential

(* What is issued hangs off a run (tools.impl.run).                          *)
EveryExchangeHasARun == filed[0] = 0
=============================================================================
