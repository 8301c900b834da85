---------------------------- MODULE ToolsProofs -----------------------------
(***************************************************************************)
(* The tool server, for any identities, plans, kinds, configurations and    *)
(* numbers of runs, calls and mishaps: what a call files and its own row    *)
(* name one run, the session's account of its Burp is right, and the record *)
(* comes before the file and the authorisation.                             *)
(***************************************************************************)
EXTENDS Tools, SequenceTheorems, TLAPS

\* What the records have, whatever they hold.
Shape ==
    /\ DOMAIN call = {"pc", "tool", "kind", "plan", "run", "read", "snap",
                      "filedUnder", "identity", "resolved", "version"}
    /\ DOMAIN ctx = {"bound", "owner", "registered"}
    /\ DOMAIN jvm = {"state", "holds", "version", "cfg"}
    /\ DOMAIN count = {"calls", "mishaps", "minted"}

LEMMA ShapeInit == Init => Shape
  BY DEF Init, Shape, NoCall, FreshContext, NoBurp

LEMMA ShapeStep == Shape /\ [Next]_vars => Shape'
  <1> SUFFICES ASSUME Shape, [Next]_vars PROVE Shape'
    OBVIOUS
  <1> USE DEF Shape
  <1>1. CASE Dispatch
    BY <1>1 DEF Dispatch, NoCall
  <1>2. CASE RunStart
    <2>1. CASE StartLooks
      BY <2>1 DEF StartLooks, Answer, Goto
    <2>2. CASE StartOpens
      BY <2>2 DEF StartOpens
    <2>3. CASE ReadScope
      BY <2>3 DEF ReadScope
    <2>4. CASE Launch
      BY <2>4 DEF Launch, Goto, NoBurp
    <2>5. CASE Configure
      BY <2>5 DEF Configure, Goto
    <2>6. CASE LaunchFails
      BY <2>6 DEF LaunchFails, Answer, Goto, NoBurp
    <2>7. CASE CheckAlive
      BY <2>7 DEF CheckAlive, Answer, Goto, NoBurp
    <2>8. QED
      BY <1>2, <2>1, <2>2, <2>3, <2>4, <2>5, <2>6, <2>7 DEF RunStart
  <1>3. CASE RunFinish
    <2>1. CASE FinishResolves
      BY <2>1 DEF FinishResolves, WhenRead
    <2>2. CASE FinishCloses
      BY <2>2 DEF FinishCloses, Goto
    <2>3. CASE FinishFrees
      BY <2>3 DEF FinishFrees, Answer, Goto, TornDown, NoBurp
    <2>4. QED
      BY <1>3, <2>1, <2>2, <2>3 DEF RunFinish
  <1>4. CASE Issue
    <2>1. CASE Register
      BY <2>1 DEF Register, RegisterOn, Answer, Goto
    <2>2. CASE Registered
      BY <2>2 DEF Registered, Goto
    <2>3. CASE Send
      BY <2>3 DEF Send, AfterRunId, WhenRead
    <2>4. CASE SendRefused
      BY <2>4 DEF SendRefused, OneSent
    <2>5. CASE File
      BY <2>5 DEF File, OneSent
    <2>6. CASE FileFails
      BY <2>6 DEF FileFails, Answer, Goto, Mishap
    <2>7. QED
      BY <1>4, <2>1, <2>2, <2>3, <2>4, <2>5, <2>6 DEF Issue
  <1>5. CASE ScanRun
    <2>1. CASE ScanEnters
      BY <2>1 DEF ScanEnters, WhenRead
    <2>2. CASE ScanJoins
      BY <2>2 DEF ScanJoins
    <2>3. CASE ScanResolves
      BY <2>3 DEF ScanResolves
    <2>4. CASE ScanUnresolved
      BY <2>4 DEF ScanUnresolved, Goto
    <2>5. CASE ScanRegisters
      BY <2>5 DEF ScanRegisters, RegisterOn, Goto
    <2>6. CASE ScanRefreshes
      BY <2>6 DEF ScanRefreshes
    <2>7. CASE ScanEnds
      BY <2>7 DEF ScanEnds, Answer, Goto
    <2>8. QED
      BY <1>5, <2>1, <2>2, <2>3, <2>4, <2>5, <2>6, <2>7 DEF ScanRun
  <1>6. CASE Journal
    BY <1>6 DEF Journal, NoCall
  <1>7. CASE Outside
    <2>1. CASE OthersOpen \/ OthersEnd \/ BurpDies \/ OperatorHalts
      BY <2>1 DEF OthersOpen, OthersEnd, BurpDies, OperatorHalts, Mishap
    <2>2. CASE Exit
      BY <2>2 DEF Exit, TornDown, FreshContext, NoCall, NoBurp, Mishap
    <2>3. QED
      BY <1>7, <2>1, <2>2 DEF Outside
  <1>8. CASE UNCHANGED tvars
    BY <1>8 DEF tvars
  <1>9. QED
    BY <1>1, <1>2, <1>3, <1>4, <1>5, <1>6, <1>7, <1>8 DEF Next, vars
-----------------------------------------------------------------------------
(* Every exchange and the row of its call under one run. *)

\* The call has an answer to which run it is about that nobody changes.
Settled == ctx.bound # 0 \/ call.read

OneRun ==
    /\ ~ (call.pc \in {"send", "file", "journal"}) => call.filedUnder = {}
    /\ call.filedUnder # {} => Settled
    /\ call.filedUnder \subseteq {RunId}
    /\ At("file") => Settled /\ call.run = RunId
    /\ OneResolution

\* Nothing filed yet.
LEMMA EmptyCall ==
    ASSUME OneRun, call'.filedUnder = {}, call'.pc # "file", log' = log
    PROVE  OneRun'
  BY DEF OneRun, At, OneResolution

\* A settled answer stays, whatever becomes of the run table.
LEMMA SettledStays ==
    ASSUME Settled, ctx'.bound = ctx.bound,
           \/ ctx.bound # 0
           \/ call'.read /\ call'.snap = OpenRuns
    PROVE  Settled' /\ RunId' = RunId
  BY DEF Settled, RunId, OpenRuns

LEMMA NobodysCall ==
    ASSUME OneRun, UNCHANGED <<ctx, call, log>>
    PROVE  OneRun'
  <1>1. CASE Settled
    <2>1. ctx.bound # 0 \/ (call'.read /\ call'.snap = OpenRuns)
      BY <1>1 DEF Settled, OpenRuns
    <2>2. Settled' /\ RunId' = RunId
      BY <1>1, <2>1, SettledStays
    <2>3. QED
      BY <2>2 DEF OneRun, At, OneResolution
  <1>2. CASE ~Settled
    BY <1>2 DEF OneRun, At, OneResolution
  <1>3. QED
    BY <1>1, <1>2

LEMMA SendOneRun ==
    ASSUME Shape, OneRun, Send
    PROVE  OneRun'
  <1>1. /\ call'.filedUnder = call.filedUnder /\ call'.pc = "file"
        /\ call'.run = RunId /\ UNCHANGED <<ctx, log>>
        /\ ctx.bound = 0 => call'.read /\ call'.snap = OpenRuns
    BY DEF Shape, Send, AfterRunId, WhenRead
  <1>2. RunId' = RunId /\ Settled'
    BY <1>1 DEF RunId, OpenRuns, Settled
  <1>3. QED
    BY <1>1, <1>2 DEF OneRun, At, OneResolution

LEMMA SendRefusedOneRun ==
    ASSUME Shape, OneRun, SendRefused
    PROVE  OneRun'
  <1>1. /\ call'.filedUnder = call.filedUnder /\ call'.pc \in {"send", "journal"}
        /\ UNCHANGED <<ctx, log>>
        /\ ctx.bound = 0 => call'.read /\ call'.snap = OpenRuns
    <2>1. /\ DOMAIN OneSent = DOMAIN call /\ OneSent.filedUnder = call.filedUnder
          /\ OneSent.pc \in {"send", "journal"}
      BY DEF Shape, OneSent, SendRefused, At
    <2>2. ctx.bound = 0 => AfterRunId.snap = OpenRuns
      BY DEF Shape, AfterRunId, WhenRead
    <2>3. QED
      BY <2>1, <2>2 DEF Shape, SendRefused
  <1>2. RunId' = RunId /\ Settled'
    BY <1>1 DEF RunId, OpenRuns, Settled
  <1>3. QED
    BY <1>1, <1>2 DEF OneRun, At, OneResolution

LEMMA FileOneRun ==
    ASSUME Shape, OneRun, File
    PROVE  OneRun'
  <1>1. /\ call'.filedUnder = call.filedUnder \cup {call.run}
        /\ call'.pc \in {"send", "journal"}
        /\ call'.read = call.read /\ call'.snap = call.snap
        /\ UNCHANGED <<ctx, log>>
    <2>1. /\ DOMAIN OneSent = DOMAIN call /\ OneSent.filedUnder = call.filedUnder
          /\ OneSent.pc \in {"send", "journal"} \/ OneSent.pc = call.pc
          /\ OneSent.read = call.read /\ OneSent.snap = call.snap
          /\ OneSent.pc \in {"send", "journal"}
      BY DEF Shape, OneSent
    <2>2. QED
      BY <2>1 DEF Shape, File
  <1>2. Settled /\ call.run = RunId
    BY DEF OneRun, File
  <1>3. ctx.bound # 0 \/ (call'.read /\ call'.snap = OpenRuns)
    BY <1>1, <1>2 DEF Settled, OpenRuns
  <1>4. RunId' = RunId /\ Settled'
    BY <1>1, <1>2, <1>3, SettledStays
  <1>5. QED
    BY <1>1, <1>2, <1>4 DEF OneRun, At, OneResolution
LEMMA OneRunStep == Shape /\ OneRun /\ [Next]_vars => OneRun'
  <1> SUFFICES ASSUME Shape, OneRun, [Next]_vars PROVE OneRun'
    OBVIOUS
  <1>e. \A p : call.pc = p /\ p \notin {"send", "file", "journal"}
            => call.filedUnder = {}
    BY DEF OneRun
  <1> USE DEF Shape
  <1>1. CASE Dispatch
    <2>1. call'.filedUnder = {} /\ call'.pc # "file" /\ log' = log
      BY <1>1 DEF Dispatch, NoCall, FirstStep, Tools
    <2>2. QED
      BY <2>1, EmptyCall
  <1>2. CASE RunStart
    <2>1. call'.filedUnder = call.filedUnder /\ call'.pc # "file" /\ log' = log
      BY ZenonT(60), <1>2 DEF RunStart, StartLooks, StartOpens, ReadScope, Launch, Configure,
                  LaunchFails, CheckAlive, Answer, Goto, At
    <2>2. call.filedUnder = {}
      BY <1>2, <1>e DEF RunStart, StartLooks, StartOpens, ReadScope, Launch, Configure,
                  LaunchFails, CheckAlive, At
    <2>3. QED
      BY <2>1, <2>2, EmptyCall
  <1>3. CASE RunFinish
    <2>1. call'.filedUnder = call.filedUnder /\ call'.pc # "file" /\ log' = log
      <3>1. CASE FinishResolves
        BY <3>1 DEF FinishResolves, WhenRead
      <3>2. CASE FinishCloses \/ FinishFrees
        BY <3>2 DEF FinishCloses, FinishFrees, Answer, Goto
      <3>3. QED
        BY <1>3, <3>1, <3>2 DEF RunFinish
    <2>2. call.filedUnder = {}
      BY <1>3, <1>e DEF RunFinish, FinishResolves, FinishCloses, FinishFrees, At
    <2>3. QED
      BY <2>1, <2>2, EmptyCall
  <1>4. CASE Issue
    <2>1. CASE Register \/ Registered
      <3>1. call'.filedUnder = call.filedUnder /\ call'.pc # "file" /\ log' = log
        BY <2>1 DEF Register, Registered, Answer, Goto, At
      <3>2. call.filedUnder = {}
        BY <2>1, <1>e DEF Register, Registered, At
      <3>3. QED
        BY <3>1, <3>2, EmptyCall
    <2>2. CASE FileFails
      <3>1. /\ UNCHANGED <<ctx, runs, log>> /\ call'.pc = "journal"
            /\ call'.filedUnder = call.filedUnder
            /\ call'.read = call.read /\ call'.snap = call.snap
        BY <2>2 DEF FileFails, Answer, Goto
      <3>2. (RunId' = RunId) /\ (Settled' <=> Settled)
        BY <3>1 DEF RunId, OpenRuns, Settled
      <3>3. QED
        BY <3>1, <3>2 DEF OneRun, At, OneResolution
    <2>3. QED
      BY <1>4, <2>1, <2>2, SendOneRun, SendRefusedOneRun, FileOneRun DEF Issue
  <1>5. CASE ScanRun
    <2>1. call'.filedUnder = call.filedUnder /\ call'.pc # "file" /\ log' = log
      <3>1. CASE ScanEnters
        BY <3>1 DEF ScanEnters, WhenRead
      <3>2. CASE ScanJoins
        BY <3>2 DEF ScanJoins
      <3>3. CASE ScanResolves \/ ScanUnresolved \/ ScanRegisters
        BY ZenonT(60), <3>3 DEF ScanResolves, ScanUnresolved, ScanRegisters, Goto, At
      <3>4. CASE ScanRefreshes \/ ScanEnds
        BY <3>4 DEF ScanRefreshes, ScanEnds, Answer, Goto
      <3>5. QED
        BY <1>5, <3>1, <3>2, <3>3, <3>4 DEF ScanRun
    <2>2. call.filedUnder = {}
      BY <1>5, <1>e DEF ScanRun, ScanEnters, ScanJoins, ScanResolves, ScanUnresolved,
                  ScanRegisters, ScanRefreshes, ScanEnds, At
    <2>3. QED
      BY <2>1, <2>2, EmptyCall
  <1>6. CASE Journal
    <2>1. call'.filedUnder = {} /\ call'.pc = "idle"
      BY <1>6 DEF Journal, NoCall
    <2>2. OneResolution'
      BY <1>6 DEF Journal, OneRun, OneResolution
    <2>3. QED
      BY <2>1, <2>2 DEF OneRun, At
  <1>7. CASE Outside
    <2>1. CASE Exit
      <3>1. call'.filedUnder = {} /\ call'.pc = "idle" /\ log' = log
        BY <2>1 DEF Exit, NoCall
      <3>2. QED
        BY <3>1, EmptyCall
    <2>2. CASE OthersOpen \/ OthersEnd \/ BurpDies \/ OperatorHalts
      BY <2>2, NobodysCall DEF OthersOpen, OthersEnd, BurpDies, OperatorHalts
    <2>3. QED
      BY <1>7, <2>1, <2>2 DEF Outside
  <1>8. CASE UNCHANGED tvars
    BY <1>8, NobodysCall DEF tvars
  <1>9. QED
    BY <1>1, <1>2, <1>3, <1>4, <1>5, <1>6, <1>7, <1>8 DEF Next, vars

\* The exchanges a call files, and the row of the call itself, name the same run,
\* while others open and end runs (ToolContext.open_runs).
THEOREM OneRunPerCall == Spec => []OneResolution
  <1>1. Init => Shape /\ OneRun
    <2>1. Init => OneRun
      BY DEF Init, OneRun, NoCall, At, OneResolution
    <2>2. QED
      BY <2>1, ShapeInit
  <1>2. (Shape /\ OneRun) /\ [Next]_vars => (Shape /\ OneRun)'
    BY ShapeStep, OneRunStep
  <1>3. Shape /\ OneRun => OneResolution
    BY DEF OneRun
  <1>4. QED
    BY <1>1, <1>2, <1>3, PTL DEF Spec
-----------------------------------------------------------------------------
(* The session and its Burp. *)

Held == [generation : Nat, credential : Nat]

\* What the registry is told, and what it holds.
Credentials ==
    /\ jvm.holds \in [Identities -> Held]
    /\ call.resolved \in Held
    /\ count.minted \in Nat

LEMMA CredentialsInit == Init => Credentials
  BY DEF Init, Credentials, Held, NoCall, NoBurp, Nothing

LEMMA RegisterOnHolds ==
    ASSUME Shape, Credentials, NEW i, NEW new \in Held
    PROVE  /\ RegisterOn(jvm, i, new).holds \in [Identities -> Held]
           /\ \A j \in Identities :
                 RegisterOn(jvm, i, new).holds[j].generation >= jvm.holds[j].generation
           /\ i \in Identities =>
                 RegisterOn(jvm, i, new).holds[i].generation >= new.generation
           /\ RegisterOn(jvm, i, new).state = jvm.state
           /\ RegisterOn(jvm, i, new).version = jvm.version
           /\ RegisterOn(jvm, i, new).cfg = jvm.cfg
  <1>1. jvm.holds \in [Identities -> Held]
    BY DEF Credentials
  <1> DEFINE hs == [jvm.holds EXCEPT ![i] = Holding(jvm.holds[i], new)]
             b == RegisterOn(jvm, i, new)
  <1>2. /\ b.holds = hs /\ b.state = jvm.state /\ b.version = jvm.version
        /\ b.cfg = jvm.cfg
    BY DEF RegisterOn, Shape
  <1>3. ASSUME NEW held \in Held
        PROVE  /\ Holding(held, new) \in Held
               /\ Holding(held, new).generation >= held.generation
               /\ Holding(held, new).generation >= new.generation
    BY DEF Holding, Held
  <1>4. \A j \in Identities : jvm.holds[j].generation \in Nat /\ jvm.holds[j] \in Held
    BY <1>1 DEF Held
  <1>5. hs \in [Identities -> Held]
    BY <1>1, <1>3
  <1>6. \A j \in Identities : hs[j].generation >= jvm.holds[j].generation
    BY <1>1, <1>3, <1>4
  <1>7. i \in Identities => hs[i].generation >= new.generation
    BY <1>1, <1>3
  <1>8. QED
    BY <1>2, <1>5, <1>6, <1>7
LEMMA CredentialsStep == Shape /\ Credentials /\ [Next]_vars => Credentials'
  <1> SUFFICES ASSUME Shape, Credentials, [Next]_vars PROVE Credentials'
    OBVIOUS
  <1> USE DEF Shape
  <1> DEFINE Same == UNCHANGED <<jvm, count>> /\ call'.resolved = call.resolved
  <1>s. Same => Credentials'
    BY DEF Credentials
  <1>n. NoBurp.holds \in [Identities -> Held] /\ NoCall.resolved \in Held
    BY DEF NoBurp, NoCall, Nothing, Held
  <1>m. Mishap => count'.minted = count.minted
    BY DEF Mishap
  <1>1. CASE Dispatch
    BY <1>1, <1>n DEF Dispatch, NoCall, Credentials
  <1>2. CASE RunStart
    <2>1. CASE StartLooks \/ StartOpens \/ ReadScope
      BY <2>1, <1>s DEF StartLooks, StartOpens, ReadScope, Answer, Goto
    <2>2. CASE Launch
      BY <2>2, <1>n DEF Launch, Goto, Credentials, NoBurp
    <2>3. CASE Configure
      BY <2>3 DEF Configure, Goto, Credentials
    <2>4. CASE LaunchFails
      BY <2>4, <1>n DEF LaunchFails, Answer, Goto, Credentials
    <2>5. CASE CheckAlive
      BY <2>5, <1>n DEF CheckAlive, Answer, Goto, Credentials
    <2>6. QED
      BY <1>2, <2>1, <2>2, <2>3, <2>4, <2>5 DEF RunStart
  <1>3. CASE RunFinish
    <2>1. CASE FinishResolves
      BY <2>1, <1>s DEF FinishResolves, WhenRead
    <2>2. CASE FinishCloses
      BY <2>2, <1>s DEF FinishCloses, Goto
    <2>3. CASE FinishFrees
      BY <2>3, <1>n DEF FinishFrees, Answer, Goto, TornDown, Credentials
    <2>4. QED
      BY <1>3, <2>1, <2>2, <2>3 DEF RunFinish
  <1>4. CASE Issue
    <2>1. CASE Register
      <3>1. call'.resolved = call.resolved /\ count' = count
        BY <2>1 DEF Register, Answer, Goto
      <3>2. InEnvironment \in Held
        BY DEF InEnvironment, Held
      <3>3. \/ jvm' = jvm
            \/ \E i : jvm' = RegisterOn(jvm, i, InEnvironment)
        BY <2>1 DEF Register
      <3>4. QED
        BY <3>1, <3>2, <3>3, RegisterOnHolds DEF Credentials
    <2>2. CASE Registered
      BY <2>2, <1>s DEF Registered, Goto
    <2>3. CASE Send
      BY <2>3, <1>s DEF Send, AfterRunId, WhenRead
    <2>4. CASE SendRefused
      BY <2>4, <1>s DEF SendRefused, OneSent
    <2>5. CASE File
      BY <2>5, <1>s DEF File, OneSent
    <2>6. CASE FileFails
      BY <2>6, <1>m DEF FileFails, Answer, Goto, Credentials
    <2>7. QED
      BY <1>4, <2>1, <2>2, <2>3, <2>4, <2>5, <2>6 DEF Issue
  <1>5. CASE ScanRun
    <2>1. CASE ScanEnters
      BY <2>1, <1>s DEF ScanEnters, WhenRead
    <2>2. CASE ScanJoins
      BY <2>2, <1>s DEF ScanJoins
    <2>3. CASE ScanResolves
      <3>1. jvm' = jvm /\ count'.minted \in Nat
        <4>1. \/ count' = [count EXCEPT !.minted = @ + 1]
              \/ count' = count
          BY <2>3 DEF ScanResolves
        <4>2. jvm' = jvm
          BY <2>3 DEF ScanResolves
        <4>3. QED
          BY <4>1, <4>2 DEF Credentials
      <3>2. /\ InEnvironment \in Held
            /\ [generation |-> 1, credential |-> count.minted + 1] \in Held
        BY DEF InEnvironment, Held, Credentials
      <3>3. call'.resolved \in Held
        BY <2>3, <3>2 DEF ScanResolves
      <3>4. QED
        BY <3>1, <3>3 DEF Credentials
    <2>4. CASE ScanUnresolved \/ ScanEnds
      BY <2>4, <1>s DEF ScanUnresolved, ScanEnds, Answer, Goto
    <2>5. CASE ScanRegisters
      <3>1. call'.resolved = call.resolved /\ count' = count
        BY <2>5 DEF ScanRegisters, Goto
      <3>2. \/ jvm' = jvm
            \/ \E i : jvm' = RegisterOn(jvm, i, call.resolved)
        BY <2>5 DEF ScanRegisters
      <3>3. QED
        BY <3>1, <3>2, RegisterOnHolds DEF Credentials
    <2>6. CASE ScanRefreshes
      <3>1. jvm' = jvm /\ count'.minted \in Nat
        BY <2>6 DEF ScanRefreshes, Credentials
      <3>2. [generation |-> call.resolved.generation + 1,
             credential |-> count.minted + 1] \in Held
        BY DEF Held, Credentials
      <3>3. call'.resolved \in Held
        BY <2>6, <3>2 DEF ScanRefreshes
      <3>4. QED
        BY <3>1, <3>3 DEF Credentials
    <2>7. QED
      BY <1>5, <2>1, <2>2, <2>3, <2>4, <2>5, <2>6 DEF ScanRun
  <1>6. CASE Journal
    BY <1>6, <1>n DEF Journal, Credentials
  <1>7. CASE Outside
    <2>1. CASE OthersOpen \/ OthersEnd \/ OperatorHalts
      BY <2>1, <1>m DEF OthersOpen, OthersEnd, OperatorHalts, Credentials
    <2>2. CASE BurpDies
      BY <2>2, <1>m DEF BurpDies, Credentials
    <2>3. CASE Exit
      BY <2>3, <1>m, <1>n DEF Exit, TornDown, Credentials
    <2>4. QED
      BY <1>7, <2>1, <2>2, <2>3 DEF Outside
  <1>8. CASE UNCHANGED tvars
    BY <1>8 DEF tvars, Credentials
  <1>9. QED
    BY <1>1, <1>2, <1>3, <1>4, <1>5, <1>6, <1>7, <1>8 DEF Next, vars
-----------------------------------------------------------------------------
(* The run table stays one, so that a new run has a number. *)
RunsTyped ==
    /\ runs \in Seq(RunRow)
    /\ call.pc \in {"look", "open"} => call.kind \in Kinds

\* A table whose rows are changed in place is a table.
LEMMA InPlace ==
    ASSUME NEW rs \in Seq(RunRow), NEW f \in [DOMAIN rs -> RunRow]
    PROVE  f \in Seq(RunRow)
  <1>1. DOMAIN rs = 1..Len(rs) /\ Len(rs) \in Nat
    BY LenProperties
  <1>2. QED
    BY <1>1, SeqDef

LEMMA CountingKeepsTable ==
    ASSUME runs \in Seq(RunRow), NEW r
    PROVE  CountRequest(runs, r) \in Seq(RunRow)
  <1>1. /\ \A q \in DOMAIN runs : runs[q] \in RunRow /\ runs[q].issued \in Nat
        /\ runs \in [DOMAIN runs -> RunRow]
    <2>1. \A q \in DOMAIN runs : runs[q] \in RunRow
      BY ElementOfSeq, LenProperties
    <2>2. QED
      BY <2>1, LenProperties DEF RunRow
  <1>2. \A q \in DOMAIN runs : [runs[q] EXCEPT !.issued = @ + 1] \in RunRow
    <2>1. \A q \in DOMAIN runs : runs[q].issued + 1 \in Nat
      BY <1>1
    <2>2. QED
      BY <1>1, <2>1 DEF RunRow
  <1>3. CountRequest(runs, r) \in [DOMAIN runs -> RunRow]
    BY <1>1, <1>2 DEF CountRequest
  <1>4. QED
    BY <1>3, InPlace

LEMMA EndRunsKeepsTable ==
    ASSUME NEW rs \in Seq(RunRow), NEW ids, NEW status \in Endings, NEW why \in Causes
    PROVE  EndRuns(rs, ids, status, why) \in Seq(RunRow)
  <1>1. \A q \in DOMAIN rs : rs[q] \in RunRow
    BY ElementOfSeq, LenProperties
  <1>2. EndRuns(rs, ids, status, why) \in [DOMAIN rs -> RunRow]
    BY <1>1 DEF EndRuns, Running, RunRow
  <1>3. QED
    BY <1>2, InPlace

LEMMA EndingKeepsTable ==
    ASSUME NEW rs \in Seq(RunRow), NEW r, NEW status \in Endings, NEW why \in Causes
    PROVE  CloseRun(rs, r, status, why) \in Seq(RunRow)
  BY EndRunsKeepsTable DEF CloseRun

LEMMA OpeningKeepsTable ==
    ASSUME NEW rs \in Seq(RunRow), NEW kind \in Kinds
    PROVE  OpenRun(rs, kind, 0) \in Seq(RunRow)
  <1>1. NewRun(kind, 0) \in RunRow
    BY DEF NewRun, RunRow, Causes
  <1>2. QED
    BY <1>1, AppendProperties DEF OpenRun

LEMMA RunsStep == Shape /\ RunsTyped /\ [Next]_vars => RunsTyped'
  <1> SUFFICES ASSUME Shape, RunsTyped, [Next]_vars PROVE RunsTyped'
    OBVIOUS
  <1> USE DEF Shape
  <1>s. ASSUME runs' = runs, call'.pc \notin {"look", "open"} PROVE RunsTyped'
    BY <1>s DEF RunsTyped
  <1>t. ASSUME runs' \in Seq(RunRow), call'.pc \notin {"look", "open"}
        PROVE  RunsTyped'
    BY <1>t DEF RunsTyped
  <1>o. ASSUME NEW kind \in Kinds, NEW rs \in Seq(RunRow)
        PROVE  OpenRun(rs, kind, 0) \in Seq(RunRow)
    BY OpeningKeepsTable
  <1>1. CASE Dispatch
    <2>1. PICK t \in Tools : \E k \in KindsFor(t), p \in PlansFor(t) :
            call' = [NoCall EXCEPT !.tool = t, !.kind = k, !.plan = p,
                     !.pc = IF \/ halted /\ t \notin HaltExempt
                               \/ t \in NeedsEgress /\ ctx.owner = 0
                              THEN "journal" ELSE FirstStep[t]]
      BY <1>1 DEF Dispatch
    <2>2. PICK k \in KindsFor(t), p \in PlansFor(t) :
            call' = [NoCall EXCEPT !.tool = t, !.kind = k, !.plan = p,
                     !.pc = IF \/ halted /\ t \notin HaltExempt
                               \/ t \in NeedsEgress /\ ctx.owner = 0
                              THEN "journal" ELSE FirstStep[t]]
      BY <2>1
    <2>3. call'.pc \in {"look", "open"} => t = "run.start"
      BY <2>2 DEF FirstStep, Tools, NoCall
    <2>4. call'.kind = k /\ runs' = runs
      BY <1>1, <2>2 DEF Dispatch, NoCall
    <2>5. t = "run.start" => k \in Kinds
      BY ToolsAssumptions DEF KindsFor
    <2>6. QED
      BY <2>3, <2>4, <2>5 DEF RunsTyped
  <1>2. CASE RunStart
    <2>1. CASE StartLooks
      BY <2>1 DEF StartLooks, Answer, Goto, RunsTyped, At
    <2>2. CASE StartOpens
      <3>1. runs' = OpenRun(runs, call.kind, 0) /\ call'.pc \in {"scope", "journal"}
        BY <2>2 DEF StartOpens
      <3>2. call.kind \in Kinds /\ runs \in Seq(RunRow)
        BY <2>2 DEF StartOpens, At, RunsTyped
      <3>3. QED
        BY <3>1, <3>2, <1>o, <1>t
    <2>3. CASE ReadScope \/ Launch \/ Configure \/ LaunchFails \/ CheckAlive
      BY <2>3, <1>s DEF ReadScope, Launch, Configure, LaunchFails, CheckAlive, Answer, Goto
    <2>4. QED
      BY <1>2, <2>1, <2>2, <2>3 DEF RunStart
  <1>3. CASE RunFinish
    <2>1. CASE FinishResolves
      <3>1. runs' = runs /\ call'.pc \in {"journal", "close"}
        BY <2>1 DEF FinishResolves, WhenRead
      <3>2. QED
        BY <3>1, <1>s
    <2>2. CASE FinishCloses
      <3>1. PICK e \in Statuses : runs' = CloseRun(runs, call.run, e, "agent")
        BY <2>2 DEF FinishCloses
      <3>2. e \in Endings /\ "agent" \in Causes /\ call'.pc = "free"
        BY <2>2, ToolsAssumptions DEF FinishCloses, Goto, Causes
      <3>3. runs' \in Seq(RunRow)
        BY <3>1, <3>2, EndingKeepsTable DEF RunsTyped
      <3>4. QED
        BY <3>2, <3>3, <1>t
    <2>3. CASE FinishFrees
      BY <2>3, <1>s DEF FinishFrees, Answer, Goto
    <2>4. QED
      BY <1>3, <2>1, <2>2, <2>3 DEF RunFinish
  <1>4. CASE Issue
    <2>1. CASE Register \/ Registered
      BY <2>1, <1>s DEF Register, Registered, Answer, Goto, At
    <2>2. CASE Send
      BY <2>2, <1>s DEF Send, AfterRunId, WhenRead
    <2>3. CASE SendRefused
      BY <2>3, <1>s DEF SendRefused, OneSent, At
    <2>4. CASE File
      <3>1. call'.pc \in {"journal", "send"}
        BY <2>4 DEF File, OneSent
      <3>2. runs' \in Seq(RunRow)
        BY <2>4, CountingKeepsTable DEF File, RunsTyped
      <3>3. QED
        BY <3>1, <3>2, <1>t
    <2>5. CASE FileFails
      BY <2>5, <1>s DEF FileFails, Answer, Goto
    <2>6. QED
      BY <1>4, <2>1, <2>2, <2>3, <2>4, <2>5 DEF Issue
  <1>5. CASE ScanRun
    <2>1. CASE ScanEnters
      BY <2>1, <1>s DEF ScanEnters, WhenRead
    <2>2. CASE ScanJoins
      <3>1. call'.pc = "resolve identity"
        BY <2>2 DEF ScanJoins
      <3>2. \/ runs' = runs
            \/ runs' = OpenRun(runs, "scan", 0)
            \/ \E r : runs' = OpenRun(CloseRun(runs, r, "completed", "idle"), "scan", 0)
        BY <2>2 DEF ScanJoins
      <3>3. \A r : CloseRun(runs, r, "completed", "idle") \in Seq(RunRow)
        BY EndingKeepsTable DEF RunsTyped, Endings, Causes
      <3>4. "scan" \in Kinds /\ runs \in Seq(RunRow)
        BY DEF Kinds, RunsTyped
      <3>5. runs' \in Seq(RunRow)
        BY <3>2, <3>3, <3>4, <1>o
      <3>6. QED
        BY <3>1, <3>5, <1>t
    <2>3. CASE ScanResolves
      <3>1. runs' = runs /\ call'.pc \in {"scanning", "scan register"}
        BY <2>3 DEF ScanResolves
      <3>2. QED
        BY <3>1, <1>s
    <2>4. CASE ScanUnresolved \/ ScanRegisters \/ ScanRefreshes
      BY <2>4, <1>s DEF ScanUnresolved, ScanRegisters, ScanRefreshes, Goto
    <2>5. CASE ScanEnds
      <3>1. call'.pc = "journal"
        BY <2>5 DEF ScanEnds, Answer, Goto
      <3>2. PICK e \in {"error", "completed"} : runs' = CloseRun(runs, call.run, e, "scan")
        BY <2>5 DEF ScanEnds
      <3>3. runs' \in Seq(RunRow)
        BY <3>2, EndingKeepsTable DEF RunsTyped, Endings, Causes
      <3>4. QED
        BY <3>1, <3>3, <1>t
    <2>6. QED
      BY <1>5, <2>1, <2>2, <2>3, <2>4, <2>5 DEF ScanRun
  <1>6. CASE Journal
    BY <1>6, <1>s DEF Journal, NoCall
  <1>7. CASE Outside
    <2>1. CASE OthersOpen
      <3>1. PICK k \in Others : runs' = OpenRun(runs, k, 0)
        BY <2>1 DEF OthersOpen
      <3>2. k \in Kinds /\ call' = call
        BY <2>1, ToolsAssumptions DEF OthersOpen
      <3>3. QED
        BY <3>1, <3>2, <1>o DEF RunsTyped
    <2>2. CASE OthersEnd
      <3>1. PICK r : runs' = EndRuns(runs, {r}, "aborted", "outside")
        BY <2>2 DEF OthersEnd
      <3>2. call' = call /\ "aborted" \in Endings /\ "outside" \in Causes
        BY <2>2 DEF OthersEnd, Endings, Causes
      <3>3. QED
        BY <3>1, <3>2, EndRunsKeepsTable DEF RunsTyped
    <2>3. CASE BurpDies \/ OperatorHalts
      BY <2>3 DEF BurpDies, OperatorHalts, RunsTyped
    <2>4. CASE Exit
      <3>1. call'.pc = "idle"
        BY <2>4 DEF Exit, NoCall
      <3>2. runs' = runs \/ runs' = CloseRun(runs, call.run, "error", "scan")
        BY <2>4 DEF Exit
      <3>3. runs' \in Seq(RunRow)
        BY <3>2, EndingKeepsTable DEF RunsTyped, Endings, Causes
      <3>4. QED
        BY <3>1, <3>3, <1>t
    <2>5. QED
      BY <1>7, <2>1, <2>2, <2>3, <2>4 DEF Outside
  <1>8. CASE UNCHANGED tvars
    BY <1>8 DEF tvars, RunsTyped
  <1>9. QED
    BY <1>1, <1>2, <1>3, <1>4, <1>5, <1>6, <1>7, <1>8 DEF Next, vars
-----------------------------------------------------------------------------
(* Who holds the Burp.  Without a session nothing is taken to be registered  *)
(* and no Burp is up but the one being configured.                           *)
HeldByUs ==
    /\ ctx.owner = 0 =>
          /\ ctx.registered = {}
          /\ jvm.state = "none" \/ call.pc \in {"configure", "check"}
    /\ call.pc \in {"scope", "launch", "configure", "check"} =>
          ctx.owner = 0 /\ call.run # 0
    /\ At("register") => ctx.owner # 0
    /\ jvm.state = "live" =>
          \A i \in ctx.registered : i \in Identities /\ jvm.holds[i].generation >= 1

BringUp == {"scope", "launch", "configure", "check"}

\* Nobody touches the session.
LEMMA SessionUntouched ==
    ASSUME HeldByUs, UNCHANGED <<ctx, jvm>>,
           call.pc \notin {"configure", "check"},
           call'.pc \notin BringUp,
           call'.pc = "register" => ctx.owner # 0
    PROVE  HeldByUs'
  BY DEF HeldByUs, BringUp, At

\* There is none.
LEMMA NoSession ==
    ASSUME ctx'.owner = 0, ctx'.registered = {}, jvm'.state = "none",
           call'.pc \notin BringUp \cup {"register"}
    PROVE  HeldByUs'
  BY DEF HeldByUs, BringUp, At

LEMMA HeldStep ==
    Shape /\ Credentials /\ RunsTyped /\ HeldByUs /\ [Next]_vars => HeldByUs'
  <1> SUFFICES ASSUME Shape, Credentials, RunsTyped, HeldByUs, [Next]_vars
               PROVE  HeldByUs'
    OBVIOUS
  <1> USE DEF Shape
  <1>n. NoBurp.state = "none" /\ NoCall.pc = "idle"
    BY DEF NoBurp, NoCall
  <1>1. CASE Dispatch
    <2>1. PICK t \in Tools : \E k \in KindsFor(t), p \in PlansFor(t) :
            call' = [NoCall EXCEPT !.tool = t, !.kind = k, !.plan = p,
                     !.pc = IF \/ halted /\ t \notin HaltExempt
                               \/ t \in NeedsEgress /\ ctx.owner = 0
                              THEN "journal" ELSE FirstStep[t]]
      BY <1>1 DEF Dispatch
    <2>2. call'.pc = IF \/ halted /\ t \notin HaltExempt
                        \/ t \in NeedsEgress /\ ctx.owner = 0
                       THEN "journal" ELSE FirstStep[t]
      BY <2>1 DEF NoCall
    <2>3. FirstStep[t] \in {"look", "resolve", "enter", "register"}
      BY DEF FirstStep, Tools
    <2>4. FirstStep[t] = "register" => t \in NeedsEgress
      BY DEF FirstStep, Tools, NeedsEgress
    <2>5. /\ call'.pc \notin BringUp
          /\ call'.pc = "register" => ctx.owner # 0
      BY <2>2, <2>3, <2>4 DEF BringUp
    <2>6. call.pc = "idle" /\ UNCHANGED <<ctx, jvm>>
      BY <1>1 DEF Dispatch, At
    <2>7. QED
      BY <2>5, <2>6, SessionUntouched
  <1>2. CASE RunStart
    <2>1. CASE StartLooks
      BY <2>1, SessionUntouched DEF StartLooks, Answer, Goto, At, BringUp
    <2>2. CASE StartOpens
      <3>1. /\ UNCHANGED jvm /\ ctx'.owner = ctx.owner /\ ctx'.registered = ctx.registered
            /\ call'.run = Len(runs) + 1 /\ call.pc = "open"
            /\ call'.pc = "journal" \/ (call'.pc = "scope" /\ ctx.owner = 0)
        BY <2>2 DEF StartOpens, At
      <3>2. Len(runs) + 1 # 0
        BY LenProperties DEF RunsTyped
      <3>3. QED
        BY <3>1, <3>2 DEF HeldByUs, At
    <2>3. CASE ReadScope
      <3>1. /\ UNCHANGED <<ctx, jvm>> /\ call.pc = "scope" /\ call'.pc = "launch"
            /\ call'.run = call.run
        BY <2>3 DEF ReadScope, At
      <3>2. QED
        BY <3>1 DEF HeldByUs, At
    <2>4. CASE Launch
      <3>1. /\ UNCHANGED ctx /\ call.pc = "launch" /\ call'.pc = "configure"
            /\ call'.run = call.run
        BY <2>4 DEF Launch, Goto, At
      <3>2. ctx.owner = 0 /\ ctx.registered = {} /\ call.run # 0
        BY <3>1 DEF HeldByUs
      <3>3. QED
        BY <3>1, <3>2 DEF HeldByUs, At
    <2>5. CASE Configure
      <3>1. /\ UNCHANGED ctx /\ call.pc = "configure" /\ call'.pc = "check"
            /\ call'.run = call.run
        BY <2>5 DEF Configure, Goto, At
      <3>2. ctx.owner = 0 /\ ctx.registered = {} /\ call.run # 0
        BY <3>1 DEF HeldByUs
      <3>3. QED
        BY <3>1, <3>2 DEF HeldByUs, At
    <2>6. CASE LaunchFails
      <3>1. /\ UNCHANGED ctx /\ call.pc \in {"launch", "configure"}
            /\ call'.pc = "journal" /\ jvm' = NoBurp
        BY <2>6 DEF LaunchFails, Answer, Goto
      <3>2. ctx.owner = 0 /\ ctx.registered = {}
        BY <3>1 DEF HeldByUs
      <3>3. QED
        BY <3>1, <3>2, <1>n, NoSession DEF BringUp
    <2>7. CASE CheckAlive
      <3>1. /\ call.pc = "check" /\ call'.pc = "journal"
            /\ ctx.owner = 0 /\ ctx.registered = {} /\ call.run # 0
        BY <2>7 DEF CheckAlive, Answer, Goto, At, HeldByUs
      <3>2. CASE jvm.state = "live"
        <4>1. ctx'.owner = call.run /\ ctx'.registered = {}
          BY <2>7, <3>2 DEF CheckAlive, Forgotten
        <4>2. QED
          BY <3>1, <4>1 DEF HeldByUs, At
      <3>3. CASE jvm.state # "live"
        <4>1. jvm' = NoBurp /\ ctx' = ctx
          BY <2>7, <3>3 DEF CheckAlive
        <4>2. QED
          BY <3>1, <4>1, <1>n, NoSession DEF BringUp
      <3>4. QED
        BY <3>2, <3>3
    <2>8. QED
      BY <1>2, <2>1, <2>2, <2>3, <2>4, <2>5, <2>6, <2>7 DEF RunStart
  <1>3. CASE RunFinish
    <2>1. CASE FinishResolves
      <3>1. /\ UNCHANGED <<ctx, jvm>> /\ call.pc = "resolve"
            /\ call'.pc \in {"journal", "close"}
        BY <2>1 DEF FinishResolves, WhenRead, At
      <3>2. QED
        BY <3>1, SessionUntouched DEF BringUp
    <2>2. CASE FinishCloses
      BY <2>2, SessionUntouched DEF FinishCloses, Goto, At, BringUp
    <2>3. CASE FinishFrees
      <3>1. call.pc = "free" /\ call'.pc = "journal"
        BY <2>3 DEF FinishFrees, Answer, Goto, At
      <3>2. CASE ctx.owner = call.run
        <4>1. jvm' = NoBurp /\ ctx'.owner = 0 /\ ctx'.registered = {}
          BY <2>3, <3>2 DEF FinishFrees, TornDown, Forgotten
        <4>2. QED
          BY <3>1, <4>1, <1>n, NoSession DEF BringUp
      <3>3. CASE ctx.owner # call.run
        <4>1. /\ jvm' = jvm /\ ctx'.owner = ctx.owner
              /\ ctx'.registered = ctx.registered
          BY <2>3, <3>3 DEF FinishFrees
        <4>2. QED
          BY <3>1, <4>1 DEF HeldByUs, At
      <3>4. QED
        BY <3>2, <3>3
    <2>4. QED
      BY <1>3, <2>1, <2>2, <2>3 DEF RunFinish
  <1>4. CASE Issue
    <2>1. CASE Register
      <3>1. call.pc = "register" /\ ctx.owner # 0
        BY <2>1 DEF Register, At, HeldByUs
      <3>2. CASE call'.pc = "journal" /\ UNCHANGED <<jvm, ctx>>
        BY <3>1, <3>2, SessionUntouched DEF BringUp
      <3>3. ASSUME NEW i \in Statics, jvm.state = "live",
                   jvm' = RegisterOn(jvm, i, InEnvironment),
                   ctx' = [ctx EXCEPT !.registered = @ \cup {i}], call' = call
            PROVE  HeldByUs'
        <4>1. InEnvironment \in Held /\ InEnvironment.generation = 1
          BY DEF InEnvironment, Held
        <4>2. i \in Identities
          BY DEF Identities
        <4>3. /\ jvm'.holds[i].generation >= 1
              /\ \A j \in Identities :
                    jvm'.holds[j].generation >= jvm.holds[j].generation
          BY <3>3, <4>1, <4>2, RegisterOnHolds
        <4>4. ctx'.owner # 0 /\ ctx'.registered = ctx.registered \cup {i}
          BY <3>1, <3>3
        <4>5. \A j \in ctx.registered : j \in Identities /\ jvm.holds[j].generation >= 1
          BY <3>3 DEF HeldByUs
        <4>6. \A j \in Identities :
                 jvm'.holds[j].generation \in Nat /\ jvm.holds[j].generation \in Nat
          BY <3>3, <4>1, RegisterOnHolds DEF Credentials, Held
        <4>7. \A j \in ctx'.registered :
                 j \in Identities /\ jvm'.holds[j].generation >= 1
          BY <4>2, <4>3, <4>4, <4>5, <4>6
        <4>8. QED
          BY <3>1, <3>3, <4>4, <4>7 DEF HeldByUs, At
      <3>4. QED
        BY <2>1, <3>2, <3>3 DEF Register, Answer, Goto
    <2>2. CASE Registered
      BY <2>2, SessionUntouched DEF Registered, Goto, At, BringUp
    <2>3. CASE Send
      <3>1. UNCHANGED <<ctx, jvm>> /\ call.pc = "send" /\ call'.pc = "file"
        BY <2>3 DEF Send, AfterRunId, WhenRead, At
      <3>2. QED
        BY <3>1, SessionUntouched DEF BringUp
    <2>4. CASE SendRefused
      <3>1. /\ UNCHANGED <<ctx, jvm>> /\ call.pc = "send"
            /\ call'.pc \in {"send", "journal"}
        BY <2>4 DEF SendRefused, OneSent, At
      <3>2. QED
        BY <3>1, SessionUntouched DEF BringUp
    <2>5. CASE File
      <3>1. /\ UNCHANGED <<ctx, jvm>> /\ call.pc = "file"
            /\ call'.pc \in {"send", "journal"}
        BY <2>5 DEF File, OneSent, At
      <3>2. QED
        BY <3>1, SessionUntouched DEF BringUp
    <2>6. CASE FileFails
      BY <2>6, SessionUntouched DEF FileFails, Answer, Goto, At, BringUp
    <2>7. QED
      BY <1>4, <2>1, <2>2, <2>3, <2>4, <2>5, <2>6 DEF Issue
  <1>5. CASE ScanRun
    <2>1. CASE ScanRegisters
      <3>1. /\ ctx' = ctx /\ call.pc = "scan register"
            /\ call'.pc \in {"scanning", "scan fails"}
        BY <2>1 DEF ScanRegisters, Goto, At
      <3>2. CASE jvm' = jvm
        BY <3>1, <3>2, SessionUntouched DEF BringUp
      <3>3. CASE \E i : jvm' = RegisterOn(jvm, i, call.resolved)
        <4>1. call.resolved \in Held
          BY DEF Credentials
        <4>2. /\ jvm'.state = jvm.state
              /\ \A j \in Identities :
                    /\ jvm'.holds[j].generation >= jvm.holds[j].generation
                    /\ jvm'.holds[j].generation \in Nat
                    /\ jvm.holds[j].generation \in Nat
          BY <3>3, <4>1, RegisterOnHolds DEF Credentials, Held
        <4>3. ASSUME jvm'.state = "live"
              PROVE  \A i \in ctx'.registered :
                        i \in Identities /\ jvm'.holds[i].generation >= 1
          <5>1. \A i \in ctx.registered :
                   i \in Identities /\ jvm.holds[i].generation >= 1
            BY <4>2, <4>3 DEF HeldByUs
          <5>2. ASSUME NEW i \in ctx.registered
                PROVE  i \in Identities /\ jvm'.holds[i].generation >= 1
            <6>1. i \in Identities /\ jvm.holds[i].generation >= 1
              BY <5>1
            <6>2. /\ jvm'.holds[i].generation >= jvm.holds[i].generation
                  /\ jvm'.holds[i].generation \in Nat
                  /\ jvm.holds[i].generation \in Nat
              BY <4>2, <6>1
            <6>3. QED
              BY <6>1, <6>2
          <5>3. QED
            BY <3>1, <5>2
        <4>4. ctx.owner = 0 => ctx.registered = {} /\ jvm.state = "none"
          BY <3>1 DEF HeldByUs
        <4>5. QED
          BY <3>1, <4>2, <4>3, <4>4 DEF HeldByUs, At
      <3>4. QED
        BY <2>1, <3>2, <3>3 DEF ScanRegisters
    <2>2. CASE ScanEnters
      <3>1. /\ UNCHANGED <<ctx, jvm>> /\ call.pc = "enter"
            /\ call'.pc \in {"join", "journal"}
        BY <2>2 DEF ScanEnters, WhenRead, At
      <3>2. QED
        BY <3>1, SessionUntouched DEF BringUp
    <2>3. CASE ScanJoins
      <3>1. /\ UNCHANGED <<ctx, jvm>> /\ call.pc = "join"
            /\ call'.pc = "resolve identity"
        BY <2>3 DEF ScanJoins, At
      <3>2. QED
        BY <3>1, SessionUntouched DEF BringUp
    <2>4. CASE ScanResolves
      <3>1. /\ UNCHANGED <<ctx, jvm>> /\ call.pc = "resolve identity"
            /\ call'.pc \in {"scanning", "scan register"}
        BY <2>4 DEF ScanResolves, At
      <3>2. QED
        BY <3>1, SessionUntouched DEF BringUp
    <2>5. CASE ScanUnresolved \/ ScanRefreshes \/ ScanEnds
      <3>1. /\ UNCHANGED <<ctx, jvm>>
            /\ call.pc \in {"resolve identity", "scanning", "scan fails"}
            /\ call'.pc \in {"scan fails", "scan register", "journal"}
        <4>1. CASE ScanUnresolved
          BY <4>1 DEF ScanUnresolved, Goto, At
        <4>2. CASE ScanRefreshes
          BY <4>2 DEF ScanRefreshes, At
        <4>3. CASE ScanEnds
          BY <4>3 DEF ScanEnds, Answer, Goto, At
        <4>4. QED
          BY <2>5, <4>1, <4>2, <4>3
      <3>2. QED
        BY <3>1, SessionUntouched DEF BringUp
    <2>6. QED
      BY <1>5, <2>1, <2>2, <2>3, <2>4, <2>5 DEF ScanRun
  <1>6. CASE Journal
    BY <1>6, <1>n, SessionUntouched DEF Journal, At, BringUp
  <1>7. CASE Outside
    <2>1. CASE OthersOpen \/ OthersEnd \/ OperatorHalts
      BY <2>1 DEF OthersOpen, OthersEnd, OperatorHalts, HeldByUs, At
    <2>2. CASE BurpDies
      <3>1. UNCHANGED <<ctx, call>> /\ jvm.state = "live" /\ jvm'.state = "dead"
        BY <2>2 DEF BurpDies
      <3>2. QED
        BY <3>1 DEF HeldByUs, At
    <2>3. CASE Exit
      <3>1. /\ ctx'.owner = 0 /\ ctx'.registered = {} /\ jvm' = NoBurp
            /\ call' = NoCall
        BY <2>3 DEF Exit, TornDown, FreshContext
      <3>2. QED
        BY <3>1, <1>n, NoSession DEF BringUp
    <2>4. QED
      BY <1>7, <2>1, <2>2, <2>3 DEF Outside
  <1>8. CASE UNCHANGED tvars
    BY <1>8 DEF tvars, HeldByUs, At
  <1>9. QED
    BY <1>1, <1>2, <1>3, <1>4, <1>5, <1>6, <1>7, <1>8 DEF Next, vars

\* The context's account of its Burp is right, whatever call fails, whenever
\* the Burp dies and wherever the process is stopped (live.open_for,
\* close_for, session.session).
THEOREM SessionHeld == Spec => []SessionIsOurs
  <1> DEFINE Inv == Shape /\ Credentials /\ RunsTyped /\ HeldByUs
  <1>1. Init => Inv
    <2>1. Init => RunsTyped
      BY EmptySeq DEF Init, RunsTyped, NoCall
    <2>2. Init => HeldByUs
      BY DEF Init, HeldByUs, NoCall, FreshContext, NoBurp, At
    <2>3. QED
      BY <2>1, <2>2, ShapeInit, CredentialsInit
  <1>2. Inv /\ [Next]_vars => Inv'
    BY ShapeStep, CredentialsStep, RunsStep, HeldStep
  <1>3. Inv => SessionIsOurs
    BY DEF HeldByUs, SessionIsOurs, At, InEnvironment
  <1> HIDE DEF Inv
  <1>4. QED
    BY <1>1, <1>2, <1>3, PTL DEF Spec
-----------------------------------------------------------------------------
(* The record comes first. *)

\* One of the first n scope versions says c.
Says(ss, n, c) == \E v \in 1..n : ss[v] = c

EvarTypes ==
    /\ scopes \in Seq(Configs) /\ Len(scopes) >= 1
    /\ DOMAIN file = {"cfg", "plain", "byHx"} /\ file.cfg \in Configs
    /\ DOMAIN amending = {"pc", "cfg"} /\ amending.cfg \in Configs
    /\ DOMAIN opening = {"pc", "cfg", "row", "torn"} /\ opening.torn \in BOOLEAN

\* Of the engagement alone.  The process that opens it has loaded what the
\* file says unless the file was changed under it, and what it compares the
\* file with is recorded.
RecordKept ==
    /\ EvarTypes
    /\ amending.pc = "file" => Says(scopes, Len(scopes), amending.cfg)
    /\ file.byHx => Says(scopes, Len(scopes), file.cfg)
    /\ Opening /\ ~opening.torn => opening.cfg = file.cfg
    /\ opening.pc = "compare" => Says(scopes, Len(scopes), opening.row)
    /\ opening.pc = "open" /\ ~opening.torn => Says(scopes, Len(scopes), opening.cfg)

\* What is said stays said.
LEMMA SaidStays ==
    ASSUME NEW ss \in Seq(Configs), NEW c \in Configs, NEW n \in Nat, n <= Len(ss), NEW d,
           Says(ss, n, d)
    PROVE  /\ Says(Append(ss, c), n, d)
           /\ Says(Append(ss, c), Len(ss) + 1, d)
  <1>1. PICK v \in 1..n : ss[v] = d
    BY DEF Says
  <1>2. Len(ss) \in Nat /\ v \in 1..Len(ss) /\ v \in 1..(Len(ss) + 1)
    BY LenProperties
  <1>3. Append(ss, c)[v] = d
    BY <1>1, <1>2, AppendProperties
  <1>4. QED
    BY <1>2, <1>3 DEF Says

LEMMA RecordInit == Init => RecordKept
  <1> SUFFICES ASSUME Init PROVE RecordKept
    OBVIOUS
  <1>1. scopes = <<First>> /\ scopes \in Seq(Configs) /\ Len(scopes) = 1 /\ scopes[1] = First
    BY FirstIsConfig DEF Init, EngagementInit
  <1>2. Says(scopes, Len(scopes), First)
    BY <1>1 DEF Says
  <1>3. /\ file = [cfg |-> First, plain |-> TRUE, byHx |-> TRUE]
        /\ amending = [pc |-> "idle", cfg |-> First]
        /\ opening = [pc |-> "closed", cfg |-> First, row |-> First, torn |-> FALSE]
    BY DEF Init, EngagementInit, NotOpen, NotAmending
  <1>4. QED
    BY <1>1, <1>2, <1>3, FirstIsConfig DEF RecordKept, EvarTypes, Opening

LEMMA RecordStep == RecordKept /\ EngagementNext => RecordKept'
  <1> SUFFICES ASSUME RecordKept, EngagementNext PROVE RecordKept'
    OBVIOUS
  <1>t. EvarTypes
    BY DEF RecordKept
  <1>1. CASE EditByHand
    <2>1. PICK text \in [cfg : Configs, plain : BOOLEAN] :
            file' = [cfg |-> text.cfg, plain |-> text.plain, byHx |-> FALSE]
      BY <1>1 DEF EditByHand
    <2>2. /\ DOMAIN file' = {"cfg", "plain", "byHx"} /\ file'.cfg \in Configs
          /\ ~file'.byHx /\ UNCHANGED <<scopes, amending>>
      BY <1>1, <2>1 DEF EditByHand
    <2>3. /\ DOMAIN opening' = DOMAIN opening /\ opening'.pc = opening.pc
          /\ opening'.cfg = opening.cfg /\ opening'.row = opening.row
          /\ opening'.torn = (opening.torn \/ Opening)
      BY <1>1, <1>t DEF EditByHand, EvarTypes
    <2>4. QED
      BY <2>2, <2>3 DEF RecordKept, EvarTypes, Opening
  <1>2. CASE AmendLooks
    BY <1>2 DEF AmendLooks, RecordKept, EvarTypes, Opening
  <1>3. CASE AmendRow
    <2>1. /\ scopes' = Append(scopes, amending.cfg) /\ UNCHANGED <<file, opening>>
          /\ amending'.cfg = amending.cfg /\ DOMAIN amending' = DOMAIN amending
      BY <1>3, <1>t DEF AmendRow, EvarTypes
    <2>2. /\ scopes' \in Seq(Configs) /\ Len(scopes') = Len(scopes) + 1
          /\ Len(scopes) \in Nat
          /\ scopes'[Len(scopes) + 1] = amending.cfg
      BY <1>t, <2>1, AppendProperties, LenProperties DEF EvarTypes
    <2>3. Says(scopes', Len(scopes'), amending.cfg)
      BY <2>2 DEF Says
    <2>4. ASSUME NEW d, Says(scopes, Len(scopes), d)
          PROVE  Says(scopes', Len(scopes'), d)
      BY <1>t, <2>1, <2>2, <2>4, SaidStays DEF EvarTypes
    <2>5. EvarTypes'
      BY <1>t, <2>1, <2>2 DEF EvarTypes
    <2>6. QED
      BY <2>1, <2>3, <2>4, <2>5 DEF RecordKept, Opening
  <1>4. CASE AmendFile
    <2>1. /\ file' = [cfg |-> amending.cfg, plain |-> TRUE, byHx |-> TRUE]
          /\ amending' = [pc |-> "idle", cfg |-> First] /\ scopes' = scopes
          /\ amending.pc = "file"
      BY <1>4 DEF AmendFile, NotAmending
    <2>2. /\ DOMAIN opening' = DOMAIN opening /\ opening'.pc = opening.pc
          /\ opening'.cfg = opening.cfg /\ opening'.row = opening.row
          /\ opening'.torn = (opening.torn \/ Opening)
      BY <1>4, <1>t DEF AmendFile, EvarTypes
    <2>3. QED
      BY <2>1, <2>2, FirstIsConfig DEF RecordKept, EvarTypes, Opening
  <1>5. CASE AmendDies
    BY <1>5, FirstIsConfig DEF AmendDies, NotAmending, RecordKept, EvarTypes, Opening
  <1>6. CASE OpenLoads
    <2>1. /\ opening' = [pc |-> "row", cfg |-> file.cfg, row |-> First, torn |-> FALSE]
          /\ UNCHANGED <<file, scopes, amending>>
      BY <1>6 DEF OpenLoads, NotOpen
    <2>2. QED
      BY <2>1 DEF RecordKept, EvarTypes, Opening
  <1>7. CASE OpenReadsRow
    <2>1. /\ DOMAIN opening' = DOMAIN opening /\ opening.pc = "row" /\ opening'.pc = "compare"
          /\ opening'.cfg = opening.cfg /\ opening'.torn = opening.torn
          /\ opening'.row = scopes[Len(scopes)]
          /\ UNCHANGED <<file, scopes, amending>>
      BY <1>7, <1>t DEF OpenReadsRow, EvarTypes, Recorded
    <2>2. Says(scopes, Len(scopes), scopes[Len(scopes)])
      <3>1. Len(scopes) \in 1..Len(scopes)
        BY <1>t, LenProperties DEF EvarTypes
      <3>2. QED
        BY <3>1 DEF Says
    <2>3. QED
      BY <2>1, <2>2 DEF RecordKept, EvarTypes, Opening
  <1>8. CASE OpenCompares
    <2>1. CASE Accepts(TextOf(file), opening.row)
      <3>1. opening' = [opening EXCEPT !.pc = "open"] /\ opening.pc = "compare"
            /\ UNCHANGED <<file, scopes, amending>>
        BY <1>8, <2>1 DEF OpenCompares
      <3>2. file.cfg = opening.row
        BY <2>1 DEF Accepts, TextOf, Dumped
      <3>3. QED
        BY <1>t, <3>1, <3>2 DEF RecordKept, EvarTypes, Opening
    <2>2. CASE ~Accepts(TextOf(file), opening.row)
      BY <1>8, <2>2 DEF OpenCompares, NotOpen, RecordKept, EvarTypes, Opening
    <2>3. QED
      BY <2>1, <2>2
  <1>9. QED
    BY <1>1, <1>2, <1>3, <1>4, <1>5, <1>6, <1>7, <1>8 DEF EngagementNext, Amend
\* What the process read of the record, and what the extension was told, was
\* recorded by then.
Authorised ==
    /\ call.version \in Nat /\ call.version <= Len(scopes)
    /\ jvm.version \in Nat /\ jvm.version <= Len(scopes)
    /\ call.pc # "idle" \/ call.version # 0 \/ jvm.version # 0 => opening.pc = "open"
    /\ call.version # 0 /\ ~opening.torn => Says(scopes, call.version, opening.cfg)
    /\ jvm.version # 0 /\ ~opening.torn => Says(scopes, jvm.version, jvm.cfg)

LEMMA AuthorisedInit == Init => Authorised
  <1> SUFFICES ASSUME Init PROVE Authorised
    OBVIOUS
  <1>1. Len(scopes) = 1
    BY DEF Init, EngagementInit
  <1>2. call.version = 0 /\ jvm.version = 0 /\ call.pc = "idle"
    BY DEF Init, NoCall, NoBurp
  <1>3. QED
    BY <1>1, <1>2 DEF Authorised

\* The process acts, and neither reads the record nor configures.
LEMMA NothingNew ==
    ASSUME Authorised, scopes \in Seq(Configs), UNCHANGED evars,
           opening.pc = "open" \/ call'.pc = "idle",
           call'.version \in {0, call.version},
           jvm'.version = 0 \/ (jvm'.version = jvm.version /\ jvm'.cfg = jvm.cfg)
    PROVE  Authorised'
  <1>1. UNCHANGED <<scopes, opening>> /\ Len(scopes) \in Nat
    BY LenProperties DEF evars
  <1>2. QED
    BY <1>1 DEF Authorised

LEMMA AuthorisedStep ==
    /\ Shape /\ Credentials /\ RecordKept /\ Authorised /\ [Next]_vars
    => Authorised'
  <1> SUFFICES ASSUME Shape, Credentials, RecordKept, Authorised, [Next]_vars
               PROVE  Authorised'
    OBVIOUS
  <1> USE DEF Shape
  <1>l. scopes \in Seq(Configs) /\ Len(scopes) \in Nat
    BY LenProperties DEF RecordKept, EvarTypes
  <1>n. NoBurp.version = 0 /\ NoCall.version = 0 /\ NoCall.pc = "idle"
    BY DEF NoBurp, NoCall
  <1>b. \A p : call.pc = p /\ p # "idle" => opening.pc = "open"
    BY DEF Authorised
  <1>1. CASE Dispatch
    <2>1. call'.version = 0 /\ opening.pc = "open" /\ UNCHANGED <<evars, jvm>>
      BY <1>1 DEF Dispatch, NoCall
    <2>2. QED
      BY <2>1, <1>l, NothingNew
  <1>2. CASE RunStart
    <2>1. CASE StartLooks \/ StartOpens
      <3>1. call'.version = call.version /\ opening.pc = "open" /\ UNCHANGED <<evars, jvm>>
        BY <2>1, <1>b DEF StartLooks, StartOpens, Answer, Goto, At
      <3>2. QED
        BY <3>1, <1>l, NothingNew
    <2>2. CASE ReadScope
      <3>1. /\ call'.version = Len(scopes) /\ opening.pc = "open"
            /\ UNCHANGED <<scopes, opening, jvm>>
        BY <2>2, <1>b DEF ReadScope, At, evars
      <3>2. ~opening.torn => Says(scopes, Len(scopes), opening.cfg)
        BY <3>1 DEF RecordKept
      <3>3. QED
        BY <3>1, <3>2, <1>l DEF Authorised
    <2>3. CASE Launch \/ LaunchFails
      <3>1. call'.version = call.version /\ opening.pc = "open" /\ UNCHANGED evars
        BY <2>3, <1>b DEF Launch, LaunchFails, Answer, Goto, At
      <3>2. jvm'.version = 0
        BY <2>3, <1>n DEF Launch, LaunchFails, NoBurp
      <3>3. QED
        BY <3>1, <3>2, <1>l, NothingNew
    <2>4. CASE Configure
      <3>1. /\ call'.version = call.version /\ opening.pc = "open"
            /\ UNCHANGED <<scopes, opening>>
            /\ jvm'.version = call.version /\ jvm'.cfg = opening.cfg
        BY <2>4, <1>b DEF Configure, Goto, At, evars
      <3>2. QED
        BY <3>1 DEF Authorised
    <2>5. CASE CheckAlive
      <3>1. call'.version = call.version /\ opening.pc = "open" /\ UNCHANGED evars
        BY <2>5, <1>b DEF CheckAlive, Answer, Goto, At
      <3>2. jvm'.version = 0 \/ jvm' = jvm
        BY <2>5, <1>n DEF CheckAlive
      <3>3. QED
        BY <3>1, <3>2, <1>l, NothingNew
    <2>6. QED
      BY <1>2, <2>1, <2>2, <2>3, <2>4, <2>5 DEF RunStart
  <1>3. CASE RunFinish
    <2>1. call'.version = call.version /\ opening.pc = "open" /\ UNCHANGED evars
      <3>1. CASE FinishResolves
        BY <3>1, <1>b DEF FinishResolves, WhenRead, At
      <3>2. CASE FinishCloses \/ FinishFrees
        BY <3>2, <1>b DEF FinishCloses, FinishFrees, Answer, Goto, At
      <3>3. QED
        BY <1>3, <3>1, <3>2 DEF RunFinish
    <2>2. jvm'.version = 0 \/ jvm' = jvm
      BY <1>3, <1>n DEF RunFinish, FinishResolves, FinishCloses, FinishFrees, TornDown
    <2>3. QED
      BY <2>1, <2>2, <1>l, NothingNew
  <1>4. CASE Issue
    <2>1. call'.version = call.version /\ opening.pc = "open" /\ UNCHANGED evars
      <3>1. CASE Register \/ Registered \/ FileFails
        BY <3>1, <1>b DEF Register, Registered, FileFails, Answer, Goto, At
      <3>2. CASE Send
        BY <3>2, <1>b DEF Send, AfterRunId, WhenRead, At
      <3>3. CASE SendRefused \/ File
        BY <3>3, <1>b DEF SendRefused, File, OneSent, At
      <3>4. QED
        BY <1>4, <3>1, <3>2, <3>3 DEF Issue
    <2>2. jvm'.version = jvm.version /\ jvm'.cfg = jvm.cfg
      BY <1>4 DEF Issue, Register, Registered, Send, SendRefused, File, FileFails,
                  RegisterOn
    <2>3. QED
      BY <2>1, <2>2, <1>l, NothingNew
  <1>5. CASE ScanRun
    <2>1. call'.version = call.version /\ opening.pc = "open" /\ UNCHANGED evars
      <3>1. CASE ScanEnters
        BY <3>1, <1>b DEF ScanEnters, WhenRead, At
      <3>2. CASE ScanJoins
        BY <3>2, <1>b DEF ScanJoins, At
      <3>3. CASE ScanResolves
        BY <3>3, <1>b DEF ScanResolves, At
      <3>4. CASE ScanUnresolved \/ ScanRegisters \/ ScanRefreshes
        BY <3>4, <1>b DEF ScanUnresolved, ScanRegisters, ScanRefreshes, Goto, At
      <3>5. CASE ScanEnds
        BY <3>5, <1>b DEF ScanEnds, Answer, Goto, At
      <3>6. QED
        BY <1>5, <3>1, <3>2, <3>3, <3>4, <3>5 DEF ScanRun
    <2>2. jvm'.version = jvm.version /\ jvm'.cfg = jvm.cfg
      BY <1>5 DEF ScanRun, ScanEnters, ScanJoins, ScanResolves, ScanUnresolved,
                  ScanRegisters, ScanRefreshes, ScanEnds, RegisterOn
    <2>3. QED
      BY <2>1, <2>2, <1>l, NothingNew
  <1>6. CASE Journal
    <2>1. call'.version = 0 /\ call'.pc = "idle" /\ UNCHANGED <<evars, jvm>>
      BY <1>6, <1>n DEF Journal
    <2>2. QED
      BY <2>1, <1>l, NothingNew
  <1>7. CASE Outside
    <2>1. CASE OthersOpen \/ OthersEnd \/ OperatorHalts
      BY <2>1 DEF OthersOpen, OthersEnd, OperatorHalts, evars, Authorised
    <2>2. CASE BurpDies
      <3>1. /\ UNCHANGED <<scopes, opening, call>>
            /\ jvm'.version = jvm.version /\ jvm'.cfg = jvm.cfg
        BY <2>2 DEF BurpDies, evars
      <3>2. QED
        BY <3>1 DEF Authorised
    <2>3. CASE Exit
      <3>1. /\ jvm' = NoBurp /\ call' = NoCall /\ scopes' = scopes
        BY <2>3 DEF Exit, TornDown
      <3>2. QED
        BY <3>1, <1>l, <1>n DEF Authorised
    <2>4. QED
      BY <1>7, <2>1, <2>2, <2>3 DEF Outside
  <1>8. CASE EngagementNext /\ UNCHANGED tvars
    <2>1. UNCHANGED <<call, jvm>>
      BY <1>8 DEF tvars
    <2>2. /\ opening.pc = "open" => /\ opening'.pc = "open" /\ opening'.cfg = opening.cfg
                                    /\ opening'.torn = opening.torn
      BY <1>8 DEF EngagementNext, EditByHand, Amend, AmendLooks, AmendRow, AmendFile,
                  AmendDies, OpenLoads, OpenReadsRow, OpenCompares, Opening,
                  RecordKept, EvarTypes
    <2>3. scopes' = scopes \/ scopes' = Append(scopes, amending.cfg)
      BY <1>8 DEF EngagementNext, EditByHand, Amend, AmendLooks, AmendRow, AmendFile,
                  AmendDies, OpenLoads, OpenReadsRow, OpenCompares
    <2>4. amending.cfg \in Configs
      BY DEF RecordKept, EvarTypes
    <2>5. Len(scopes') >= Len(scopes) /\ Len(scopes') \in Nat
      BY <1>l, <2>3, <2>4, AppendProperties, LenProperties
    <2>6. ASSUME NEW n \in Nat, n <= Len(scopes), NEW d, Says(scopes, n, d)
          PROVE  Says(scopes', n, d)
      <3>1. CASE scopes' = scopes
        BY <2>6, <3>1
      <3>2. CASE scopes' = Append(scopes, amending.cfg)
        <4>1. Says(Append(scopes, amending.cfg), n, d)
          BY <1>l, <2>4, <2>6, SaidStays
        <4>2. QED
          BY <3>2, <4>1
      <3>3. QED
        BY <2>3, <3>1, <3>2
    <2>7. QED
      BY <1>l, <2>1, <2>2, <2>5, <2>6 DEF Authorised
  <1>9. CASE UNCHANGED vars
    BY <1>9 DEF vars, evars, tvars, Authorised
  <1>10. QED
    BY <1>1, <1>2, <1>3, <1>4, <1>5, <1>6, <1>7, <1>8, <1>9 DEF Next

LEMMA RecordNext == RecordKept /\ [Next]_vars => RecordKept'
  <1> SUFFICES ASSUME RecordKept, [Next]_vars PROVE RecordKept'
    OBVIOUS
  <1>1. CASE UNCHANGED evars
    BY <1>1 DEF evars, RecordKept, EvarTypes, Opening
  <1>2. CASE EngagementNext
    BY <1>2, RecordStep
  <1>3. CASE Exit
    BY <1>3 DEF Exit, NotOpen, RecordKept, EvarTypes, Opening
  <1>4. Next /\ ~EngagementNext /\ ~Exit => UNCHANGED evars
    <2>1. Dispatch \/ Journal => UNCHANGED evars
      BY DEF Dispatch, Journal
    <2>2. RunStart => UNCHANGED evars
      BY DEF RunStart, StartLooks, StartOpens, ReadScope, Launch, Configure, LaunchFails,
             CheckAlive
    <2>3. RunFinish => UNCHANGED evars
      BY DEF RunFinish, FinishResolves, FinishCloses, FinishFrees
    <2>4. Issue => UNCHANGED evars
      BY DEF Issue, Register, Registered, Send, SendRefused, File, FileFails
    <2>5. ScanRun => UNCHANGED evars
      BY DEF ScanRun, ScanEnters, ScanJoins, ScanResolves, ScanUnresolved, ScanRegisters,
             ScanRefreshes, ScanEnds
    <2>6. Outside /\ ~Exit => UNCHANGED evars
      BY DEF Outside, OthersOpen, OthersEnd, BurpDies, OperatorHalts
    <2>7. QED
      BY <2>1, <2>2, <2>3, <2>4, <2>5, <2>6 DEF Next
  <1>5. QED
    BY <1>1, <1>2, <1>3, <1>4 DEF vars

\* The record comes before the file and before the authorisation, wherever an
\* amendment or the server stops (engagement.record_scope_version, open_).
THEOREM RecordComesFirst == Spec => []RecordedFirst
  <1> DEFINE Inv == Shape /\ Credentials /\ RecordKept /\ Authorised
  <1>1. Init => Inv
    BY ShapeInit, CredentialsInit, RecordInit, AuthorisedInit
  <1>2. Inv /\ [Next]_vars => Inv'
    BY ShapeStep, CredentialsStep, RecordNext, AuthorisedStep
  <1>3. Inv => RecordedFirst
    <2> SUFFICES ASSUME Inv PROVE RecordedFirst
      OBVIOUS
    <2>1. DOMAIN scopes = 1..Len(scopes)
      BY LenProperties DEF RecordKept, EvarTypes
    <2>2. QED
      BY <2>1 DEF RecordKept, Authorised, RecordedFirst, Says
  <1> HIDE DEF Inv
  <1>4. QED
    BY <1>1, <1>2, <1>3, PTL DEF Spec
=============================================================================
