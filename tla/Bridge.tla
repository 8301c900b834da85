------------------------------- MODULE Bridge -------------------------------
(***************************************************************************)
(* The bridge: hx's server (src/hx/bridge/server.py, BridgeServer) and the *)
(* extension's client (bridge/BridgeClient.java), over one socket at a     *)
(* time.                                                                   *)
(*                                                                         *)
(* On hx's side three kinds of threads meet: the serve thread, which       *)
(* accepts one connection after another and handles what the peer says;    *)
(* threads that configure or send, which register a request, write it and  *)
(* wait; and the operator's, which halts and resumes.  The extension is    *)
(* its read loop, which answers frames in the order they were written; it  *)
(* may die at any time, and a new one may then dial.                       *)
(*                                                                         *)
(* A step is what one thread does under one lock or between two.  What a   *)
(* send decides is SendPath's: here it is issued or refused.               *)
(***************************************************************************)
EXTENDS Integers, Sequences, FiniteSets

CONSTANTS
    Configurers, Senders, Operators,    \* hx's threads, by what they call
    None,
    MaxConn,        \* bound on connections
    MaxRequest,     \* bound on requests
    MaxHalt         \* bound on operator commands

Callers  == Configurers \cup Senders \cup Operators
Conns    == 1..MaxConn
Requests == 1..MaxRequest

ASSUME BridgeAssumption ==
    /\ MaxConn \in Nat /\ MaxRequest \in Nat /\ MaxHalt \in Nat
    /\ None \notin Conns
    /\ Configurers \cap Senders = {}
    /\ Operators \cap (Configurers \cup Senders) = {}

VARIABLES
    toExt, toHx,    \* frames written and not yet read, by connection
    open,           \* connections hx has not closed
    dial,           \* the last connection dialled
    ext,            \* the extension: [up, epoch, counter, halted, stop]
    srv,            \* [state, epoch, gen, conn] of BridgeServer
    serve,          \* the serve thread
    pending, woken, replies,    \* _pending, its events that are set, _replies
    nextId, commands,
    durable,        \* operator_halt.halted
    caller,         \* the call each thread of hx is in
    \* What really happened (not in the code):
    standing,       \* a halt() stands: no resume frame was written after it
    seen,           \* connections whose "halted" frame was handled
    unanswered      \* connections on which a configure failed without an answer

wireVars   == <<toExt, toHx, open, dial, ext>>
callVars   == <<pending, woken, replies, nextId>>
ghostVars  == <<standing, seen, unanswered>>
vars == <<wireVars, srv, serve, callVars, commands, durable, caller, ghostVars>>

NoExt    == [up |-> FALSE, epoch |-> 0, counter |-> 0, halted |-> FALSE, stop |-> FALSE]
NoCall   == [pc |-> "idle", op |-> None, rid |-> 0, gen |-> 0, on |-> 0, reply |-> None]
NoServe  == [pc |-> "accept", stood |-> FALSE]

Frame(t, rid) == [t |-> t, rid |-> rid]
Answer(t, rid, epoch, trip) == [t |-> t, rid |-> rid, epoch |-> epoch, trip |-> trip]

Init ==
    /\ toExt = [c \in Conns |-> <<>>]
    /\ toHx = [c \in Conns |-> <<>>]
    /\ open = {}
    /\ dial = 0
    /\ ext = NoExt
    /\ srv = [state |-> "waiting", epoch |-> 0, gen |-> 0, conn |-> None, last |-> 0]
    /\ serve = NoServe
    /\ pending = {} /\ woken = {} /\ replies = {}
    /\ nextId = 0 /\ commands = 0
    /\ durable = FALSE
    /\ caller = [c \in Callers |-> NoCall]
    /\ standing = FALSE /\ seen = {} /\ unanswered = {}

----------------------------------------------------------------------------
(* The extension. *)

\* connect(): a new extension dials and says hello.
Dial ==
    /\ ~ext.up
    /\ dial < MaxConn
    /\ dial' = dial + 1
    /\ open' = open \cup {dial + 1}
    /\ ext' = [NoExt EXCEPT !.up = TRUE]
    /\ toHx' = [toHx EXCEPT ![dial + 1] = <<Answer("hello", 0, 0, FALSE)>>]
    /\ UNCHANGED <<toExt, srv, serve, callVars, commands, durable, caller, ghostVars>>

\* Burp is killed, the extension unloaded, the channel lost: what was written
\* to it and not read is gone, what it wrote can still be read.
ExtDies ==
    /\ ext.up
    /\ ext' = NoExt
    /\ UNCHANGED <<toExt, toHx, open, dial, srv, serve, callVars, commands, durable,
                   caller, ghostVars>>

\* Frames to hx, or the end of a read loop whose peer has hung up.
Emit(answers, after) ==
    IF dial \in open
    THEN ext' = after /\ toHx' = [toHx EXCEPT ![dial] = @ \o answers]
    ELSE ext' = NoExt /\ UNCHANGED toHx

\* A configure is committed, or refused as bad_config, which denies all.  The
\* other refusals, for another engagement or for want of a deadline, leave the
\* scope as it is; hx's own server gives no cause for them: its configures all
\* carry a deadline, and one engagement, that of the peer's hello.
OnConfigure(f) ==
    IF f.t = "configure"
    THEN Emit(<<Answer("configured", f.rid, ext.counter + 1, FALSE)>>,
              [ext EXCEPT !.epoch = ext.counter + 1, !.counter = @ + 1])
    ELSE Emit(<<Answer("bad_config", f.rid, 0, FALSE)>>, [ext EXCEPT !.epoch = 0])

\* A send is refused, or issued; one that trips the distress monitor is
\* announced before its own reply.
MutantOnSend(f) ==
    \/ Emit(<<Answer("error", f.rid, 0, FALSE)>>, ext)
    \/ /\ ext.epoch # 0 /\ ~ext.halted /\ ~ext.stop
       /\ \/ Emit(<<Answer("result", f.rid, ext.epoch, FALSE)>>, ext)
          \/ Emit(<<Answer("result", f.rid, ext.epoch, TRUE),
                    Answer("halted", 0, 0, FALSE)>>, [ext EXCEPT !.stop = TRUE])
OnSend(f) ==
    \/ Emit(<<Answer("error", f.rid, 0, FALSE)>>, ext)
    \/ /\ ext.epoch # 0 /\ ~ext.halted /\ ~ext.stop
       /\ \/ Emit(<<Answer("result", f.rid, ext.epoch, FALSE)>>, ext)
          \/ Emit(<<Answer("halted", 0, 0, FALSE),
                    Answer("result", f.rid, ext.epoch, TRUE)>>, [ext EXCEPT !.stop = TRUE])

\* BridgeClient.handle(): one frame, in the order they were written.
ExtHandle ==
    /\ ext.up
    /\ toExt[dial] # <<>>
    /\ toExt' = [toExt EXCEPT ![dial] = Tail(@)]
    /\ LET f == Head(toExt[dial]) IN
       \/ f.t \in {"configure", "misconfigure"} /\ OnConfigure(f)
       \/ f.t = "send" /\ OnSend(f)
       \/ f.t = "halt" /\ ext' = [ext EXCEPT !.halted = TRUE] /\ UNCHANGED toHx
       \/ f.t = "resume" /\ ext' = [ext EXCEPT !.halted = FALSE] /\ UNCHANGED toHx
    /\ UNCHANGED <<open, dial, srv, serve, callVars, commands, durable, caller, ghostVars>>

Extension == Dial \/ ExtDies \/ ExtHandle

----------------------------------------------------------------------------
(* The serve thread. *)

\* _serve(): the next connection becomes the current one.
Accept ==
    /\ serve.pc = "accept"
    /\ srv.last < dial
    /\ srv' = [srv EXCEPT !.gen = @ + 1, !.conn = srv.last + 1, !.last = @ + 1]
    /\ serve' = [serve EXCEPT !.pc = "read"]
    /\ UNCHANGED <<wireVars, callVars, commands, durable, caller, ghostVars>>

Read(t) ==
    /\ serve.pc = "read"
    /\ toHx[srv.conn] # <<>>
    /\ Head(toHx[srv.conn]).t \in t
    /\ toHx' = [toHx EXCEPT ![srv.conn] = Tail(@)]
    /\ UNCHANGED <<toExt, open, dial, ext>>

\* hello: a fresh session, still to be told of a halt.
Hello ==
    /\ Read({"hello"})
    /\ srv' = [srv EXCEPT !.state = "connected", !.epoch = 0]
    /\ serve' = [pc |-> "hello", stood |-> durable]
    /\ UNCHANGED <<callVars, commands, durable, caller, ghostVars>>

MutantReassert ==
    /\ serve.pc = "hello"
    /\ serve' = [serve EXCEPT !.pc = "read"]
    /\ UNCHANGED <<wireVars, srv, callVars, commands, durable, caller, ghostVars>>

\* _reassert_halt(): the halt frame, unless nothing halts; a frame that
\* cannot be written gives the connection up.
Reassert ==
    /\ serve.pc = "hello"
    /\ \/ ~durable /\ serve' = [serve EXCEPT !.pc = "read"] /\ UNCHANGED toExt
       \/ /\ durable
          /\ serve' = [serve EXCEPT !.pc = "told"]
          /\ toExt' = [toExt EXCEPT ![srv.conn] = Append(@, Frame("halt", 0))]
       \/ /\ durable
          /\ ~(ext.up /\ dial = srv.conn)
          /\ serve' = [serve EXCEPT !.pc = "reset"]
          /\ UNCHANGED toExt
    /\ UNCHANGED <<toHx, open, dial, ext, srv, callVars, commands, durable, caller, ghostVars>>

ReassertCommit ==
    /\ serve.pc = "told"
    /\ srv' = [srv EXCEPT !.state = "halted"]
    /\ serve' = [serve EXCEPT !.pc = "read"]
    /\ UNCHANGED <<wireVars, callVars, commands, durable, caller, ghostVars>>

\* A "halted" frame; a callback that raises gives the connection up.
OnHalted ==
    /\ Read({"halted"})
    /\ srv' = [srv EXCEPT !.state = "halted"]
    /\ seen' = seen \cup {srv.conn}
    /\ serve' \in {serve, [serve EXCEPT !.pc = "reset"]}
    /\ UNCHANGED <<callVars, commands, durable, caller, standing, unanswered>>

\* _deliver(): to whoever still waits.
Deliver ==
    /\ Read({"configured", "bad_config", "result", "error"})
    /\ LET f == Head(toHx[srv.conn]) IN
       IF f.rid \in pending
       THEN replies' = replies \cup {f} /\ woken' = woken \cup {f.rid}
       ELSE UNCHANGED <<replies, woken>>
    /\ UNCHANGED <<srv, serve, pending, nextId, commands, durable, caller, ghostVars>>

\* The end of the stream.
PeerGone ==
    /\ serve.pc = "read"
    /\ toHx[srv.conn] = <<>>
    /\ ~(ext.up /\ dial = srv.conn)
    /\ serve' = [serve EXCEPT !.pc = "reset"]
    /\ UNCHANGED <<wireVars, srv, callVars, commands, durable, caller, ghostVars>>

\* _reset() and the close after it: DENY-ALL, and nobody waits any more.
MutantReset ==
    /\ serve.pc = "reset"
    /\ srv' = [srv EXCEPT !.gen = @ + 1, !.state = "waiting", !.epoch = 0, !.conn = None]
    /\ open' = open \ {srv.conn}
    /\ pending' = {}
    /\ replies' = {}
    /\ serve' = NoServe
    /\ UNCHANGED <<toExt, toHx, dial, ext, woken, nextId, commands, durable, caller, ghostVars>>
Reset ==
    /\ serve.pc = "reset"
    /\ srv' = [srv EXCEPT !.gen = @ + 1, !.state = "waiting", !.epoch = 0, !.conn = None]
    /\ open' = open \ {srv.conn}
    /\ woken' = woken \cup pending
    /\ pending' = {}
    /\ replies' = {}
    /\ serve' = NoServe
    /\ UNCHANGED <<toExt, toHx, dial, ext, nextId, commands, durable, caller, ghostVars>>

Serve ==
    \/ Accept \/ Hello \/ Reassert \/ ReassertCommit
    \/ OnHalted \/ Deliver \/ PeerGone \/ Reset

----------------------------------------------------------------------------
(* configure() and send(). *)

Goes(c, call) == caller' = [caller EXCEPT ![c] = call]

\* The bound on requests, counting those not yet registered.
RequestLeft == nextId + Cardinality({c \in Callers : caller[c].pc = "register"}) < MaxRequest

BeginConfigure(c, op) ==
    /\ caller[c].pc = "idle"
    /\ RequestLeft
    /\ srv.state \in {"connected", "configured", "halted"}
    /\ Goes(c, [NoCall EXCEPT !.pc = "register", !.op = op, !.gen = srv.gen])
    /\ UNCHANGED <<wireVars, srv, serve, callVars, commands, durable, ghostVars>>

\* send() refuses before the wire what the extension would refuse.
BeginSend(c) ==
    /\ caller[c].pc = "idle"
    /\ RequestLeft
    /\ ~durable
    /\ srv.state = "configured"
    /\ Goes(c, [NoCall EXCEPT !.pc = "register", !.op = "send"])
    /\ UNCHANGED <<wireVars, srv, serve, callVars, commands, durable, ghostVars>>

\* _request(), under the lock.
Register(c) ==
    /\ caller[c].pc = "register"
    /\ nextId' = nextId + 1
    /\ pending' = pending \cup {nextId + 1}
    /\ Goes(c, [caller[c] EXCEPT !.pc = "write", !.rid = nextId + 1])
    /\ UNCHANGED <<wireVars, srv, serve, woken, replies, commands, durable, ghostVars>>

\* _send(): to the connection that is current now, or an error to the caller.
Written(c, frame, next) ==
    \/ /\ srv.conn # None
       /\ toExt' = [toExt EXCEPT ![srv.conn] = Append(@, frame)]
       /\ Goes(c, next)
    \/ /\ srv.conn = None \/ ~(ext.up /\ dial = srv.conn)
       /\ Goes(c, NoCall)
       /\ UNCHANGED toExt

WriteRequest(c) ==
    /\ caller[c].pc = "write"
    /\ Written(c, Frame(caller[c].op, caller[c].rid),
               [caller[c] EXCEPT !.pc = "wait", !.on = srv.conn])
    /\ UNCHANGED <<toHx, open, dial, ext, srv, serve, callVars, commands, durable, ghostVars>>

\* The caller is told that its call failed, whatever the peer made of it.
Fails(c) == unanswered' = IF caller[c].op = "send" THEN unanswered
                          ELSE unanswered \cup {caller[c].on}

\* The event is set: by a reply, or by a reset, which leaves none.
Collect(c) ==
    /\ caller[c].pc = "wait"
    /\ caller[c].rid \in woken
    /\ pending' = pending \ {caller[c].rid}
    /\ woken' = woken \ {caller[c].rid}
    /\ \/ \E f \in replies :
            /\ f.rid = caller[c].rid
            /\ replies' = replies \ {f}
            /\ UNCHANGED unanswered
            /\ Goes(c, [caller[c] EXCEPT !.pc = IF caller[c].op = "send" THEN "answered"
                                                                       ELSE "commit",
                                         !.reply = f])
       \/ /\ \A f \in replies : f.rid # caller[c].rid
          /\ Goes(c, NoCall)
          /\ Fails(c)
          /\ UNCHANGED replies
    /\ UNCHANGED <<wireVars, srv, serve, nextId, commands, durable, standing, seen>>

\* The wait gives up, then takes its request back.  A reply that comes in
\* between is kept for nobody.
Timeout(c) ==
    /\ caller[c].pc = "wait"
    /\ caller[c].rid \notin woken
    /\ Goes(c, [caller[c] EXCEPT !.pc = "late"])
    /\ Fails(c)
    /\ UNCHANGED <<wireVars, srv, serve, callVars, commands, durable, standing, seen>>

GiveUp(c) ==
    /\ caller[c].pc = "late"
    /\ pending' = pending \ {caller[c].rid}
    /\ Goes(c, NoCall)
    /\ UNCHANGED <<wireVars, srv, serve, woken, replies, nextId, commands, durable, ghostVars>>

\* send() returns.
Return(c) ==
    /\ caller[c].pc = "answered"
    /\ Goes(c, NoCall)
    /\ UNCHANGED <<wireVars, srv, serve, callVars, commands, durable, ghostVars>>

\* Still the same connection as before the request.
Current(c) == caller[c].gen = srv.gen /\ srv.conn # None

MutantKeepsConfigured(c) ==
    /\ caller[c].pc = "commit"
    /\ srv' = IF ~Current(c) \/ caller[c].reply.t = "bad_config" THEN srv
              ELSE [srv EXCEPT !.epoch = caller[c].reply.epoch,
                               !.state = IF @ = "halted" THEN "halted" ELSE "configured"]
    /\ Goes(c, NoCall)
    /\ UNCHANGED <<wireVars, serve, callVars, commands, durable, ghostVars>>

\* configure() takes the answer in, if the connection is still the same.
CommitConfigure(c) ==
    /\ caller[c].pc = "commit"
    /\ srv' = IF ~Current(c) THEN srv
              ELSE IF caller[c].reply.t = "bad_config"
              THEN [srv EXCEPT !.state = "connected", !.epoch = 0]
              ELSE [srv EXCEPT !.epoch = caller[c].reply.epoch,
                               !.state = IF @ = "halted" THEN "halted" ELSE "configured"]
    /\ IF Current(c) THEN UNCHANGED unanswered ELSE Fails(c)
    /\ Goes(c, NoCall)
    /\ UNCHANGED <<wireVars, serve, callVars, commands, durable, standing, seen>>

----------------------------------------------------------------------------
(* halt() and resume(). *)

\* The durable halt first, whatever becomes of the frame.
HaltArm(c) ==
    /\ caller[c].pc = "idle"
    /\ commands < MaxHalt
    /\ commands' = commands + 1
    /\ durable' = TRUE
    /\ standing' = TRUE
    /\ Goes(c, [NoCall EXCEPT !.pc = "haltWrite", !.op = "halt"])
    /\ UNCHANGED <<wireVars, srv, serve, callVars, seen, unanswered>>

HaltWrite(c) ==
    /\ caller[c].pc = "haltWrite"
    /\ Written(c, Frame("halt", 0), [caller[c] EXCEPT !.pc = "haltCommit", !.gen = srv.gen])
    /\ UNCHANGED <<toHx, open, dial, ext, srv, serve, callVars, commands, durable, ghostVars>>

HaltCommit(c) ==
    /\ caller[c].pc = "haltCommit"
    /\ srv' = IF Current(c) THEN [srv EXCEPT !.state = "halted"] ELSE srv
    /\ Goes(c, NoCall)
    /\ UNCHANGED <<wireVars, serve, callVars, commands, durable, ghostVars>>

ResumeWrite(c) ==
    /\ caller[c].pc = "idle"
    /\ commands < MaxHalt
    /\ commands' = commands + 1
    /\ srv.conn # None
    /\ Written(c, Frame("resume", 0),
               [NoCall EXCEPT !.pc = "resumeCommit", !.op = "resume", !.gen = srv.gen])
    /\ standing' = (standing /\ caller'[c].pc = "idle")
    /\ UNCHANGED <<toHx, open, dial, ext, srv, serve, callVars, durable, seen, unanswered>>

ResumeCommit(c) ==
    /\ caller[c].pc = "resumeCommit"
    /\ IF Current(c)
       THEN /\ srv' = [srv EXCEPT !.state = IF srv.epoch # 0 THEN "configured" ELSE "connected"]
            /\ Goes(c, [caller[c] EXCEPT !.pc = "disarm"])
       ELSE Goes(c, NoCall) /\ UNCHANGED srv
    /\ UNCHANGED <<wireVars, serve, callVars, commands, durable, ghostVars>>

\* The durable halt last, once the frame and the commit stood.
ResumeDisarm(c) ==
    /\ caller[c].pc = "disarm"
    /\ durable' = FALSE
    /\ Goes(c, NoCall)
    /\ UNCHANGED <<wireVars, srv, serve, callVars, commands, ghostVars>>

\* The sentinel touched from a shell, or `hx halt`: no frame.
HaltByHand ==
    /\ commands < MaxHalt
    /\ commands' = commands + 1
    /\ ~durable
    /\ durable' = TRUE
    /\ UNCHANGED <<wireVars, srv, serve, callVars, caller, ghostVars>>

\* A request from its registration to its end, but for giving up on it.
Proceed(c) ==
    \/ Register(c) \/ WriteRequest(c) \/ Collect(c) \/ GiveUp(c) \/ Return(c)
    \/ CommitConfigure(c)

Command(c) ==
    \/ HaltArm(c) \/ HaltWrite(c) \/ HaltCommit(c)
    \/ ResumeWrite(c) \/ ResumeCommit(c) \/ ResumeDisarm(c)

Next ==
    \/ Extension \/ Serve \/ HaltByHand
    \/ \E c \in Configurers : \E op \in {"configure", "misconfigure"} : BeginConfigure(c, op)
    \/ \E c \in Senders : BeginSend(c)
    \/ \E c \in Configurers \cup Senders : Proceed(c) \/ Timeout(c)
    \/ \E c \in Operators : Command(c)

\* The read loop, the serve thread and a caller that has something to do keep
\* running.  A request's timeout is not counted on, nor is the extension's end.
Fairness ==
    /\ WF_vars(ExtHandle)
    /\ WF_vars(Serve)
    /\ \A c \in Configurers \cup Senders : WF_vars(Proceed(c))

Spec == Init /\ [][Next]_vars /\ Fairness

----------------------------------------------------------------------------
AnswerT == {"hello", "configured", "bad_config", "result", "error", "halted"}
Ops     == {"configure", "misconfigure", "send", "halt", "resume"}
PCs     == {"idle", "register", "write", "wait", "late", "answered", "commit",
            "haltWrite", "haltCommit", "resumeCommit", "disarm"}
Answers == [t : AnswerT, rid : {0} \cup Requests, epoch : Nat, trip : BOOLEAN]

TypeOK ==
    /\ \A c \in Conns : /\ toExt[c] \in Seq([t : Ops, rid : {0} \cup Requests])
                        /\ toHx[c] \in Seq(Answers)
    /\ open \subseteq Conns /\ dial \in 0..MaxConn
    /\ ext \in [up : BOOLEAN, epoch : Nat, counter : Nat, halted : BOOLEAN, stop : BOOLEAN]
    /\ srv.state \in {"waiting", "connected", "configured", "halted"}
    /\ srv.conn \in {None} \cup Conns /\ {srv.epoch, srv.gen, srv.last} \subseteq Nat
    /\ serve \in [pc : {"accept", "read", "hello", "told", "reset"}, stood : BOOLEAN]
    /\ pending \subseteq 1..nextId /\ woken \subseteq 1..nextId /\ replies \subseteq Answers
    /\ nextId \in 0..MaxRequest /\ commands \in 0..MaxHalt
    /\ {durable, standing} \subseteq BOOLEAN
    /\ \A c \in Callers : caller[c].pc \in PCs /\ caller[c].op \in {None} \cup Ops
    /\ seen \cup unanswered \subseteq Conns

PeerUp == ext.up /\ dial = srv.conn

\* A peer that acknowledges and disconnects leaves no authorisation behind
\* (server.py:707-718), and none of its epochs is taken for a later peer's.
\* Both sides agree that the run is authorised, and by which configure, once
\* nothing is on its way and every configure on this connection got its answer
\* (server.py:680-691).
Quiet == /\ PeerUp
         /\ toExt[srv.conn] = <<>> /\ toHx[srv.conn] = <<>>
         /\ \A c \in Configurers : caller[c].pc \in {"idle", "register", "write"}
SidesAgree ==
    /\ srv.conn = None => srv.state = "waiting" /\ srv.epoch = 0
    /\ srv.epoch # 0 /\ PeerUp => srv.epoch =< ext.counter
    /\ Quiet /\ srv.conn \notin unanswered => srv.epoch = ext.epoch

\* Whoever gets the reply to the request that tripped the distress monitor
\* gets it after hx has stopped the run for it (Sender.java:397-399).
TripIsKnownFirst ==
    \A c \in Senders :
        caller[c].pc = "answered" /\ caller[c].reply.trip => caller[c].on \in seen

\* What the peer will believe when it has read all that was written to it.
WillBeHalted(c) ==
    LET commanded == { i \in 1..Len(toExt[c]) : toExt[c][i].t \in {"halt", "resume"} }
    IN  IF commanded = {} THEN ext.halted
        ELSE \E i \in commanded : toExt[c][i].t = "halt" /\ \A j \in commanded : j =< i

\* A halt reaches the peer that is connected now, or the next one as soon as
\* its hello has been handled (server.py:895-899, 561-570).
HaltReachesPeer ==
    standing /\ serve.pc = "read" /\ srv.state # "waiting" /\ PeerUp
             /\ (\A c \in Operators : caller[c].pc # "haltWrite")
        => WillBeHalted(srv.conn)

\* A request is answered, or told that the peer is gone, without its timeout.
EveryCallReturns ==
    \A c \in Configurers \cup Senders : caller[c].pc # "idle" ~> caller[c].pc = "idle"

\* "A durable halt is re-asserted HERE, before on_hello runs and so before any
\* configure" (server.py:423-427): a peer that connects under a halt has no
\* configure on its way before it was told.
HaltBeforeScope ==
    serve.pc = "hello" /\ serve.stood /\ PeerUp =>
        \A i \in 1..Len(toExt[srv.conn]) : toExt[srv.conn][i].t # "configure"
=============================================================================
