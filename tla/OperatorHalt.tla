---------------------------- MODULE OperatorHalt ----------------------------
(***************************************************************************)
(* The durable operator halt (src/hx/halt.py), written by short-lived      *)
(* commands (`hx halt`, `hx resume`, the web application's halt button)    *)
(* and read by the extension's HaltSwitch through the sentinel file.       *)
(*                                                                         *)
(* Every command builds an OperatorHalt of its own, so the lock in it      *)
(* orders nothing between two of them: Overlap says whether the operators  *)
(* run two commands at once.  A command may die between any two steps.     *)
(***************************************************************************)
EXTENDS HaltSwitch

CONSTANTS
    Commands,    \* the processes that may run a command
    Overlap,     \* may two commands run at once?
    MaxTime      \* bound: the instants a row may be stamped with

ASSUME OperatorHaltAssumption ==
    /\ Overlap \in BOOLEAN
    /\ MaxTime \in Nat

VARIABLES
    pc,        \* where each command is
    latest,    \* the latest halt or resume row, by timestamp and then rowid
    last,      \* the one that went in last, by rowid (not read by the code)
    byHand     \* the file's absence is the work of somebody's `rm`

rowVars     == <<latest, last>>
commandVars == <<pc, rowVars, byHand>>
allVars     == <<vars, commandVars>>

----------------------------------------------------------------------------
NoRow == [tool |-> "resume", ts |-> 0]

SystemInit ==
    /\ Init
    /\ present = FALSE
    /\ pc = [c \in Commands |-> "idle"]
    /\ latest = NoRow
    /\ last = NoRow
    /\ byHand = FALSE

Quiet    == \A c \in Commands : pc[c] = "idle"
GoTo(c, l) == pc' = [pc EXCEPT ![c] = l]

\* OperatorHalt.halted, as a command that has just been started reads it.  A
\* command opens the database beside the sentinel: the directory is open.
FreshlyHalted == latest.tool = "halt" \/ present

Begin(c, l) ==
    /\ pc[c] = "idle"
    /\ directory = "open"
    /\ Overlap \/ Quiet
    /\ GoTo(c, l)

\* A row goes in under _now_us(), the wall clock, which is adjusted: it may be
\* stamped later than those that are in, at the same instant or before them.
\* The newest row is the first one ORDER BY ts_us DESC, rowid DESC.
InsertRow(tool) ==
    \E now \in 0..MaxTime :
        /\ last' = [tool |-> tool, ts |-> now]
        /\ latest' = IF now >= latest.ts THEN last' ELSE latest

\* `hx halt`: the sentinel first, the row second.
BeginHalt(c) ==
    /\ Begin(c, "write")
    /\ UNCHANGED <<vars, rowVars, byHand>>

\* Mutants of the order of the two writes, in halt and in resume.
MutantUnlinkFirst(c) ==
    /\ pc[c] = "insert_resume"
    /\ FileBecomes(FALSE, directory)
    /\ byHand' = FALSE
    /\ GoTo(c, "unlink")
    /\ UNCHANGED rowVars
MutantHaltWithoutFile(c) ==
    /\ pc[c] = "write"
    /\ GoTo(c, "insert_halt")
    /\ UNCHANGED <<vars, rowVars, byHand>>

WriteSentinel(c) ==
    /\ pc[c] = "write"
    /\ directory = "open"
    /\ FileBecomes(TRUE, directory)
    /\ byHand' = FALSE
    /\ GoTo(c, "insert_halt")
    /\ UNCHANGED rowVars

InsertHalt(c) ==
    /\ pc[c] = "insert_halt"
    /\ InsertRow("halt")
    /\ GoTo(c, "idle")
    /\ UNCHANGED <<vars, byHand>>

\* `hx resume`: nothing to do unless halted; then the row first, the file
\* second.
BeginResume(c) ==
    /\ FreshlyHalted
    /\ Begin(c, "insert_resume")
    /\ UNCHANGED <<vars, rowVars, byHand>>

InsertResume(c) ==
    /\ pc[c] = "insert_resume"
    /\ InsertRow("resume")
    /\ GoTo(c, "unlink")
    /\ UNCHANGED <<vars, byHand>>

UnlinkSentinel(c) ==
    /\ pc[c] = "unlink"
    /\ directory = "open"
    /\ FileBecomes(FALSE, directory)
    /\ byHand' = (byHand /\ ~present)
    /\ GoTo(c, "idle")
    /\ UNCHANGED rowVars

\* An OSError or an sqlite3.Error ends the command where it stands, and so
\* does the death of its process.
Abandon(c) ==
    /\ pc[c] # "idle"
    /\ GoTo(c, "idle")
    /\ UNCHANGED <<vars, rowVars, byHand>>

Command(c) ==
    \/ BeginHalt(c) \/ WriteSentinel(c) \/ InsertHalt(c)
    \/ BeginResume(c) \/ InsertResume(c) \/ UnlinkSentinel(c)
    \/ Abandon(c)

\* The file is a path anybody with a shell can create or remove, in a
\* directory that may be locked, vanish and come back.
TouchByHand ==
    /\ directory = "open"
    /\ FileBecomes(TRUE, directory)
    /\ byHand' = FALSE
    /\ UNCHANGED <<pc, rowVars>>

RemoveByHand ==
    /\ directory = "open"
    /\ present
    /\ FileBecomes(FALSE, directory)
    /\ byHand' = TRUE
    /\ UNCHANGED <<pc, rowVars>>

DirectoryChanges ==
    /\ \E place \in Directory \ {directory} : FileBecomes(present, place)
    /\ UNCHANGED commandVars

ExtensionStep == Switch /\ UNCHANGED commandVars

SystemNext ==
    \/ ExtensionStep
    \/ \E c \in Commands : Command(c)
    \/ TouchByHand \/ RemoveByHand \/ DirectoryChanges

\* Time passes.  Nothing makes the poller take a step: a dead or hung one is a
\* behaviour of the system.
SystemSpec ==
    /\ SystemInit
    /\ [][SystemNext]_allVars
    /\ WF_allVars(Tick /\ UNCHANGED commandVars)

----------------------------------------------------------------------------
Row == [tool : {"halt", "resume"}, ts : 0..MaxTime]

CommandTypeOK ==
    /\ TypeOK
    /\ pc \in [Commands -> {"idle", "write", "insert_halt", "insert_resume", "unlink"}]
    /\ latest \in Row
    /\ last \in Row
    /\ byHand \in BOOLEAN

\* "The lock keeps a second caller from interleaving between them and leaving
\* the file saying one thing and the row another" (halt.py:65-67): when no
\* command is under way and nobody has removed the file by hand, a missing
\* file means that the last row in is not a halt, so that the newest row, the
\* one hx reads (halt.py:80-88), is a halt only if the clock was set back
\* between the two.
FileAndRowAgree ==
    Quiet /\ ~present /\ ~byHand =>
        /\ last.tool # "halt"
        /\ latest.tool = "halt" => last.ts < latest.ts

\* The same of the row hx reads, whatever the clock: "the later INSERT is the
\* later event" (halt.py:85-86).  It does not hold: a resume stamped behind its
\* halt lifts it for the extension, and hx goes on reading "halted".
NewestRowAgrees ==
    Quiet /\ ~present /\ ~byHand => latest.tool # "halt"

\* "Every ordering failure leaves issuance STOPPED ... removing the file first
\* and then failing would lift a halt with no record of who lifted it"
\* (halt.py:173-178): no command removes the file before its resume row is in,
\* the last of all, wherever its timestamp sorts it.
LiftIsRecorded ==
    [][ present /\ ~present' /\ ~byHand' => last.tool = "resume" ]_allVars

\* A sentinel that stays, in a directory that no longer comes and goes, is
\* obeyed for good, whether the poller lives, hangs or has just read the
\* directory before the file was there.
DirectoryStays == <>[][UNCHANGED directory]_allVars

HaltLands == DirectoryStays /\ <>[](armed /\ Seen) => <>[]Halted

\* The stop clears itself once both inputs are clear and the poller polls
\* (HaltSwitch.java:58-64): neither a stall nor a failed poll latches.  That it
\* polls is to say that its calls return, and that of the stamps it takes some
\* are published before they are stale.
PollerLives ==
    /\ WF_allVars((Look \/ LookAtParent \/ Stamp \/ Publish) /\ UNCHANGED commandVars)
    /\ SF_allVars(Publish /\ poll.sinceStamp =< StaleAfter /\ UNCHANGED commandVars)
    /\ <>[][~PublishFailure]_allVars

ClearsItself ==
    PollerLives /\ <>[](armed /\ ~Seen /\ ~frameHalted) => []<>~Halted
=============================================================================
