----------------------------- MODULE Engagement -----------------------------
(***************************************************************************)
(* The engagement's configuration of record (hx.engagement, hx amend): a    *)
(* file an operator may edit, the scope versions recorded of it, and the    *)
(* long-lived process that opens the engagement and reads the file once.    *)
(***************************************************************************)
EXTENDS Integers, Sequences

CONSTANTS
    Configs,        \* what a configuration says
    First,          \* what `hx new` was given
    MaxScopes, MaxEdits

ASSUME FirstIsConfig == First \in Configs

VARIABLES
    file,       \* config.yaml: what it says, whether in the words dumps() uses,
                \* and whether hx wrote it
    scopes,     \* scope_version, oldest first
    edits,      \* by hand, so far
    amending,   \* `hx amend`: where it stands
    opening     \* open_, by the process that goes on to serve

evars == <<file, scopes, edits, amending, opening>>

\* The row and the file hx writes hold the same text.
Dumped(cfg) == [cfg |-> cfg, plain |-> TRUE]
TextOf(f) == [cfg |-> f.cfg, plain |-> f.plain]
Recorded == scopes[Len(scopes)]

NotOpen == [pc |-> "closed", cfg |-> First, row |-> First, torn |-> FALSE]
NotAmending == [pc |-> "idle", cfg |-> First]

\* `hx new`: the file, then engagement and scope version in one transaction.
EngagementInit ==
    /\ file = [cfg |-> First, plain |-> TRUE, byHx |-> TRUE]
    /\ scopes = <<First>>
    /\ edits = 0
    /\ amending = NotAmending
    /\ opening = NotOpen

Opening == opening.pc \in {"row", "compare"}

EditByHand ==
    /\ edits < MaxEdits
    /\ \E text \in [cfg : Configs, plain : BOOLEAN] \ {TextOf(file)} :
          file' = [cfg |-> text.cfg, plain |-> text.plain, byHx |-> FALSE]
    /\ edits' = edits + 1
    /\ opening' = [opening EXCEPT !.torn = @ \/ Opening]
    /\ UNCHANGED <<scopes, amending>>

\* open_diverged, and the command's own comparison.  The row is read just
\* before the file; no other amend is under way.
AmendLooks ==
    /\ amending.pc = "idle" /\ Len(scopes) < MaxScopes
    /\ Dumped(file.cfg) # Dumped(Recorded)
    /\ amending' = [pc |-> "row", cfg |-> file.cfg]
    /\ UNCHANGED <<file, scopes, edits, opening>>

\* Mutant: the file first.
MutantAmendRow ==
    /\ amending.pc = "row"
    /\ file' = [cfg |-> amending.cfg, plain |-> TRUE, byHx |-> TRUE]
    /\ amending' = [amending EXCEPT !.pc = "file"]
    /\ UNCHANGED <<scopes, edits, opening>>

AmendRow ==
    /\ amending.pc = "row"
    /\ scopes' = Append(scopes, amending.cfg)
    /\ amending' = [amending EXCEPT !.pc = "file"]
    /\ UNCHANGED <<file, edits, opening>>

AmendFile ==
    /\ amending.pc = "file"
    /\ file' = [cfg |-> amending.cfg, plain |-> TRUE, byHx |-> TRUE]
    /\ amending' = NotAmending
    /\ opening' = [opening EXCEPT !.torn = @ \/ Opening]
    /\ UNCHANGED <<scopes, edits>>

AmendDies ==
    /\ amending.pc # "idle"
    /\ amending' = NotAmending
    /\ UNCHANGED <<file, scopes, edits, opening>>

Amend == AmendLooks \/ AmendRow \/ AmendFile \/ AmendDies

\* The configuration is loaded, then the row is read, then the file is read
\* again to be compared with it, as text.
OpenLoads ==
    /\ opening.pc = "closed"
    /\ opening' = [NotOpen EXCEPT !.pc = "row", !.cfg = file.cfg]
    /\ UNCHANGED <<file, scopes, edits, amending>>

OpenReadsRow ==
    /\ opening.pc = "row"
    /\ opening' = [opening EXCEPT !.pc = "compare", !.row = Recorded]
    /\ UNCHANGED <<file, scopes, edits, amending>>

Accepts(text, row) == text = Dumped(row)

OpenCompares ==
    /\ opening.pc = "compare"
    /\ opening' = IF Accepts(TextOf(file), opening.row)
                    THEN [opening EXCEPT !.pc = "open"] ELSE NotOpen
    /\ UNCHANGED <<file, scopes, edits, amending>>

EngagementNext ==
    EditByHand \/ Amend \/ OpenLoads \/ OpenReadsRow \/ OpenCompares

-----------------------------------------------------------------------------
(* A file that says what is recorded can be opened, or amended so that it    *)
(* can: open_ sends whoever diverges to record the change.                   *)
DivergenceCanBeMended ==
    \/ Accepts(TextOf(file), Recorded)
    \/ Dumped(file.cfg) # Dumped(Recorded)
    \/ amending.pc # "idle"
=============================================================================
