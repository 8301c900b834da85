---------------------------- MODULE ActiveChecks ----------------------------
(***************************************************************************)
(* The checks of hx and one row of a scan: the check's own loop over the    *)
(* insertion points of a surface (hx.checks.active.*, `probes`), the        *)
(* verdict it may reach (hx.checks.active._probe_util.verdict,              *)
(* hx.checks.passive._http.verdict) and the sender it probes through        *)
(* (hx.checks.probe.ProbeSender), which retries a rate limit, counts what   *)
(* may have left, and raises on every refusal.                              *)
(*                                                                          *)
(* A check is a record.  `shape` is how its loop uses the answers:          *)
(*   "bare"      one request, a refusal is the runner's   (cors)            *)
(*   "single"    one request per point                                      *)
(*   "escalate"  a second request at a point that matched (reflected-input) *)
(*   "pair"      two requests per point, compared         (sql-behaviour)   *)
(* What a response holds is kept as far as the loops tell responses apart:  *)
(* whether its status is an answer, whether the check's signature is in it, *)
(* and whether its body is too large for the comparison.                    *)
(***************************************************************************)
EXTENDS Naturals, Sequences, FiniteSets, Subsequences

CONSTANTS
    Surfaces,       \* the surfaces of the engagement
    PointsOf,       \* per surface, its insertion points in order
    KindOf,         \* per point, its kind
    Unprobeable,    \* cookies and credential headers: the send path refuses them
    Hinted,         \* points whose name suggests a redirect or a file
    LargeBodies,    \* may a response be larger than delta.MAX_DIFF_BYTES
    Attempts        \* probe._RATE_LIMIT_ATTEMPTS

ASSUME RowAssumptions ==
    /\ PointsOf \in [Surfaces -> Seq(DOMAIN KindOf)]
    /\ LargeBodies \in BOOLEAN
    /\ Attempts \in Nat \ {0}

VARIABLES
    sender,     \* the ProbeSender of the open row
    probing,    \* the locals of the check's loop over the points
    live,       \* is the session the identity carries logged in
    left        \* requests that reached the network and that no closed row and
                \* no canary's tally accounts for

rowVars == <<sender, probing, live, left>>

-----------------------------------------------------------------------------
(* The corpus. *)

Passive(id, types, level) ==
    [id |-> id, hook |-> "on_surface", types |-> types, level |-> level,
     kinds |-> {}, hinted |-> FALSE, shape |-> "none"]

Active(id, types, kinds, hinted, shape) ==
    [id |-> id, hook |-> "probes", types |-> types, level |-> "surface",
     kinds |-> kinds, hinted |-> hinted, shape |-> shape]

CookieFlags == Passive("cookie-flags", {"cookie"}, "host")
SecurityHeaders == Passive("security-headers", {"csp", "hsts"}, "surface")
SecretInResponse == Passive("secret-in-response", {"secret"}, "surface")
StackTrace == Passive("stack-trace", {"trace"}, "surface")

Cors == Active("cors", {"credentials", "origin", "wildcard"}, {}, FALSE, "bare")
OpenRedirect == Active("open-redirect", {"redirect"}, {"query"}, TRUE, "single")
PathTraversal ==
    Active("path-traversal", {"traversal"}, {"query", "path_segment"}, TRUE, "single")
SqlError ==
    Active("sql-error", {"sql-error"}, {"query", "path_segment"}, FALSE, "single")
ReflectedInput ==
    Active("reflected-input", {"reflected"},
           {"query", "path_segment", "header", "cookie"}, FALSE, "escalate")
SqlBehaviour ==
    Active("sql-behaviour", {"sql"}, {"query", "path_segment"}, FALSE, "pair")

Corpus == {CookieFlags, SecurityHeaders, SecretInResponse, StackTrace, Cors,
           OpenRedirect, PathTraversal, SqlError, ReflectedInput, SqlBehaviour}

\* A check without kinds sends its request to the surface's own path.
Whole == "the surface itself"

\* The points of the kinds a check declares, those the runner hands to it, and
\* those that its loop does not `continue` past.
Declared(c, s) == Kept(PointsOf[s], {p \in DOMAIN KindOf : KindOf[p] \in c.kinds})
Usable(c, s) == Kept(Declared(c, s), DOMAIN KindOf \ Unprobeable)
Wanted(c, s) ==
    IF c.kinds = {} THEN <<Whole>>
    ELSE IF c.hinted THEN Kept(Usable(c, s), Hinted) ELSE Usable(c, s)

-----------------------------------------------------------------------------
(* Verdicts: base.Verdict through its three constructors. *)

NoVerdict == [state |-> "none", candidates |-> {}, considered |-> {}]
Finding(cands, considered) ==
    [state |-> "finding", candidates |-> cands, considered |-> considered]
Inconclusive == [state |-> "inconclusive", candidates |-> {}, considered |-> {}]
Clean(considered) ==
    [state |-> "clean", candidates |-> {}, considered |-> considered]

\* A check that reads captured traffic: `readable` when some response was on
\* file, `gaps` when some exchange of the surface could not be read whole.
PassiveVerdict(cands, looked, readable, gaps) ==
    IF cands # {} THEN Finding(cands, IF gaps THEN {} ELSE looked)
    ELSE IF ~readable \/ gaps THEN Inconclusive
    ELSE Clean(looked)

\* A check that probes: a finding names no type as examined.
ActiveVerdict(c, cands, gaps, probed) ==
    IF cands # {} THEN Finding(cands, {})
    ELSE IF gaps \/ ~probed THEN Inconclusive
    ELSE Clean(c.types)

-----------------------------------------------------------------------------
(* The open row. *)

NoSender == [sent |-> 0, tries |-> 0, refused |-> FALSE]

\* `compared` and `dark` say what really happened and steer nothing: the
\* points at which an answer was read, and whether some answer came from the
\* view of a user who is not logged in.
NoRow == [check |-> CookieFlags, todo |-> <<>>, second |-> FALSE, gaps |-> FALSE,
          found |-> {}, probed |-> FALSE, compared |-> {}, dark |-> FALSE]

RowInit ==
    /\ sender = NoSender
    /\ probing = NoRow
    /\ live \in BOOLEAN
    /\ left = 0

\* The runner hands the check a fresh sender and its usable points.
StartRow(c, s) ==
    /\ sender' = [NoSender EXCEPT !.tries = Attempts]
    /\ probing' = [NoRow EXCEPT !.check = c, !.todo = Wanted(c, s)]
    /\ UNCHANGED <<live, left>>

Point == Head(probing.todo)

\* The loop's next iteration, with what this one leaves behind.
NextPoint(p) == [p EXCEPT !.todo = Tail(@), !.second = FALSE]

\* A call of get() that raises: the point becomes a gap and the loop goes on,
\* except that a point of "escalate" whose first probe matched is reported
\* whatever the second one drew.
AfterRefusal(p) ==
    NextPoint([p EXCEPT !.gaps = TRUE,
                        !.found = IF p.check.shape = "escalate" /\ p.second
                                    THEN @ \cup {Head(p.todo)} ELSE @])

\* One request at a point: the match is read first and the status only where
\* there is none.  The mutant takes any status for an answer.
MutantAfterSingle(p, answer) ==
    LET q == [p EXCEPT !.probed = TRUE] IN
    NextPoint([q EXCEPT !.found = IF answer.match THEN @ \cup {Head(p.todo)} ELSE @,
                        !.compared = IF answer.is2xx THEN @ \cup {Head(p.todo)} ELSE @])
AfterSingle(p, answer) ==
    LET q == [p EXCEPT !.probed = TRUE] IN
    IF answer.match THEN NextPoint([q EXCEPT !.found = @ \cup {Head(p.todo)}])
    ELSE IF ~answer.is2xx THEN NextPoint([q EXCEPT !.gaps = TRUE])
    ELSE NextPoint([q EXCEPT !.compared = @ \cup {Head(p.todo)}])

\* A match is probed again for how much of it survives unescaped.
AfterEscalation(p, answer) ==
    IF p.second THEN NextPoint([p EXCEPT !.found = @ \cup {Head(p.todo)}])
    ELSE IF answer.match THEN [p EXCEPT !.probed = TRUE, !.second = TRUE]
    ELSE AfterSingle(p, answer)

\* The words of two bodies, if both are small enough to be compared.
NewWords(answer) == ~answer.large /\ answer.delta = "words"

\* What of the difference between two answers is worth reporting.
Material(answer) == answer.delta \in {"status", "length"} \/ NewWords(answer)

\* The second of two answers is compared with the first.  Where nothing is
\* worth reporting, it is asked whether one of the two was an answer at all.
AfterPair(p, answer) ==
    LET q == [p EXCEPT !.probed = TRUE]
        point == {Head(p.todo)}
    IN  IF ~p.second THEN [p EXCEPT !.second = TRUE]
        ELSE IF Material(answer) THEN NextPoint([q EXCEPT !.found = @ \cup point])
        ELSE IF ~answer.is2xx THEN NextPoint([q EXCEPT !.gaps = TRUE])
        ELSE NextPoint([q EXCEPT !.compared = IF answer.large THEN @ ELSE @ \cup point])

AfterAnswer(p, answer) ==
    CASE p.check.shape = "pair" -> AfterPair(p, answer)
      [] p.check.shape = "escalate" -> AfterEscalation(p, answer)
      [] OTHER -> AfterSingle(p, answer)

\* A response: the check's signature in it, its status, its size, and how it
\* differs from the one before it.
Answers == [match : BOOLEAN, is2xx : BOOLEAN, large : {FALSE, LargeBodies},
            delta : {"none", "status", "length", "words"}]

Probing == probing.todo # <<>>

\* bridge.send() is refused with `rate_limited` and a hint, and get() has
\* attempts left: it sleeps and asks again.
RateLimited ==
    /\ Probing
    /\ sender.tries > 1
    /\ sender' = [sender EXCEPT !.tries = @ - 1]
    /\ UNCHANGED <<probing, live, left>>

\* get() counts a request unless its refusal is one of _NOT_ISSUED, and it
\* raises.  `reached` says whether the request really left: a refusal of
\* _NOT_ISSUED proves that it did not, every other one leaves it open.  The
\* mutant counts no refusal.
MutantRefusedProbe(counted, reached) ==
    /\ Probing
    /\ reached => counted
    /\ sender' = [sender EXCEPT !.tries = Attempts, !.refused = TRUE]
    /\ left' = left + (IF reached THEN 1 ELSE 0)
    /\ UNCHANGED live
RefusedProbe(counted, reached) ==
    /\ Probing
    /\ reached => counted
    /\ sender' = [sent |-> sender.sent + (IF counted THEN 1 ELSE 0),
                  tries |-> Attempts, refused |-> TRUE]
    /\ left' = left + (IF reached THEN 1 ELSE 0)
    /\ UNCHANGED live

\* The check catches the refusal.
PointRefused ==
    /\ probing.check.shape # "bare"
    /\ \E counted, reached \in BOOLEAN : RefusedProbe(counted, reached)
    /\ probing' = AfterRefusal(probing)

\* `genuine`: the request carried a credential that the origin honours.
Answered(genuine) ==
    /\ Probing
    /\ sender' = [sender EXCEPT !.sent = @ + 1, !.tries = Attempts]
    /\ left' = left + 1
    /\ \E answer \in Answers :
         LET p == AfterAnswer(probing, answer)
         IN  probing' = [p EXCEPT !.dark = @ \/ ~(genuine /\ live)]
    /\ UNCHANGED live

\* The verdict when the loop is over.
RowVerdict == ActiveVerdict(probing.check, probing.found, probing.gaps, probing.probed)

\* The session ends on the target's side; nothing the target does revives it.
SessionDies ==
    /\ live
    /\ live' = FALSE
    /\ UNCHANGED <<sender, probing, left>>

=============================================================================
