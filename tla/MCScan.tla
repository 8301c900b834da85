------------------------------- MODULE MCScan -------------------------------
(* Three surfaces at two origins: `app` and `admin` at one that honours the  *)
(* session, `api` at one that is only sent the credential.  Each option is a *)
(* scan with one or two of the corpus's checks, so that every shape of a     *)
(* check's loop meets every kind of failure.                                 *)
EXTENDS Scan, TLC

CONSTANTS app, admin, api, here, there, next, id, session

MCKindOf == next :> "query" @@ id :> "path_segment" @@ session :> "cookie"
MCPointsOf == app :> <<next, id>> @@ admin :> <<session>> @@ api :> <<next>>
MCHinted == {next}
MCOrigin == app :> here @@ admin :> here @@ api :> there
MCSurfaceSeq == <<app, admin, api>>

All == {app, admin, api}
Both == {app, api}

\* A bridged, unlimited scan of every surface, all of them probeable.
Scanning(strategy, checks) ==
    [checks |-> checks, bridge |-> TRUE, filter |-> Both, strategy |-> strategy,
     limited |-> FALSE, facts |-> [s \in All |-> "probeable"]]

MCOptions ==
    {Scanning("static", <<c>>) :
        c \in {Cors, OpenRedirect, PathTraversal, SqlError, ReflectedInput, SqlBehaviour}}
    \cup {Scanning("programmatic", <<Cors, OpenRedirect>>),
          [Scanning("static", <<CookieFlags, ReflectedInput>>) EXCEPT !.filter = {app, admin}],
          Scanning("none", <<SecurityHeaders, OpenRedirect>>),
          [Scanning("static", <<StackTrace, Cors>>) EXCEPT !.filter = {api}],
          [Scanning("static", <<SecretInResponse, Cors>>) EXCEPT !.limited = TRUE],
          [Scanning("static", <<SecretInResponse, SqlError>>) EXCEPT !.facts[app] = "no_exemplar"],
          [Scanning("static", <<SecretInResponse, PathTraversal>>) EXCEPT !.bridge = FALSE]}

=============================================================================
