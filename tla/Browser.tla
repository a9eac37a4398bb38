-------------------------------- MODULE Browser --------------------------------
(***************************************************************************)
(* The browser's side of a session.  The tabs share the cookie with the    *)
(* refresh token; each keeps its access token in memory.  A tab without    *)
(* one refreshes when a page with the auth hook is mounted.  In a tab with *)
(* one that expired, the first API call to be refused refreshes, and the   *)
(* calls that are refused meanwhile queue behind it.                       *)
(*                                                                         *)
(* A refresh is two steps at the server, as in Sessions, and one more when *)
(* its answer, with the cookie, reaches the tab.  There is one user.       *)
(***************************************************************************)
EXTENDS Integers

CONSTANTS
    Tab,
    Call,       \* API calls of a tab at a time
    Page,       \* stands for the auth hook, where a call refreshes otherwise
    Token,      \* refresh tokens, numbered; a free one may be issued again
    NoToken

VARIABLES
    registered, \* the tokens that are good at the server
    cookie,
    page,       \* loading, at the login page and loading, its form, or in
    access,     \* the access token in the tab's memory
    call,       \* where each call is
    carried,    \* the access token it was sent with
    flight,     \* the refresh that each call, or the page, has under way
    \* history
    alive,      \* the user logged in, and neither logged out nor was expired
    disturbed   \* a refresh's answer was lost after it took effect, or two
                \* tabs refreshed at a time

server  == <<registered>>
tabs    == <<page, access, call, carried>>
history == <<alive, disturbed>>
vars    == <<registered, cookie, tabs, flight, history>>

Source   == Call \cup {Page}
NoFlight == [at |-> "none", tok |-> NoToken]

TypeOK ==
    /\ registered \subseteq Token
    /\ cookie \in Token \cup {NoToken}
    /\ page \in [Tab -> {"load", "visit", "form", "in"}]
    /\ access \in [Tab -> {"none", "good", "expired"}]
    /\ call \in [Tab -> [Call -> {"idle", "sent", "queued", "waiting", "retried"}]]
    /\ carried \in [Tab -> [Call -> {"none", "good", "expired"}]]
    /\ flight \in [Tab -> [Source ->
           [at : {"none", "sent", "checked", "ok", "refused", "limited", "lost"},
            tok : Token \cup {NoToken}]]]
    /\ alive \in BOOLEAN /\ disturbed \in BOOLEAN

Init ==
    /\ registered = {}
    /\ cookie = NoToken
    /\ page = [t \in Tab |-> "form"]
    /\ access = [t \in Tab |-> "none"]
    /\ call = [t \in Tab |-> [c \in Call |-> "idle"]]
    /\ carried = [t \in Tab |-> [c \in Call |-> "none"]]
    /\ flight = [t \in Tab |-> [x \in Source |-> NoFlight]]
    /\ alive = FALSE
    /\ disturbed = FALSE

-----------------------------------------------------------------------------
(* The server                                                              *)

Refreshing(t) == \E x \in Source : flight[t][x].at # "none"

Free == Token \ (registered \cup {cookie} \cup {flight[t][x].tok : t \in Tab, x \in Source})
Issued(tok) == tok \in Free /\ \A u \in Free : tok <= u

\* The token of the cookie is looked up, unless there are too many requests.
RefreshArrives(t, x) ==
    /\ flight[t][x].at = "sent"
    /\ \E answer \in {"limited", IF flight[t][x].tok \in registered THEN "checked" ELSE "refused"} :
          flight' = [flight EXCEPT ![t][x].at = answer]
    /\ UNCHANGED <<registered, cookie, tabs, history>>

\* The answer will carry the new token.
RefreshRotates(t, x, tok) ==
    /\ flight[t][x].at = "checked"
    /\ Issued(tok)
    /\ registered' = (registered \ {flight[t][x].tok}) \cup {tok}
    /\ flight' = [flight EXCEPT ![t][x] = [at |-> "ok", tok |-> tok]]
    /\ UNCHANGED <<cookie, tabs, history>>

\* The network, or the 30 seconds that a call may take.
Lose(t, x) ==
    /\ flight[t][x].at \in {"sent", "ok", "refused"}
    /\ flight' = [flight EXCEPT ![t][x].at = "lost"]
    /\ disturbed' = (disturbed \/ flight[t][x].at = "ok")
    /\ UNCHANGED <<registered, cookie, tabs, alive>>

\* A session ends at the server: it expired, or was revoked.
SessionEnds(tok) ==
    /\ tok \in registered
    /\ registered' = registered \ {tok}
    /\ alive' = FALSE
    /\ UNCHANGED <<cookie, tabs, flight, disturbed>>

-----------------------------------------------------------------------------
(* Pages                                                                   *)

\* A refresh starts with the cookie as it is.
Sent(t, x, jar) == [flight EXCEPT ![t][x] = [at |-> "sent", tok |-> jar]]

\* Another refresh of the same cookie is under way in another tab.
Overlaps(t) == \E u \in Tab \ {t} : Refreshing(u)

\* set_refresh_cookie; a refused cookie is deleted, and so may be one that came
\* in its place.
JarAfter(f) ==
    CASE f.at = "ok"      -> f.tok
      [] f.at = "refused" -> NoToken
      [] OTHER            -> cookie

\* The tab loads a page: nothing of what it had in memory is left, and the
\* auth hook of the page refreshes (refreshSession).
Mount(t, where, jar) ==
    /\ page'    = [page    EXCEPT ![t] = where]
    /\ access'  = [access  EXCEPT ![t] = "none"]
    /\ call'    = [call    EXCEPT ![t] = [c \in Call |-> "idle"]]
    /\ carried' = [carried EXCEPT ![t] = [c \in Call |-> "none"]]
    /\ flight'  = [flight  EXCEPT ![t] = [x \in Source |->
                      IF x = Page THEN [at |-> "sent", tok |-> jar] ELSE NoFlight]]

\* The user loads a page anew; an answer that is on its way is lost.
Reload(t) ==
    /\ page[t] \in {"in", "form"}
    /\ Mount(t, IF page[t] = "in" THEN "load" ELSE "visit", cookie)
    /\ disturbed' = (disturbed \/ Refreshing(t) \/ Overlaps(t))
    /\ UNCHANGED <<registered, cookie, alive>>

\* refreshSession has its token.
SessionRestored(t) ==
    /\ flight[t][Page].at = "ok"
    /\ cookie' = JarAfter(flight[t][Page])
    /\ page'   = [page   EXCEPT ![t] = "in"]
    /\ access' = [access EXCEPT ![t] = "good"]
    /\ flight' = [flight EXCEPT ![t][Page] = NoFlight]
    /\ UNCHANGED <<registered, call, carried, history>>

\* Or it has none: the dashboard's layout goes to the login page, which tries
\* again before it shows its form.
SessionMissing(t) ==
    LET f == flight[t][Page]
    IN  /\ f.at \in {"refused", "limited", "lost"}
        /\ cookie' = JarAfter(f)
        /\ IF page[t] = "load"
           THEN /\ Mount(t, "visit", cookie')
                /\ disturbed' = (disturbed \/ Overlaps(t))
           ELSE /\ page'   = [page   EXCEPT ![t] = "form"]
                /\ flight' = [flight EXCEPT ![t][Page] = NoFlight]
                /\ UNCHANGED <<access, call, carried, disturbed>>
        /\ UNCHANGED <<registered, alive>>

Login(t, tok) ==
    /\ page[t] = "form"
    /\ Issued(tok)
    /\ registered' = registered \cup {tok}
    /\ cookie' = tok
    /\ page'   = [page   EXCEPT ![t] = "in"]
    /\ access' = [access EXCEPT ![t] = "good"]
    /\ alive' = TRUE
    /\ disturbed' = Overlaps(t)
    /\ UNCHANGED <<call, carried, flight>>

\* The tab forgets the user whether or not the request was served.
Logout(t) ==
    /\ page[t] = "in"
    /\ \/ registered' = registered \ {cookie} /\ cookie' = NoToken
       \/ UNCHANGED <<registered, cookie>>
    /\ alive' = FALSE
    /\ Mount(t, "visit", cookie')
    /\ UNCHANGED disturbed

-----------------------------------------------------------------------------
(* Calls                                                                   *)

\* The request interceptor adds the access token.
Send(t, c) ==
    /\ page[t] = "in" /\ call[t][c] = "idle"
    /\ call'    = [call    EXCEPT ![t][c] = "sent"]
    /\ carried' = [carried EXCEPT ![t][c] = access[t]]
    /\ UNCHANGED <<registered, cookie, page, access, flight, history>>

\* The access token of a tab expires, also in the calls that carry it.
ExpireAccess(t) ==
    /\ access[t] = "good"
    /\ access'  = [access  EXCEPT ![t] = "expired"]
    /\ carried' = [carried EXCEPT ![t] = [c \in Call |->
                      IF @[c] = "good" THEN "expired" ELSE @[c]]]
    /\ UNCHANGED <<registered, cookie, page, call, flight, history>>

\* Any answer but 401, or none.
Return(t, c) ==
    /\ call[t][c] \in {"sent", "retried"}
    /\ call'    = [call    EXCEPT ![t][c] = "idle"]
    /\ carried' = [carried EXCEPT ![t][c] = "none"]
    /\ UNCHANGED <<registered, cookie, page, access, flight, history>>

\* Mutant: each refused call refreshes.
NeverJoins(t) == FALSE

\* isRefreshing.
Joins(t) == Refreshing(t)

\* 401: a call that was not retried yet joins the refresh, or starts it.
Unauthorized(t, c) ==
    /\ call[t][c] = "sent" /\ carried[t][c] = "expired"
    /\ IF Joins(t)
       THEN /\ call' = [call EXCEPT ![t][c] = "queued"]
            /\ UNCHANGED <<flight, disturbed>>
       ELSE /\ call' = [call EXCEPT ![t][c] = "waiting"]
            /\ flight' = Sent(t, c, cookie)
            /\ disturbed' = (disturbed \/ Overlaps(t))
    /\ UNCHANGED <<registered, cookie, page, access, carried, alive>>

RejectRetried(t, c) ==
    /\ call[t][c] = "retried" /\ carried[t][c] = "expired"
    /\ call'    = [call    EXCEPT ![t][c] = "idle"]
    /\ carried' = [carried EXCEPT ![t][c] = "none"]
    /\ UNCHANGED <<registered, cookie, page, access, flight, history>>

\* Mutant: only the call that refreshed goes on.
Alone(t, c) == {c}

\* processQueue: the call that refreshed and those that queued behind it.
Released(t, c) == {c} \cup {d \in Call : call[t][d] = "queued"}

\* They are sent again, with the new access token ...
RefreshSucceeds(t, c) ==
    /\ flight[t][c].at = "ok"
    /\ cookie'  = JarAfter(flight[t][c])
    /\ access'  = [access EXCEPT ![t] = "good"]
    /\ call'    = [call    EXCEPT ![t] = [d \in Call |-> IF d \in Released(t, c) THEN "retried" ELSE @[d]]]
    /\ carried' = [carried EXCEPT ![t] = [d \in Call |-> IF d \in Released(t, c) THEN "good" ELSE @[d]]]
    /\ flight'  = [flight EXCEPT ![t][c] = NoFlight]
    /\ UNCHANGED <<registered, page, history>>

\* ... or are rejected: for 429 the user stays.
RefreshLimited(t, c) ==
    /\ flight[t][c].at = "limited"
    /\ call'    = [call    EXCEPT ![t] = [d \in Call |-> IF d \in Released(t, c) THEN "idle" ELSE @[d]]]
    /\ carried' = [carried EXCEPT ![t] = [d \in Call |-> IF d \in Released(t, c) THEN "none" ELSE @[d]]]
    /\ flight'  = [flight EXCEPT ![t][c] = NoFlight]
    /\ UNCHANGED <<registered, cookie, page, access, history>>

\* For any other failure the tab goes to the login page.
RefreshFails(t, c) ==
    /\ flight[t][c].at \in {"refused", "lost"}
    /\ cookie' = JarAfter(flight[t][c])
    /\ Mount(t, "visit", cookie')
    /\ disturbed' = (disturbed \/ Overlaps(t))
    /\ UNCHANGED <<registered, alive>>

-----------------------------------------------------------------------------

Next ==
    \/ \E t \in Tab, x \in Source :
          \/ RefreshArrives(t, x)
          \/ \E tok \in Token : RefreshRotates(t, x, tok)
          \/ Lose(t, x)
    \/ \E tok \in Token : SessionEnds(tok)
    \/ \E t \in Tab :
          \/ Reload(t) \/ SessionRestored(t) \/ SessionMissing(t)
          \/ \E tok \in Token : Login(t, tok)
          \/ Logout(t) \/ ExpireAccess(t)
    \/ \E t \in Tab, c \in Call :
          \/ Send(t, c) \/ Return(t, c) \/ Unauthorized(t, c) \/ RejectRetried(t, c)
          \/ RefreshSucceeds(t, c) \/ RefreshLimited(t, c) \/ RefreshFails(t, c)

Spec == Init /\ [][Next]_vars

-----------------------------------------------------------------------------
(* Properties                                                              *)

\* A call that was refused for its access token waits only while a refresh of
\* its tab is under way that will retry or reject it (failedQueue, isRefreshing):
\* no call of the page hangs.
NoCallHangs ==
    \A t \in Tab : (\E c \in Call : call[t][c] \in {"queued", "waiting"}) => Refreshing(t)

\* The cookie stays good from a login on, however many calls of a tab are
\* refused at a time (api.ts, refreshSession, refresh), as long as the tabs do
\* not refresh at a time and no answer of a refresh is lost: neither a 429 nor
\* a request that does not arrive costs the session.
SessionKept ==
    alive /\ ~disturbed =>
        \/ cookie \in registered
        \/ \E t \in Tab, x \in Source : flight[t][x].at = "ok" /\ flight[t][x].tok \in registered

=============================================================================
