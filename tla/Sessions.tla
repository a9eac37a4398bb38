-------------------------------- MODULE Sessions --------------------------------
(***************************************************************************)
(* Sign-in sessions.  The refresh tokens of a user that are still good are *)
(* a set in Redis; passwords are in PostgreSQL.  A request works on both,  *)
(* one command after another: the password is committed last, by the       *)
(* router, and any request may fail between two commands.                  *)
(*                                                                         *)
(* A refused request is one that rolls back: whether a user is active, a   *)
(* password right or a token well-formed only decides whether it goes on.  *)
(***************************************************************************)
EXTENDS Integers, FiniteSets

CONSTANTS
    Req, User, Token, ResetToken,
    NoUser, NoToken, NoReset,
    MaxPassword     \* bounds the changes of a password

VARIABLES
    \* Redis
    registered,     \* session:user:<id>: the good refresh tokens of each user
    used,           \* auth:password-reset:used:<jti>
    \* PostgreSQL: users
    password,       \* how often each user's password was changed
    mustChange,
    \* tokens in clients' hands
    session,        \* refresh token -> user, and the login and password behind it
    issued,         \* reset token -> the user it was mailed to
    expiring,       \* reset tokens whose marker expired before they did
    \* requests
    pc, op, doc,
    tok,            \* the refresh token a request was sent, or made
    key,            \* the reset token it was sent
    seen,           \* the user's row as it was read
    \* history
    changes,        \* reset token -> passwords it set
    ended,          \* logins that were logged out
    forked,         \* logins with a token that two requests used at a time
    lastReset,      \* user -> the password set by the last reset
    raced           \* users with a reset that another request overlapped

redis   == <<registered, used>>
rows    == <<password, mustChange>>
client  == <<session, issued, expiring>>
local   == <<pc, op, doc, tok, key, seen>>
history == <<changes, ended, forked, lastReset, raced>>
vars    == <<redis, rows, client, local, history>>

Op == {"login", "refresh", "resetToken", "adminReset", "ownChange", "forced"}
Resets  == {"resetToken", "adminReset"}
Changes == Resets \cup {"ownChange", "forced"}

NoSession == [user |-> NoUser, login |-> NoToken, born |-> 0]
NoRow     == [password |-> 0, mustChange |-> FALSE]
SessionType == [user : User \cup {NoUser}, login : Token \cup {NoToken}, born : 0..MaxPassword + 1]

TypeOK ==
    /\ registered \in [User -> SUBSET Token]
    /\ used \subseteq ResetToken
    /\ password \in [User -> 0..MaxPassword]
    /\ mustChange \in [User -> BOOLEAN]
    /\ session \in [Token -> SessionType]
    /\ issued \in [ResetToken -> User \cup {NoUser}]
    /\ expiring \subseteq ResetToken
    /\ pc \in [Req -> {"idle", "read", "removed", "flushed", "swept", "registered"}]
    /\ op \in [Req -> Op \cup {"none"}]
    /\ doc \in [Req -> User \cup {NoUser}]
    /\ tok \in [Req -> Token \cup {NoToken}]
    /\ key \in [Req -> ResetToken \cup {NoReset}]
    /\ seen \in [Req -> [password : 0..MaxPassword, mustChange : BOOLEAN]]
    /\ changes \in [ResetToken -> Nat]
    /\ ended \subseteq Token /\ forked \subseteq Token
    /\ lastReset \in [User -> 0..MaxPassword]
    /\ raced \subseteq User

Init ==
    /\ registered = [u \in User |-> {}]
    /\ used = {}
    /\ password = [u \in User |-> 0]
    /\ mustChange = [u \in User |-> TRUE]      \* create_user
    /\ session = [t \in Token |-> NoSession]
    /\ issued = [k \in ResetToken |-> NoUser]
    /\ expiring = {}
    /\ pc = [r \in Req |-> "idle"]
    /\ op = [r \in Req |-> "none"]
    /\ doc = [r \in Req |-> NoUser]
    /\ tok = [r \in Req |-> NoToken]
    /\ key = [r \in Req |-> NoReset]
    /\ seen = [r \in Req |-> NoRow]
    /\ changes = [k \in ResetToken |-> 0]
    /\ ended = {} /\ forked = {}
    /\ lastReset = [u \in User |-> 0]
    /\ raced = {}

-----------------------------------------------------------------------------
(* Requests                                                                *)

Others(r, u) == {q \in Req \ {r} : doc[q] = u}

\* UPDATE users locks the row until the request ends.
HoldsRow(q) == op[q] \in Changes /\ pc[q] \in {"flushed", "swept", "registered"}

Go(r, at) == pc' = [pc EXCEPT ![r] = at]

Start(r, kind, u, at) ==
    /\ pc[r] = "idle"
    /\ op'  = [op  EXCEPT ![r] = kind]
    /\ doc' = [doc EXCEPT ![r] = u]
    /\ Go(r, at)

ReadRow(r, u) ==
    seen' = [seen EXCEPT ![r] = [password |-> password[u], mustChange |-> mustChange[u]]]

EndRequest(r) ==
    /\ op'   = [op   EXCEPT ![r] = "none"]
    /\ doc'  = [doc  EXCEPT ![r] = NoUser]
    /\ tok'  = [tok  EXCEPT ![r] = NoToken]
    /\ key'  = [key  EXCEPT ![r] = NoReset]
    /\ seen' = [seen EXCEPT ![r] = NoRow]
    /\ Go(r, "idle")

\* login: the password is right.  A user who must change it first gets a
\* token for that only, and no session.
BeginLogin(r, u) ==
    /\ ~mustChange[u]
    /\ Start(r, "login", u, "read")
    /\ ReadRow(r, u)
    /\ UNCHANGED <<redis, rows, client, tok, key, history>>

\* is_session_valid.
IsSessionValid(t) == session[t].user # NoUser /\ t \in registered[session[t].user]

\* refresh_token: the token is registered ...
CheckSession(r, t) ==
    LET s == session[t]
    IN  /\ IsSessionValid(t)
        /\ Start(r, "refresh", s.user, "read")
        /\ tok' = [tok EXCEPT ![r] = t]
        /\ forked' = IF \E q \in Req : op[q] = "refresh" /\ tok[q] = t
                     THEN forked \cup {s.login} ELSE forked
        /\ UNCHANGED <<redis, rows, client, key, seen, changes, ended, lastReset, raced>>

\* Mutant: the old token stays.
KeepOld(u, t) == UNCHANGED registered

\* remove_session.
RemoveOld(u, t) == registered' = [registered EXCEPT ![u] = @ \ {t}]

\* ... and gives way to a new one.
Rotate(r) ==
    /\ op[r] = "refresh" /\ pc[r] = "read"
    /\ RemoveOld(doc[r], tok[r])
    /\ Go(r, "removed")
    /\ UNCHANGED <<used, rows, client, op, doc, tok, key, seen, history>>

\* What stands behind the token a request makes.
Heir(r, t) ==
    [user  |-> doc[r],
     login |-> IF op[r] = "refresh" THEN session[tok[r]].login ELSE t,
     born  |-> CASE op[r] = "login"   -> seen[r].password
                 [] op[r] = "refresh" -> session[tok[r]].born
                 [] op[r] = "forced"  -> seen[r].password + 1]

\* register_session, with a token that is new.  The answer to a login or a
\* refresh follows; whether it arrives shows in what the client does next.
Register(r, t) ==
    LET u == doc[r]
    IN  /\ \/ op[r] = "login" /\ pc[r] = "read"
           \/ op[r] = "refresh" /\ pc[r] = "removed"
           \/ op[r] = "forced" /\ pc[r] = "flushed"
        /\ session[t] = NoSession
        /\ session' = [session EXCEPT ![t] = Heir(r, t)]
        /\ registered' = [registered EXCEPT ![u] = @ \cup {t}]
        /\ raced' = IF \E q \in Others(r, u) : HoldsRow(q) THEN raced \cup {u} ELSE raced
        /\ IF op[r] = "forced"
           THEN Go(r, "registered") /\ UNCHANGED <<op, doc, tok, key, seen>>
           ELSE EndRequest(r)
        /\ UNCHANGED <<used, rows, issued, expiring, changes, ended, forked, lastReset>>

\* logout.
Logout(t) ==
    LET s == session[t]
    IN  /\ s.user # NoUser
        /\ RemoveOld(s.user, t)
        /\ ended' = IF t \in registered[s.user] THEN ended \cup {s.login} ELSE ended
        /\ forked' = IF \E q \in Req : op[q] = "refresh" /\ tok[q] = t
                     THEN forked \cup {s.login} ELSE forked
        /\ UNCHANGED <<used, rows, client, local, changes, lastReset, raced>>

-----------------------------------------------------------------------------
(* Passwords                                                               *)

\* Mutant: SET without NX.
ClaimAlways(k) == used' = used \cup {k}

\* consume_password_reset_token: SET NX.
Claim(k) == k \notin used /\ used' = used \cup {k}

\* request_password_reset: a user who is there and active is mailed a token.
RequestReset(k, u) ==
    /\ issued[k] = NoUser
    /\ issued' = [issued EXCEPT ![k] = u]
    /\ UNCHANGED <<redis, rows, session, expiring, local, history>>

\* reset_password: the reset token is claimed, then the user is read.
BeginReset(r, k) ==
    /\ issued[k] # NoUser
    /\ Claim(k)
    /\ Start(r, "resetToken", issued[k], "read")
    /\ key' = [key EXCEPT ![r] = k]
    /\ ReadRow(r, issued[k])
    /\ UNCHANGED <<registered, rows, client, tok, history>>

ReadUser(r, u, kind) ==
    /\ Start(r, kind, u, "read")
    /\ ReadRow(r, u)
    /\ UNCHANGED <<redis, rows, client, tok, key, history>>

BeginAdminReset(r, u) == ReadUser(r, u, "adminReset")

BeginOwnChange(r, u) == ReadUser(r, u, "ownChange")

\* force_change_password, with the token that a login gave.
BeginForcedChange(r, u) == mustChange[u] /\ ReadUser(r, u, "forced")

CanWrite(r) ==
    /\ pc[r] = "read"
    /\ \A q \in Others(r, doc[r]) : ~HoldsRow(q)
    /\ password[doc[r]] < MaxPassword

Flush(r) ==
    /\ op[r] \in Changes \ {"ownChange"} /\ CanWrite(r)
    /\ Go(r, "flushed")
    /\ UNCHANGED <<redis, rows, client, op, doc, tok, key, seen, history>>

\* Mutant: only the metadata of the tokens is deleted.
SweepMetadata(r) == UNCHANGED registered

SweepTokens(r) == registered' = [registered EXCEPT ![doc[r]] = {}]

\* revoke_all_sessions, before the password is committed.
Sweep(r) ==
    /\ op[r] \in Resets /\ pc[r] = "flushed"
    /\ SweepTokens(r)
    /\ Go(r, "swept")
    /\ raced' = IF Others(r, doc[r]) = {} THEN raced \ {doc[r]} ELSE raced
    /\ UNCHANGED <<used, rows, client, op, doc, tok, key, seen, changes, ended, forked, lastReset>>

\* must_change_password is written when it differs from what was read.
MustChange(r) ==
    LET new == CASE op[r] = "adminReset" -> TRUE
                 [] op[r] = "forced" -> FALSE
                 [] OTHER -> seen[r].mustChange
    IN  IF new # seen[r].mustChange THEN new ELSE mustChange[doc[r]]

SetPassword(r) ==
    /\ password' = [password EXCEPT ![doc[r]] = @ + 1]
    /\ mustChange' = [mustChange EXCEPT ![doc[r]] = MustChange(r)]
    /\ EndRequest(r)
    /\ UNCHANGED <<redis, client, ended, forked>>

\* A reset is committed, by the router.
SetByReset(r) ==
    LET u == doc[r]
    IN  /\ pc[r] = "swept"
        /\ SetPassword(r)
        /\ lastReset' = [lastReset EXCEPT ![u] = password[u] + 1]
        /\ raced' = IF Others(r, u) # {} THEN raced \cup {u} ELSE raced

CommitReset(r) ==
    /\ op[r] = "resetToken"
    /\ SetByReset(r)
    /\ changes' = [changes EXCEPT ![key[r]] = @ + 1]

CommitAdminReset(r) ==
    /\ op[r] = "adminReset"
    /\ SetByReset(r)
    /\ UNCHANGED changes

\* change_own_password leaves its UPDATE to the commit.
CommitOwnChange(r) ==
    /\ op[r] = "ownChange" /\ CanWrite(r)
    /\ SetPassword(r)
    /\ UNCHANGED <<changes, lastReset, raced>>

CommitForcedChange(r) ==
    /\ op[r] = "forced" /\ pc[r] = "registered"
    /\ SetPassword(r)
    /\ UNCHANGED <<changes, lastReset, raced>>

\* A request is refused, or fails: Redis keeps what it did.
Rollback(r) ==
    /\ pc[r] # "idle"
    /\ EndRequest(r)
    /\ UNCHANGED <<redis, rows, client, history>>

-----------------------------------------------------------------------------
(* Time                                                                    *)

\* The time to live of the marker is rounded down to a second: it is gone in
\* the last second of the token's life.
MarkerExpires(k) ==
    /\ k \in used
    /\ used' = used \ {k}
    /\ expiring' = expiring \cup {k}
    /\ UNCHANGED <<registered, rows, session, issued, local, history>>

Next ==
    \/ \E r \in Req :
          \/ \E u \in User :
                \/ BeginLogin(r, u) \/ BeginAdminReset(r, u)
                \/ BeginOwnChange(r, u) \/ BeginForcedChange(r, u)
          \/ \E t \in Token : CheckSession(r, t) \/ Register(r, t)
          \/ \E k \in ResetToken : BeginReset(r, k)
          \/ Rotate(r)
          \/ Flush(r) \/ Sweep(r)
          \/ CommitReset(r) \/ CommitAdminReset(r)
          \/ CommitOwnChange(r) \/ CommitForcedChange(r)
          \/ Rollback(r)
    \/ \E t \in Token : Logout(t)
    \/ \E k \in ResetToken : MarkerExpires(k) \/ \E u \in User : RequestReset(k, u)

Spec == Init /\ [][Next]_vars

-----------------------------------------------------------------------------
(* Properties                                                              *)

\* A reset token sets one password at most, however many requests send it at
\* a time (reset_password, consume_password_reset_token).  Not in the last
\* second of its life, when its marker may be gone before it is.
ResetOnce == \A k \in ResetToken : changes[k] > 1 => k \in expiring

\* A login has one good refresh token at a time, and none once it was logged
\* out, unless two requests used one of its tokens at a time (refresh_token,
\* logout).
OneSessionPerLogin ==
    \A l \in Token \ forked :
        LET good == {t \in Token : session[t].login = l /\ t \in registered[session[t].user]}
        IN  Cardinality(good) <= (IF l \in ended THEN 0 ELSE 1)

\* After a reset that no other request of the user overlapped, no session
\* goes back to an older password (reset_password, admin_reset_password).
ResetEndsSessions ==
    \A u \in User \ raced : \A t \in registered[u] : session[t].born >= lastReset[u]

=============================================================================
