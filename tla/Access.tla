--------------------------------- MODULE Access ---------------------------------
(***************************************************************************)
(* Lockout, Sessions, Permissions, Browser, Jobs and Startup side by side. *)
(*                                                                         *)
(* A login is one thing to the lockout, which is about the user's row, and *)
(* another to the sessions, which are in Redis; what a role may do is      *)
(* asked with each request.  Init chooses which of the modules a behaviour *)
(* is about, and the others rest: what holds of each of them holds here of *)
(* all.                                                                    *)
(***************************************************************************)
EXTENDS Integers

CONSTANTS
    Req,                            \* concurrent requests
    User, NoUser,
    Threshold, MaxLogins,           \* the Threshold and MaxTries of Lockout
    Token, NoToken, ResetToken, NoReset, MaxPassword,
    Worker, NoWorker,               \* processes, of the API and of startup
    Role, Admin, NoRole, Permission, NotCached,
    Tab, Call, Page,
    TabToken, NoTabToken,           \* the Token and NoToken of Browser
    CalmTabs,                       \* bound: the tabs are followed to the first disturbed step
    Job, MaxTries, MaxJobs,
    Profile, Default, MaxTrees

\* Nobody and nothing are not among the values they stand beside.
ASSUME NoneAssumption ==
    /\ NoUser \notin User
    /\ NoToken \notin Token
    /\ NoWorker \notin Worker
    /\ Page \notin Call

\* Bounds are counts: how often a password changes, how often a mail is tried,
\* how often the tree of categories is deleted.
ASSUME BoundAssumption == MaxPassword \in Nat /\ MaxTries \in Nat /\ MaxTrees \in Nat

VARIABLES focus,
          attempts, first, lock, loginPc, loginDoc, loginView, tries, loginRaced,
          registered, used, password, mustChange, session, issued, expiring,
          tokenPc, tokenOp, tokenDoc, tok, key, seen,
          changes, ended, forked, lastReset, tokenRaced,
          stored, cache, grantPc, at, role, set, missed,
          state, jobTries, thread, orphans, sent, unheard,
          step, admin, trees, seeder, roles, shown, lost, deletions,
          settingsPc, given, picked, settings, settingsRaced,
          tokens, cookie, page, access, call, carried, flight, alive, disturbed

logins     == <<attempts, first, lock, loginPc, loginDoc, loginView, tries, loginRaced>>
sessions   == <<registered, used, password, mustChange, session, issued, expiring,
                tokenPc, tokenOp, tokenDoc, tok, key, seen,
                changes, ended, forked, lastReset, tokenRaced>>
grants     == <<stored, cache, grantPc, at, role, set, missed>>
browsing   == <<tokens, cookie, page, access, call, carried, flight, alive, disturbed>>
mails      == <<state, jobTries, thread, orphans, sent, unheard>>
seeds      == <<step, admin, trees, seeder, roles, shown, lost, deletions,
                settingsPc, given, picked, settings, settingsRaced>>
vars       == <<focus, logins, sessions, grants, browsing, mails, seeds>>

Logins    == INSTANCE Lockout
                 WITH pc <- loginPc, doc <- loginDoc, view <- loginView, raced <- loginRaced,
                      MaxTries <- MaxLogins
Tokens    == INSTANCE Sessions
                 WITH pc <- tokenPc, op <- tokenOp, doc <- tokenDoc, raced <- tokenRaced
Grants    == INSTANCE Permissions WITH pc <- grantPc
Tabs      == INSTANCE Browser
                 WITH registered <- tokens, Token <- TabToken, NoToken <- NoTabToken
Mails     == INSTANCE Jobs WITH tries <- jobTries
Seeds     == INSTANCE Startup WITH pc <- settingsPc, raced <- settingsRaced

\* The permissions are stored in some way, and in one where they rest.
Init ==
    /\ focus \in {"logins", "sessions", "grants", "tabs", "mails", "seeds"}
    /\ Logins!Init
    /\ Tokens!Init
    /\ Grants!Init
    /\ Tabs!Init
    /\ Mails!Init
    /\ Seeds!Init
    /\ focus # "seeds" => roles
    /\ focus # "grants" => \A o \in DOMAIN stored : stored[o] = {}

Next ==
    \/ focus = "logins" /\ Logins!Next /\ UNCHANGED <<focus, sessions, grants, browsing, mails, seeds>>
    \/ focus = "sessions" /\ Tokens!Next /\ UNCHANGED <<focus, logins, grants, browsing, mails, seeds>>
    \/ focus = "grants" /\ Grants!Next /\ UNCHANGED <<focus, logins, sessions, browsing, mails, seeds>>
    \/ /\ focus = "tabs" /\ (CalmTabs => ~disturbed)
       /\ Tabs!Next /\ UNCHANGED <<focus, logins, sessions, grants, mails, seeds>>
    \/ focus = "mails" /\ Mails!Next /\ UNCHANGED <<focus, logins, sessions, grants, browsing, seeds>>
    \/ focus = "seeds" /\ Seeds!Next /\ UNCHANGED <<focus, logins, sessions, grants, browsing, mails>>

Spec == Init /\ [][Next]_vars

-----------------------------------------------------------------------------
(* The properties, with the comments of their modules.                     *)

\* The types of the modules' variables.
TypeOK ==
    /\ Logins!TypeOK /\ Tokens!TypeOK /\ Grants!TypeOK
    /\ Tabs!TypeOK /\ Mails!TypeOK /\ Seeds!TypeOK

\* The account is locked at the threshold, or soon after when logins overlap
\* (Lockout).
LockedInTime == Logins!LockedInTime

\* A login that started earlier does not lift a lock (Lockout).
LockHolds == Logins!LockHolds

\* A reset token sets one password (Sessions).
ResetOnce == Tokens!ResetOnce

\* A login has one registered refresh token (Sessions).
OneSessionPerLogin == Tokens!OneSessionPerLogin

\* A reset ends the sessions of the old password (Sessions).
ResetEndsSessions == Tokens!ResetEndsSessions

\* A process grants by what is stored once its update is committed
\* (Permissions).
CopiesCurrent == Grants!CopiesCurrent

\* A refused call waits only for a refresh that is under way (Browser).
NoCallHangs == Tabs!NoCallHangs

\* The cookie stays good through any number of refused calls (Browser).
SessionKept == Tabs!SessionKept

\* A mail is sent again only when its acceptance went unheard (Jobs).
MailedOnce == Mails!MailedOnce

\* What is missing is created once (Startup).
SeededOnce == Seeds!SeededOnce

=============================================================================
