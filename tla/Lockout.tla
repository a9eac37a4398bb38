--------------------------------- MODULE Lockout ---------------------------------
(***************************************************************************)
(* The lockout of an account after failed logins.  A login reads the       *)
(* user's row with no lock, verifies the password, which takes long, and   *)
(* then writes what it computed from the row it read.  Only the columns    *)
(* that differ from what it read are in the UPDATE.  Password changes that *)
(* clear the counters do the same.                                         *)
(*                                                                         *)
(* Time is what it does to the columns: the window of the first failure    *)
(* passes, and a lock runs out.                                            *)
(***************************************************************************)
EXTENDS Integers

CONSTANTS
    Req, User,
    NoUser,     \* what an idle request works on
    Threshold,  \* account_lockout_threshold
    MaxTries    \* the failure that locks the account, at the latest

VARIABLES
    attempts,   \* committed failed_login_attempts
    first,      \* committed first_failed_login_at: none, old, or within the window
    lock,       \* committed locked_until: none, past or future
    pc, doc,
    view,       \* the columns each request read
    tries,      \* history: failures since a login, reset or window cleared them
    raced       \* history: users whose row was written while another request
                \* held what it had read of it

row   == <<attempts, first, lock>>
local == <<pc, doc, view>>
vars  == <<row, local, tries, raced>>

Columns == [attempts : Nat, first : {"none", "old", "recent"},
            lock : {"none", "past", "future"}]
Clear   == [attempts |-> 0, first |-> "none", lock |-> "none"]

Row(u) == [attempts |-> attempts[u], first |-> first[u], lock |-> lock[u]]

TypeOK ==
    /\ attempts \in [User -> Nat]
    /\ first \in [User -> {"none", "old", "recent"}]
    /\ lock \in [User -> {"none", "past", "future"}]
    /\ pc \in [Req -> {"idle", "wrong", "right", "reset"}]
    /\ doc \in [Req -> User \cup {NoUser}]
    /\ view \in [Req -> Columns]
    /\ tries \in [User -> Nat]
    /\ raced \subseteq User

Init ==
    /\ attempts = [u \in User |-> 0]
    /\ first = [u \in User |-> "none"]
    /\ lock = [u \in User |-> "none"]
    /\ pc = [r \in Req |-> "idle"]
    /\ doc = [r \in Req |-> NoUser]
    /\ view = [r \in Req |-> Clear]
    /\ tries = [u \in User |-> 0]
    /\ raced = {}

Others(r, u) == {q \in Req \ {r} : doc[q] = u}

\* The row is being written by r.  Its columns are consistent again once they
\* start over from what they are.
Races(r, afresh) ==
    LET u == doc[r]
    IN  raced' = IF Others(r, u) # {} THEN raced \cup {u}
                 ELSE IF afresh /\ view[r] = Row(u) THEN raced \ {u}
                 ELSE raced

ReadUser(r, u, next) ==
    /\ pc[r] = "idle"
    /\ doc'  = [doc  EXCEPT ![r] = u]
    /\ view' = [view EXCEPT ![r] = Row(u)]
    /\ pc'   = [pc   EXCEPT ![r] = next]
    /\ UNCHANGED <<row, tries, raced>>

\* A login: refused when the account is locked, else the password is wrong or
\* right.
BeginLogin(r, u) ==
    /\ lock[u] # "future"
    /\ \E outcome \in {"wrong", "right"} : ReadUser(r, u, outcome)

\* A password change that clears the lockout: by reset token, by an admin, or
\* the forced change.
BeginReset(r, u) == ReadUser(r, u, "reset")

\* Mutant: the UPDATE has every column.
WriteAll(r, new) ==
    LET u == doc[r]
    IN  /\ attempts' = [attempts EXCEPT ![u] = new.attempts]
        /\ first'    = [first    EXCEPT ![u] = new.first]
        /\ lock'     = [lock     EXCEPT ![u] = new.lock]

\* The UPDATE has the columns that differ from what the session read.
Write(r, new) ==
    LET u == doc[r]
    IN  /\ attempts' = [attempts EXCEPT ![u] = IF new.attempts # view[r].attempts THEN new.attempts ELSE @]
        /\ first'    = [first    EXCEPT ![u] = IF new.first # view[r].first THEN new.first ELSE @]
        /\ lock'     = [lock     EXCEPT ![u] = IF new.lock # view[r].lock THEN new.lock ELSE @]

EndRequest(r) ==
    /\ doc'  = [doc  EXCEPT ![r] = NoUser]
    /\ view' = [view EXCEPT ![r] = Clear]
    /\ pc'   = [pc   EXCEPT ![r] = "idle"]

\* Mutant: the window starts anew at each failure, and the count with it.
CountAgain(r) == 1

\* The failures within the window, this one included.
Count(r) == IF view[r].first = "recent" THEN view[r].attempts + 1 ELSE 1

\* _handle_failed_login.
FailLogin(r) ==
    LET u == doc[r]
        n == Count(r)
    IN  /\ pc[r] = "wrong"
        /\ Write(r, [attempts |-> n, first |-> "recent",
                     lock |-> IF n >= Threshold THEN "future" ELSE view[r].lock])
        /\ tries' = [tries EXCEPT ![u] = IF first[u] = "recent" THEN @ + 1 ELSE 1]
        /\ Races(r, view[r].first # "recent")
        /\ EndRequest(r)

\* The right password, or a new one: the counters are cleared.
ClearFailures(r) ==
    /\ pc[r] \in {"right", "reset"}
    /\ Write(r, Clear)
    /\ tries' = [tries EXCEPT ![doc[r]] = 0]
    /\ Races(r, TRUE)
    /\ EndRequest(r)

Rollback(r) ==
    /\ pc[r] # "idle"
    /\ EndRequest(r)
    /\ UNCHANGED <<row, tries, raced>>

\* The window of the first failure passes; requests that are still at work on
\* the row end first.
WindowPasses(u) ==
    /\ first[u] = "recent"
    /\ \A r \in Req : doc[r] # u
    /\ first' = [first EXCEPT ![u] = "old"]
    /\ UNCHANGED <<attempts, lock, local, tries, raced>>

\* A lock lasts longer than the window.
LockRunsOut(u) ==
    /\ lock[u] = "future" /\ first[u] # "recent"
    /\ lock' = [lock EXCEPT ![u] = "past"]
    /\ UNCHANGED <<attempts, first, local, tries, raced>>

Next ==
    \/ \E r \in Req :
          \/ \E u \in User : BeginLogin(r, u) \/ BeginReset(r, u)
          \/ FailLogin(r)
          \/ ClearFailures(r)
          \/ Rollback(r)
    \/ \E u \in User : WindowPasses(u) \/ LockRunsOut(u)

Spec == Init /\ [][Next]_vars

-----------------------------------------------------------------------------
(* Properties                                                              *)

\* Failed logins that do not overlap lock the account at the threshold
\* (_handle_failed_login).  Overlapping ones lose counts, as each writes the
\* count it read plus one, but not without end: while the window of the first
\* failure lasts the account is locked at the failure MaxTries.
LockedInTime ==
    \A u \in User :
        first[u] = "recent" /\ lock[u] # "future" =>
            /\ tries[u] < MaxTries
            /\ u \notin raced => tries[u] < Threshold

\* A lock is not lifted by a login that read the row before it was set,
\* unless that login found an older lock that had run out: only time and a
\* new password lift it (login, is_locked).
LockHolds ==
    [][\A u \in User :
          lock[u] = "future" /\ lock'[u] # "future" =>
              \/ first[u] # "recent"
              \/ \E r \in Req : doc[r] = u /\ (pc[r] = "reset" \/ view[r].lock = "past")]_vars

=============================================================================
