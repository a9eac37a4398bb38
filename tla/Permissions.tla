------------------------------- MODULE Permissions -------------------------------
(***************************************************************************)
(* Role permissions and the copies of them that the API processes keep.    *)
(* A request runs in one process; between two of its database statements   *)
(* other requests of the process run.  A copy has no time to live: it      *)
(* stays until an update in the same process clears them all, or the       *)
(* process is restarted.                                                   *)
(***************************************************************************)
EXTENDS Integers

CONSTANTS
    Req, Worker, NoWorker,
    Role, Admin, NoRole,    \* roles, one of which may do everything
    Permission,
    NotCached

VARIABLES
    stored,     \* role_permissions, as committed
    cache,      \* process -> role -> what it keeps, or NotCached
    pc, at,     \* where a request is, and the process it runs in
    role,       \* the role it checks or updates
    set,        \* the permissions it read, or is going to store
    missed      \* history: the copies an update did not reach

local == <<pc, at, role, set>>
vars  == <<stored, cache, local, missed>>

Roles     == Role \ {Admin}
Sets      == SUBSET Permission

TypeOK ==
    /\ stored \in [Roles -> Sets]
    /\ cache \in [Worker -> [Roles -> Sets \cup {NotCached}]]
    /\ pc \in [Req -> {"idle", "loading", "loaded", "updating", "flushed"}]
    /\ at \in [Req -> Worker \cup {NoWorker}]
    /\ role \in [Req -> Roles \cup {NoRole}]
    /\ set \in [Req -> Sets]
    /\ missed \subseteq Worker \X Roles

Init ==
    /\ stored \in [Roles -> Sets]
    /\ cache = [w \in Worker |-> [o \in Roles |-> NotCached]]
    /\ pc = [r \in Req |-> "idle"]
    /\ at = [r \in Req |-> NoWorker]
    /\ role = [r \in Req |-> NoRole]
    /\ set = [r \in Req |-> {}]
    /\ missed = {}

-----------------------------------------------------------------------------
(* Checks                                                                  *)

Begin(r, w, o, where, S) ==
    /\ pc[r] = "idle"
    /\ pc'   = [pc   EXCEPT ![r] = where]
    /\ at'   = [at   EXCEPT ![r] = w]
    /\ role' = [role EXCEPT ![r] = o]
    /\ set'  = [set  EXCEPT ![r] = S]

End(r) ==
    /\ pc'   = [pc   EXCEPT ![r] = "idle"]
    /\ at'   = [at   EXCEPT ![r] = NoWorker]
    /\ role' = [role EXCEPT ![r] = NoRole]
    /\ set'  = [set  EXCEPT ![r] = {}]

\* _load_role_permissions, when the process has no copy of the role; with a
\* copy, or for an admin, the check is over at once.
BeginCheck(r, w, o) ==
    /\ cache[w][o] = NotCached
    /\ Begin(r, w, o, "loading", {})
    /\ UNCHANGED <<stored, cache, missed>>

LoadRole(r) ==
    /\ pc[r] = "loading"
    /\ set' = [set EXCEPT ![r] = stored[role[r]]]
    /\ pc'  = [pc  EXCEPT ![r] = "loaded"]
    /\ missed' = IF \E q \in Req : pc[q] = "flushed" /\ role[q] = role[r]
                 THEN missed \cup {<<at[r], role[r]>>} ELSE missed
    /\ UNCHANGED <<stored, cache, at, role>>

KeepRole(r) ==
    /\ pc[r] = "loaded"
    /\ cache' = [cache EXCEPT ![at[r]][role[r]] = set[r]]
    /\ End(r)
    /\ UNCHANGED <<stored, missed>>

-----------------------------------------------------------------------------
(* Updates                                                                 *)

\* update_role_permissions: the row is read ...
BeginUpdate(r, w, o, S) ==
    /\ Begin(r, w, o, "updating", S)
    /\ UNCHANGED <<stored, cache, missed>>

\* Mutant: the copies stay.
ClearNothing(w) == UNCHANGED cache

\* invalidate_permissions_cache.
ClearCopies(w) == cache' = [cache EXCEPT ![w] = [o \in Roles |-> NotCached]]

\* A check of the process has read the role and is about to keep it.
StillToBeKept(c) == \E q \in Req : pc[q] = "loaded" /\ at[q] = c[1] /\ role[q] = c[2]

\* ... its UPDATE, which waits for that of another request, is flushed, and the
\* copies of the process are cleared.
FlushUpdate(r) ==
    /\ pc[r] = "updating"
    /\ \A q \in Req : pc[q] = "flushed" => role[q] # role[r]
    /\ ClearCopies(at[r])
    /\ missed' = {c \in missed : c[1] # at[r] \/ StillToBeKept(c)} \cup
                 {c \in {<<at[r], role[r]>>} : StillToBeKept(c)}
    /\ pc' = [pc EXCEPT ![r] = "flushed"]
    /\ UNCHANGED <<stored, at, role, set>>

\* The other processes that have, or are about to keep, what the update of a
\* role replaces.
Others(w, o) ==
    {v \in Worker \ {w} : cache[v][o] # NotCached \/ StillToBeKept(<<v, o>>)}

CommitUpdate(r) ==
    /\ pc[r] = "flushed"
    /\ stored' = [stored EXCEPT ![role[r]] = set[r]]
    /\ missed' = missed \cup (Others(at[r], role[r]) \X {role[r]})
    /\ End(r)
    /\ UNCHANGED cache

-----------------------------------------------------------------------------

\* A request fails.
Rollback(r) ==
    /\ pc[r] # "idle"
    /\ End(r)
    /\ UNCHANGED <<stored, cache, missed>>

\* A process is restarted: its requests end.
Restart(w) ==
    /\ cache' = [cache EXCEPT ![w] = [o \in Roles |-> NotCached]]
    /\ pc'    = [r \in Req |-> IF at[r] = w THEN "idle" ELSE pc[r]]
    /\ role'  = [r \in Req |-> IF at[r] = w THEN NoRole ELSE role[r]]
    /\ set'   = [r \in Req |-> IF at[r] = w THEN {} ELSE set[r]]
    /\ at'    = [r \in Req |-> IF at[r] = w THEN NoWorker ELSE at[r]]
    /\ missed' = {c \in missed : c[1] # w}
    /\ UNCHANGED stored

Next ==
    \/ \E r \in Req :
          \/ \E w \in Worker, o \in Roles :
                BeginCheck(r, w, o) \/ \E S \in Sets : BeginUpdate(r, w, o, S)
          \/ LoadRole(r) \/ KeepRole(r)
          \/ FlushUpdate(r) \/ CommitUpdate(r)
          \/ Rollback(r)
    \/ \E w \in Worker : Restart(w)

Spec == Init /\ [][Next]_vars

-----------------------------------------------------------------------------
(* Properties                                                              *)

\* A process grants by the permissions that are stored as soon as an update it
\* made is committed.  A copy is older only when another process made the
\* update, or that very role was read before the commit and kept after the
\* copies were cleared; and the next update of any role in the process, or its
\* restart, ends that (check_permission, update_role_permissions).
CopiesCurrent ==
    \A w \in Worker, o \in Roles :
        cache[w][o] # NotCached /\ <<w, o>> \notin missed => cache[w][o] = stored[o]

=============================================================================
