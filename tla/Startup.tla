-------------------------------- MODULE Startup --------------------------------
(***************************************************************************)
(* What the application creates when it finds it missing.  Each of the     *)
(* Uvicorn worker processes of an installation starts by looking for a     *)
(* user, a category and a role's permissions, and inserts the first admin, *)
(* the default category tree and the default permissions.  The row of      *)
(* business settings is created by the first request that asks for it.     *)
(*                                                                         *)
(* Three ways to do that once: a unique index, whose violation is taken    *)
(* for another worker's success; an advisory lock; and, for the settings,  *)
(* none.                                                                   *)
(***************************************************************************)
EXTENDS Integers, Sequences, FiniteSets

CONSTANTS
    Worker, NoWorker,
    Req,
    Profile,    \* values of the settings that users give
    Default,    \* the values of a row that was not edited
    MaxTrees    \* bound: deletions of all categories

VARIABLES
    step,       \* of each worker's startup
    admin,      \* the worker whose temporary password the first admin has
    trees,      \* default category trees that are not deleted
    seeder,     \* holder of the advisory lock
    roles,      \* the role permissions are stored
    pc, given,  \* of each request on the settings, and what it writes
    picked,     \* the row it found, 0 if none
    settings,   \* the rows of business settings, by number
    \* history
    shown,      \* workers that printed their temporary password
    lost,       \* a worker died after it committed the admin, before it printed
    deletions,  \* times that all categories were deleted
    raced       \* two requests found no settings at a time

workers == <<step, admin, trees, seeder, roles, shown, lost, deletions>>
profile == <<pc, given, picked, settings, raced>>
vars    == <<workers, profile>>

Rows == 1..Cardinality(Req)

TypeOK ==
    /\ step \in [Worker -> {"down", "countUsers", "addAdmin", "print", "lock",
                            "countCategories", "addTree", "countRoles", "addRoles", "up"}]
    /\ admin \in Worker \cup {NoWorker}
    /\ trees \in Nat /\ deletions \in 0..MaxTrees
    /\ seeder \in Worker \cup {NoWorker}
    /\ roles \in BOOLEAN /\ lost \in BOOLEAN /\ raced \in BOOLEAN
    /\ shown \subseteq Worker
    /\ pc \in [Req -> {"ready", "found", "missing"}]
    /\ given \in [Req -> Profile \cup {Default}]
    /\ picked \in [Req -> {0} \cup Rows]
    /\ \E n \in {0} \cup Rows : settings \in [1..n -> Profile \cup {Default}]

\* The migrations ran, with or without the one that stores the permissions.
Init ==
    /\ step = [w \in Worker |-> "down"]
    /\ admin = NoWorker
    /\ trees = 0 /\ deletions = 0
    /\ seeder = NoWorker
    /\ roles \in BOOLEAN
    /\ shown = {} /\ lost = FALSE
    /\ pc = [r \in Req |-> "ready"]
    /\ given = [r \in Req |-> Default]
    /\ picked = [r \in Req |-> 0]
    /\ settings = <<>>
    /\ raced = FALSE

-----------------------------------------------------------------------------
(* The startup of a worker (lifespan)                                      *)

Go(w, from, to) == step[w] = from /\ step' = [step EXCEPT ![w] = to]

Start(w) ==
    /\ Go(w, "down", "countUsers")
    /\ UNCHANGED <<admin, trees, seeder, roles, shown, lost, deletions, profile>>

CountUsers(w) ==
    /\ Go(w, "countUsers", IF admin = NoWorker THEN "addAdmin" ELSE "lock")
    /\ UNCHANGED <<admin, trees, seeder, roles, shown, lost, deletions, profile>>

\* The username is unique: only one worker's insertion is committed, and the
\* others go on quietly.
AddAdmin(w) ==
    /\ \/ /\ admin = NoWorker
          /\ Go(w, "addAdmin", "print")
          /\ admin' = w
       \/ /\ admin # NoWorker
          /\ Go(w, "addAdmin", "lock")
          /\ UNCHANGED admin
    /\ UNCHANGED <<trees, seeder, roles, shown, lost, deletions, profile>>

\* The only time the password appears.
PrintPassword(w) ==
    /\ Go(w, "print", "lock")
    /\ shown' = shown \cup {w}
    /\ UNCHANGED <<admin, trees, seeder, roles, lost, deletions, profile>>

\* Mutant: the worker does not wait.
NoLock(w) == TRUE

\* pg_advisory_xact_lock waits for the worker that holds it.
Unlocked(w) == seeder = NoWorker

LockSeed(w) ==
    /\ Go(w, "lock", "countCategories") /\ Unlocked(w)
    /\ seeder' = w
    /\ UNCHANGED <<admin, trees, roles, shown, lost, deletions, profile>>

\* Deleted categories do not count.  Those that users create are left out: they
\* only keep a worker from adding the tree.
CountCategories(w) ==
    /\ Go(w, "countCategories", IF trees = 0 THEN "addTree" ELSE "countRoles")
    /\ seeder' = IF trees = 0 THEN seeder ELSE NoWorker
    /\ UNCHANGED <<admin, trees, roles, shown, lost, deletions, profile>>

AddTree(w) ==
    /\ Go(w, "addTree", "countRoles")
    /\ trees' = trees + 1
    /\ seeder' = NoWorker
    /\ UNCHANGED <<admin, roles, shown, lost, deletions, profile>>

CountRoles(w) ==
    /\ Go(w, "countRoles", IF roles THEN "up" ELSE "addRoles")
    /\ UNCHANGED <<admin, trees, seeder, roles, shown, lost, deletions, profile>>

\* The role is unique: a row of another worker makes this one roll back.
AddRoles(w) ==
    /\ Go(w, "addRoles", "up")
    /\ roles' = TRUE
    /\ UNCHANGED <<admin, trees, seeder, shown, lost, deletions, profile>>

\* The process dies, and its transaction with it.
Die(w) ==
    /\ step[w] # "down"
    /\ step' = [step EXCEPT ![w] = "down"]
    /\ seeder' = IF seeder = w THEN NoWorker ELSE seeder
    /\ lost' = (lost \/ step[w] = "print")
    /\ UNCHANGED <<admin, trees, roles, shown, deletions, profile>>

\* Users delete all categories, through a worker that is up.
DeleteCategories ==
    /\ \E w \in Worker : step[w] = "up"
    /\ trees > 0 /\ deletions < MaxTrees
    /\ trees' = 0
    /\ deletions' = deletions + 1
    /\ UNCHANGED <<step, admin, seeder, roles, shown, lost, profile>>

-----------------------------------------------------------------------------
(* The business settings (_get_or_create_settings)                         *)

\* Any row is picked: there is no order.  Default stands for a request that only
\* reads the settings.
BeginSettings(r, v) ==
    /\ pc[r] = "ready"
    /\ given' = [given EXCEPT ![r] = v]
    /\ \/ /\ settings = <<>>
          /\ pc' = [pc EXCEPT ![r] = "missing"]
          /\ raced' = (raced \/ \E q \in Req : pc[q] = "missing")
          /\ UNCHANGED picked
       \/ /\ pc' = [pc EXCEPT ![r] = "found"]
          /\ picked' \in {[picked EXCEPT ![r] = n] : n \in DOMAIN settings}
          /\ UNCHANGED raced
    /\ UNCHANGED <<workers, settings>>

EndRequest(r) ==
    /\ pc'     = [pc     EXCEPT ![r] = "ready"]
    /\ given'  = [given  EXCEPT ![r] = Default]
    /\ picked' = [picked EXCEPT ![r] = 0]

\* The request's row, written with what it gives and committed.
Write(r) ==
    IF given[r] = Default THEN settings ELSE [settings EXCEPT ![picked[r]] = given[r]]

CommitSettings(r) ==
    /\ \/ pc[r] = "found"   /\ settings' = Write(r)
       \/ pc[r] = "missing" /\ settings' = Append(settings, given[r])
    /\ EndRequest(r)
    /\ UNCHANGED <<workers, raced>>

Rollback(r) ==
    /\ pc[r] # "ready"
    /\ EndRequest(r)
    /\ UNCHANGED <<workers, settings, raced>>

-----------------------------------------------------------------------------

Next ==
    \/ \E w \in Worker :
          \/ Start(w) \/ CountUsers(w) \/ AddAdmin(w) \/ PrintPassword(w)
          \/ LockSeed(w) \/ CountCategories(w) \/ AddTree(w)
          \/ CountRoles(w) \/ AddRoles(w) \/ Die(w)
    \/ DeleteCategories
    \/ \E r \in Req :
          \/ \E v \in Profile \cup {Default} : BeginSettings(r, v)
          \/ CommitSettings(r) \/ Rollback(r)

Spec == Init /\ [][Next]_vars

-----------------------------------------------------------------------------
(* Properties                                                              *)

\* However many workers start, die and start again, the password of the first
\* admin is printed, and no other one, unless the worker died in between
\* (ensure_initial_admin); there is one category tree
\* (ensure_default_categories); a worker that is up has its permissions
\* (ensure_default_role_permissions); and there is one row of settings unless
\* two requests missed it at a time (_get_or_create_settings).
SeededOnce ==
    /\ shown \subseteq {admin}
    /\ \A w \in Worker : step[w] = "up" =>
          /\ roles /\ admin # NoWorker
          /\ admin \in shown \/ lost \/ step[admin] = "print"
    /\ trees <= 1
    /\ Len(settings) <= 1 \/ raced

=============================================================================
