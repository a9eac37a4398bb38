---------------------------- MODULE ServiceProofs ----------------------------
(***************************************************************************)
(* Theorems about Permissions, Jobs, Startup and Browser, for every set of *)
(* requests, processes, roles, jobs, tabs, calls and tokens: what a role may do *)
(* is what is stored, mails are accounted for, what startup adds it adds once, *)
(* no call waits for a refresh that is over, and the session outlives its  *)
(* refreshes.                                                              *)
(***************************************************************************)
EXTENDS AccountProofs, Sequences

-----------------------------------------------------------------------------
(* Permissions                                                             *)

\* A request at work runs in a process and is about a role.
AtWork == \A r \in Req : grantPc[r] # "idle" => at[r] \in Worker /\ role[r] \in Grants!Roles

\* What a check read, and is about to keep, is as current as a copy.
ReadsCurrent ==
    \A r \in Req :
        grantPc[r] = "loaded" /\ <<at[r], role[r]>> \notin missed => set[r] = stored[role[r]]

\* An update holds the role's row until it commits.
OneUpdate ==
    \A q, r \in Req : grantPc[q] = "flushed" /\ grantPc[r] = "flushed" /\ q # r => role[q] # role[r]

\* Between an update's flush and its commit, the process may fetch again what
\* the update replaces, and misses the update then.
FetchedAgain ==
    \A r \in Req : grantPc[r] = "flushed" =>
        /\ cache[at[r]][role[r]] # NotCached => <<at[r], role[r]>> \in missed
        /\ \A q \in Req :
              grantPc[q] = "loaded" /\ at[q] = at[r] /\ role[q] = role[r]
                  => <<at[r], role[r]>> \in missed

\* What the proof of CopiesCurrent carries.
CopyInvariant ==
    Grants!TypeOK /\ AtWork /\ ReadsCurrent /\ OneUpdate /\ FetchedAgain /\ Grants!CopiesCurrent

\* A step of the composition is a step of Permissions, or leaves it alone.
LEMMA GrantNext == [Next]_vars => [Grants!Next]_(Grants!vars)
BY DEF Next, vars, grants, Grants!vars, Grants!local

\* A behaviour starts with no copy.
LEMMA CopyInit == Grants!Init => CopyInvariant
BY DEF Grants!Init, CopyInvariant, Grants!TypeOK, AtWork, ReadsCurrent, OneUpdate, FetchedAgain,
       Grants!CopiesCurrent, Grants!Sets

\* A request that starts holds nothing yet.
LEMMA CopyBegin ==
    ASSUME CopyInvariant, NEW r \in Req, NEW w \in Worker, NEW o \in Grants!Roles,
           NEW where \in {"loading", "updating"}, NEW S \in Grants!Sets,
           Grants!Begin(r, w, o, where, S), UNCHANGED <<stored, cache, missed>>
    PROVE  CopyInvariant'
<1> USE DEF CopyInvariant, Grants!Begin
<1>1. Grants!TypeOK' /\ AtWork'
  BY DEF Grants!TypeOK, AtWork
<1>2. \A q \in Req : grantPc'[q] \in {"loaded", "flushed"} =>
          grantPc'[q] = grantPc[q] /\ at'[q] = at[q] /\ role'[q] = role[q] /\ set'[q] = set[q]
  BY DEF Grants!TypeOK
<1>3. ReadsCurrent' /\ OneUpdate' /\ FetchedAgain' /\ Grants!CopiesCurrent'
  BY <1>2 DEF ReadsCurrent, OneUpdate, FetchedAgain, Grants!CopiesCurrent
<1> QED
  BY <1>1, <1>3

\* The end of a request leaves what the others hold.
LEMMA EndKeepsOthers ==
    ASSUME CopyInvariant, NEW r \in Req, Grants!End(r)
    PROVE  /\ grantPc' \in [Req -> {"idle", "loading", "loaded", "updating", "flushed"}]
           /\ at' \in [Req -> Worker \cup {NoWorker}]
           /\ role' \in [Req -> Grants!Roles \cup {NoRole}]
           /\ set' \in [Req -> Grants!Sets]
           /\ AtWork' /\ OneUpdate'
           /\ \A q \in Req : grantPc'[q] # "idle" =>
                 /\ q # r
                 /\ grantPc'[q] = grantPc[q] /\ at'[q] = at[q] /\ role'[q] = role[q] /\ set'[q] = set[q]
BY DEF CopyInvariant, Grants!TypeOK, AtWork, OneUpdate, Grants!End, Grants!Sets

\* Every step of Permissions keeps the copies current.
LEMMA CopyStep ==
    ASSUME CopyInvariant, [Grants!Next]_(Grants!vars)
    PROVE  CopyInvariant'
<1> USE DEF CopyInvariant
<1>1. CASE UNCHANGED Grants!vars
  BY <1>1 DEF Grants!vars, Grants!local, Grants!TypeOK, AtWork, ReadsCurrent, OneUpdate, FetchedAgain, Grants!CopiesCurrent
<1>2. ASSUME NEW r \in Req, NEW w \in Worker, NEW o \in Grants!Roles, Grants!BeginCheck(r, w, o)
      PROVE  CopyInvariant'
  BY <1>2, CopyBegin DEF Grants!BeginCheck, Grants!Sets
<1>3. ASSUME NEW r \in Req, NEW w \in Worker, NEW o \in Grants!Roles, NEW S \in Grants!Sets,
             Grants!BeginUpdate(r, w, o, S)
      PROVE  CopyInvariant'
  BY <1>3, CopyBegin DEF Grants!BeginUpdate
<1>4. ASSUME NEW r \in Req, Grants!LoadRole(r) PROVE CopyInvariant'
  <2>1. at[r] \in Worker /\ role[r] \in Grants!Roles /\ stored[role[r]] \in Grants!Sets
    BY <1>4 DEF Grants!LoadRole, AtWork, Grants!TypeOK
  <2>2. Grants!TypeOK' /\ AtWork' /\ OneUpdate'
    BY <1>4, <2>1 DEF Grants!LoadRole, Grants!TypeOK, AtWork, OneUpdate
  <2>3. ReadsCurrent' /\ FetchedAgain' /\ Grants!CopiesCurrent'
    BY <1>4, <2>1 DEF Grants!LoadRole, Grants!TypeOK, ReadsCurrent, FetchedAgain, Grants!CopiesCurrent
  <2>4. QED
    BY <2>2, <2>3
<1>5. ASSUME NEW r \in Req, Grants!KeepRole(r) PROVE CopyInvariant'
  <2>1. /\ grantPc[r] = "loaded" /\ at[r] \in Worker /\ role[r] \in Grants!Roles /\ set[r] \in Grants!Sets
        /\ Grants!End(r) /\ UNCHANGED <<stored, missed>>
    BY <1>5 DEF Grants!KeepRole, AtWork, Grants!TypeOK
  <2>2. \A w \in Worker, o \in Grants!Roles :
            cache'[w][o] = IF w = at[r] /\ o = role[r] THEN set[r] ELSE cache[w][o]
    BY <1>5, <2>1 DEF Grants!KeepRole, Grants!TypeOK
  <2>3. Grants!TypeOK' /\ AtWork' /\ OneUpdate'
    BY <1>5, <2>1, EndKeepsOthers DEF Grants!KeepRole, Grants!TypeOK
  <2>4. ReadsCurrent'
    BY <2>1, EndKeepsOthers DEF ReadsCurrent
  <2>5. FetchedAgain'
    <3>1. ASSUME NEW q \in Req, grantPc'[q] = "flushed"
          PROVE  /\ cache'[at'[q]][role'[q]] # NotCached => <<at'[q], role'[q]>> \in missed'
                 /\ \A p \in Req :
                       grantPc'[p] = "loaded" /\ at'[p] = at'[q] /\ role'[p] = role'[q]
                           => <<at'[q], role'[q]>> \in missed'
      <4>1. /\ grantPc[q] = "flushed" /\ at'[q] = at[q] /\ role'[q] = role[q]
            /\ at[q] \in Worker /\ role[q] \in Grants!Roles
        BY <2>1, <3>1, EndKeepsOthers DEF AtWork
      <4>2. at[q] = at[r] /\ role[q] = role[r] => <<at[q], role[q]>> \in missed
        BY <2>1, <4>1 DEF FetchedAgain
      <4>3. cache'[at[q]][role[q]] # NotCached => <<at[q], role[q]>> \in missed
        BY <2>2, <4>1, <4>2 DEF FetchedAgain
      <4>4. QED
        BY <2>1, <4>1, <4>3, EndKeepsOthers DEF FetchedAgain
    <3>2. QED
      BY <3>1 DEF FetchedAgain
  <2>6. Grants!CopiesCurrent'
    BY <1>5, <2>1, <2>2 DEF Grants!KeepRole, Grants!CopiesCurrent, ReadsCurrent
  <2>7. QED
    BY <2>3, <2>4, <2>5, <2>6
<1>6. ASSUME NEW r \in Req, Grants!FlushUpdate(r) PROVE CopyInvariant'
  <2>1. /\ grantPc[r] = "updating" /\ at[r] \in Worker /\ role[r] \in Grants!Roles
        /\ UNCHANGED <<stored, at, role, set>>
    BY <1>6 DEF Grants!FlushUpdate, AtWork
  <2>2. \A w \in Worker, o \in Grants!Roles :
            cache'[w][o] = IF w = at[r] THEN NotCached ELSE cache[w][o]
    BY <1>6, <2>1 DEF Grants!FlushUpdate, Grants!ClearCopies, Grants!TypeOK
  <2>3. \A w \in Worker, o \in Grants!Roles : w # at[r] => (<<w, o>> \in missed' <=> <<w, o>> \in missed)
    BY <1>6 DEF Grants!FlushUpdate
  <2>4. \A q \in Req : /\ grantPc[q] = "loaded" /\ at[q] = at[r]
                       /\ role[q] = role[r] \/ <<at[q], role[q]>> \in missed
                    => <<at[r], role[q]>> \in missed'
    BY <1>6 DEF Grants!FlushUpdate, Grants!StillToBeKept
  <2>5. \A q \in Req : grantPc'[q] = IF q = r THEN "flushed" ELSE grantPc[q]
    BY <1>6 DEF Grants!FlushUpdate, Grants!TypeOK
  <2>6. Grants!TypeOK' /\ AtWork' /\ OneUpdate'
    BY <1>6, <2>1 DEF Grants!FlushUpdate, Grants!ClearCopies, Grants!TypeOK, AtWork, OneUpdate
  <2>7. ReadsCurrent'
    BY <2>1, <2>3, <2>4, <2>5 DEF ReadsCurrent, AtWork
  <2>8. FetchedAgain'
    BY <2>1, <2>2, <2>3, <2>4, <2>5 DEF FetchedAgain, AtWork
  <2>9. Grants!CopiesCurrent'
    BY <2>1, <2>2, <2>3 DEF Grants!CopiesCurrent
  <2>10. QED
    BY <2>6, <2>7, <2>8, <2>9
<1>7. ASSUME NEW r \in Req, Grants!CommitUpdate(r) PROVE CopyInvariant'
  <2>1. /\ grantPc[r] = "flushed" /\ at[r] \in Worker /\ role[r] \in Grants!Roles /\ set[r] \in Grants!Sets
        /\ Grants!End(r) /\ UNCHANGED cache
    BY <1>7 DEF Grants!CommitUpdate, AtWork, Grants!TypeOK
  <2>2. /\ \A o \in Grants!Roles : stored'[o] = IF o = role[r] THEN set[r] ELSE stored[o]
        /\ \A w \in Worker, o \in Grants!Roles : <<w, o>> \in missed => <<w, o>> \in missed'
    BY <1>7 DEF Grants!CommitUpdate, Grants!TypeOK
  <2>3. \A w \in Grants!Others(at[r], role[r]) : <<w, role[r]>> \in missed'
    BY <1>7 DEF Grants!CommitUpdate
  <2>4. \A w \in Worker : cache[w][role[r]] # NotCached => <<w, role[r]>> \in missed'
    BY <2>1, <2>2, <2>3 DEF Grants!Others, FetchedAgain
  <2>5. \A q \in Req : grantPc[q] = "loaded" /\ role[q] = role[r] => <<at[q], role[r]>> \in missed'
    BY <2>1, <2>2, <2>3 DEF Grants!Others, Grants!StillToBeKept, FetchedAgain, AtWork
  <2>6. Grants!TypeOK' /\ AtWork' /\ OneUpdate'
    <3>1. stored' \in [Grants!Roles -> Grants!Sets] /\ missed' \subseteq Worker \X Grants!Roles
      BY <1>7, <2>1 DEF Grants!CommitUpdate, Grants!Others, Grants!TypeOK
    <3>2. QED
      BY <2>1, <3>1, EndKeepsOthers DEF Grants!TypeOK
  <2>7. ReadsCurrent'
    BY <2>1, <2>2, <2>5, EndKeepsOthers DEF ReadsCurrent, AtWork
  <2>8. FetchedAgain'
    BY <2>1, <2>2, EndKeepsOthers DEF FetchedAgain, AtWork
  <2>9. Grants!CopiesCurrent'
    BY <2>1, <2>2, <2>4 DEF Grants!CopiesCurrent
  <2>10. QED
    BY <2>6, <2>7, <2>8, <2>9
<1>8. ASSUME NEW r \in Req, Grants!Rollback(r) PROVE CopyInvariant'
  <2>1. Grants!End(r) /\ UNCHANGED <<stored, cache, missed>>
    BY <1>8 DEF Grants!Rollback
  <2>2. Grants!TypeOK' /\ AtWork' /\ OneUpdate'
    BY <2>1, EndKeepsOthers DEF Grants!TypeOK
  <2>3. ReadsCurrent' /\ FetchedAgain' /\ Grants!CopiesCurrent'
    BY <2>1, EndKeepsOthers DEF ReadsCurrent, FetchedAgain, Grants!CopiesCurrent
  <2>4. QED
    BY <2>2, <2>3
<1>9. ASSUME NEW w \in Worker, Grants!Restart(w) PROVE CopyInvariant'
  <2>1. /\ \A v \in Worker, o \in Grants!Roles :
               cache'[v][o] = IF v = w THEN NotCached ELSE cache[v][o]
        /\ UNCHANGED stored
    BY <1>9 DEF Grants!Restart, Grants!TypeOK
  <2>2. \A v \in Worker, o \in Grants!Roles : v # w => (<<v, o>> \in missed' <=> <<v, o>> \in missed)
    BY <1>9 DEF Grants!Restart
  <2>3. \A q \in Req : grantPc'[q] # "idle" =>
            /\ grantPc'[q] = grantPc[q] /\ at'[q] = at[q] /\ role'[q] = role[q] /\ set'[q] = set[q]
            /\ at[q] # w
    BY <1>9 DEF Grants!Restart
  <2>4. Grants!TypeOK' /\ AtWork'
    BY <1>9, <2>3 DEF Grants!Restart, Grants!TypeOK, AtWork, Grants!Sets
  <2>5. ReadsCurrent' /\ OneUpdate' /\ FetchedAgain' /\ Grants!CopiesCurrent'
    BY <2>1, <2>2, <2>3 DEF ReadsCurrent, OneUpdate, FetchedAgain, Grants!CopiesCurrent, AtWork
  <2>6. QED
    BY <2>4, <2>5
<1> QED
  BY <1>1, <1>2, <1>3, <1>4, <1>5, <1>6, <1>7, <1>8, <1>9 DEF Grants!Next

\* Every process grants by the stored permissions, unless an update was made in
\* another process or a check overlapped with it.
THEOREM CopiesAreCurrent == Spec => []CopiesCurrent
<1>1. Init => CopyInvariant
  BY CopyInit DEF Init
<1>2. CopyInvariant /\ [Next]_vars => CopyInvariant'
  BY CopyStep, GrantNext
<1>3. CopyInvariant => CopiesCurrent
  BY DEF CopyInvariant, CopiesCurrent
<1>4. QED
  BY <1>1, <1>2, <1>3, PTL DEF Spec

-----------------------------------------------------------------------------
(* Jobs                                                                    *)

\* A mail that the server has, of the current try or of the one that ended
\* well: the worker learns of it, or did.
Heard(j)   == IF thread[j] = "accepted" \/ state[j] = "done" THEN 1 ELSE 0

\* A try whose mail is on its way.
Sending(j) == IF thread[j] = "sending" THEN 1 ELSE 0

\* Every mail is accounted for, and every thread of a try still counts for the
\* mail that it may send.
JobAccounted(j) ==
    /\ state[j] = "running" <=> thread[j] # "none"
    /\ thread[j] = "accepted" \/ state[j] = "done" => sent[j] >= 1
    /\ sent[j] <= unheard[j] + Heard(j)
    /\ sent[j] + orphans[j] + Sending(j) <= jobTries[j]

\* What the proof of MailedOnce carries.
MailInvariant == Mails!TypeOK /\ \A j \in Job : JobAccounted(j)

\* A step of the composition is a step of Jobs, or leaves it alone.
LEMMA MailNext == [Next]_vars => [Mails!Next]_(Mails!vars)
BY DEF Next, vars, mails, Mails!vars

\* A behaviour starts with no mail.
LEMMA MailInit == ASSUME MaxTries \in Nat PROVE Mails!Init => MailInvariant
BY SMT DEF Mails!Init, MailInvariant, Mails!TypeOK, JobAccounted, Heard, Sending

\* A job's step leaves the others alone.
LEMMA MailStep ==
    ASSUME MaxTries \in Nat, MailInvariant, [Mails!Next]_(Mails!vars)
    PROVE  MailInvariant'
<1> USE DEF MailInvariant, Mails!TypeOK, JobAccounted, Heard, Sending
<1>1. CASE UNCHANGED Mails!vars
  BY <1>1, SMT DEF Mails!vars
<1>2. ASSUME NEW j \in Job, Mails!Enqueue(j) PROVE MailInvariant'
  BY <1>2, SMT DEF Mails!Enqueue
<1>3. ASSUME NEW j \in Job, Mails!Start(j) PROVE MailInvariant'
  BY <1>3, SMT DEF Mails!Start
<1>4. ASSUME NEW j \in Job, Mails!GiveUp(j) PROVE MailInvariant'
  BY <1>4, SMT DEF Mails!GiveUp
<1>5. ASSUME NEW j \in Job, Mails!Accept(j) PROVE MailInvariant'
  BY <1>5, SMT DEF Mails!Accept
<1>6. ASSUME NEW j \in Job, Mails!Succeed(j) PROVE MailInvariant'
  BY <1>6, SMT DEF Mails!Succeed, Mails!EndTry
<1>7. ASSUME NEW j \in Job, Mails!FailTransiently(j) PROVE MailInvariant'
  <2>1. Mails!AfterTransient(j) \in {"failed", "queued"}
    BY DEF Mails!AfterTransient
  <2>2. QED
    BY <1>7, <2>1, SMT DEF Mails!FailTransiently, Mails!EndTry
<1>8. ASSUME NEW j \in Job, Mails!FailForGood(j) PROVE MailInvariant'
  BY <1>8, SMT DEF Mails!FailForGood, Mails!EndTry
<1>9. ASSUME NEW j \in Job, Mails!TimeOut(j) \/ Mails!Shutdown(j) PROVE MailInvariant'
  BY <1>9, SMT DEF Mails!TimeOut, Mails!Shutdown, Mails!Abandon, Mails!EndTry
<1>10. ASSUME NEW j \in Job, Mails!Crash(j) PROVE MailInvariant'
  BY <1>10, SMT DEF Mails!Crash, Mails!EndTry
<1>11. ASSUME NEW j \in Job, Mails!EndOrphan(j) PROVE MailInvariant'
  BY <1>11, SMT DEF Mails!EndOrphan
<1> QED
  BY <1>1, <1>2, <1>3, <1>4, <1>5, <1>6, <1>7, <1>8, <1>9, <1>10, <1>11 DEF Mails!Next

\* The accounts say what MailedOnce says.
LEMMA MailImplied == ASSUME MailInvariant PROVE Mails!MailedOnce
BY SMT DEF MailInvariant, Mails!TypeOK, JobAccounted, Heard, Sending, Mails!MailedOnce

\* A job that ended well has sent its mail, a mail that was sent before is sent
\* again only if the worker did not learn of it, and no more mails are sent than
\* there were tries (MailedOnce).
THEOREM MailsAreAccounted == Spec => []MailedOnce
<1>1. Init => MailInvariant
  BY MailInit, BoundAssumption DEF Init
<1>2. MailInvariant /\ [Next]_vars => MailInvariant'
  BY MailStep, MailNext, BoundAssumption
<1>3. MailInvariant => MailedOnce
  BY MailImplied DEF MailedOnce
<1>4. QED
  BY <1>1, <1>2, <1>3, PTL DEF Spec

-----------------------------------------------------------------------------
(* Startup                                                                 *)

\* The steps of a worker that starts.
Steps == {"down", "countUsers", "addAdmin", "print", "lock", "countCategories", "addTree",
          "countRoles", "addRoles", "up"}

\* The first admin is the one of one worker, which prints its password unless
\* it dies.
AdminSeeded ==
    /\ shown \subseteq {admin}
    /\ \A w \in Worker : step[w] = "print" => admin = w
    /\ \A w \in Worker : step[w] \notin {"down", "countUsers", "addAdmin", "print"} => admin # NoWorker
    /\ admin # NoWorker => admin \in shown \/ lost \/ step[admin] = "print"

\* Only the holder of the advisory lock counts the categories and adds the tree.
TreeSeeded ==
    /\ \A w \in Worker : step[w] \in {"countCategories", "addTree"} => seeder = w
    /\ \A w \in Worker : step[w] = "addTree" => trees = 0
    /\ trees <= 1

\* A worker that is up has found the roles, or added them.
RolesSeeded == \A w \in Worker : step[w] = "up" => roles

\* The types of what the workers share.
StartupTypes ==
    /\ step \in [Worker -> Steps]
    /\ admin \in Worker \cup {NoWorker}
    /\ trees \in Nat /\ deletions \in 0..MaxTrees
    /\ seeder \in Worker \cup {NoWorker}
    /\ roles \in BOOLEAN /\ lost \in BOOLEAN
    /\ shown \subseteq Worker

\* What the proof of SeededOnce carries of the workers.
StartupInvariant == StartupTypes /\ AdminSeeded /\ TreeSeeded /\ RolesSeeded

\* A step of the composition is a step of Startup, or leaves it alone.
LEMMA SeedNext == [Next]_vars => [Seeds!Next]_(Seeds!vars)
BY DEF Next, vars, seeds, Seeds!vars, Seeds!workers, Seeds!profile

\* A behaviour starts with every worker down and nothing added.
LEMMA StartupInit == Seeds!Init => StartupInvariant
<1> SUFFICES ASSUME Seeds!Init PROVE StartupInvariant
  OBVIOUS
<1>1. \A w \in Worker : step[w] = "down"
  BY DEF Seeds!Init
<1>2. StartupTypes
  <2>1. roles \in BOOLEAN /\ lost \in BOOLEAN /\ shown \subseteq Worker
    BY Zenon DEF Seeds!Init
  <2>2. /\ step \in [Worker -> Steps] /\ admin \in Worker \cup {NoWorker}
        /\ trees \in Nat /\ deletions \in 0..MaxTrees /\ seeder \in Worker \cup {NoWorker}
    BY BoundAssumption DEF Seeds!Init, Steps
  <2>3. QED
    BY <2>1, <2>2 DEF StartupTypes
<1>3. AdminSeeded /\ TreeSeeded /\ RolesSeeded
  BY <1>1, NoneAssumption DEF Seeds!Init, AdminSeeded, TreeSeeded, RolesSeeded
<1>4. QED
  BY <1>2, <1>3 DEF StartupInvariant

\* Every step of Startup keeps what the workers added single.
LEMMA StartupStep ==
    ASSUME StartupInvariant, [Seeds!Next]_(Seeds!vars)
    PROVE  StartupInvariant'
<1> USE DEF StartupInvariant, StartupTypes, Steps
<1>1. CASE UNCHANGED Seeds!workers
  BY <1>1 DEF Seeds!workers, AdminSeeded, TreeSeeded, RolesSeeded
<1>2. ASSUME NEW w \in Worker, NEW from \in Steps, NEW to \in Steps, Seeds!Go(w, from, to)
      PROVE  /\ step' \in [Worker -> Steps]
             /\ step[w] = from /\ step'[w] = to
             /\ \A v \in Worker : v # w => step'[v] = step[v]
  BY <1>2 DEF Seeds!Go
<1>3. ASSUME NEW w \in Worker, Seeds!Start(w) \/ Seeds!CountUsers(w) PROVE StartupInvariant'
  <2>1. PICK from \in {"down", "countUsers"}, to \in {"countUsers", "addAdmin", "lock"} :
            /\ Seeds!Go(w, from, to) /\ UNCHANGED <<admin, trees, seeder, roles, shown, lost, deletions>>
            /\ to = "lock" => admin # NoWorker
    BY <1>3 DEF Seeds!Start, Seeds!CountUsers
  <2>2. /\ step' \in [Worker -> Steps] /\ step[w] = from /\ step'[w] = to
        /\ \A v \in Worker : v # w => step'[v] = step[v]
    BY <1>2, <2>1
  <2>3. QED
    BY <2>1, <2>2, NoneAssumption DEF AdminSeeded, TreeSeeded, RolesSeeded
<1>4. ASSUME NEW w \in Worker, Seeds!AddAdmin(w) PROVE StartupInvariant'
  <2>1. PICK to \in {"print", "lock"} :
            /\ Seeds!Go(w, "addAdmin", to) /\ UNCHANGED <<trees, seeder, roles, shown, lost, deletions>>
            /\ \/ to = "print" /\ admin = NoWorker /\ admin' = w
               \/ to = "lock" /\ admin # NoWorker /\ admin' = admin
    BY <1>4 DEF Seeds!AddAdmin
  <2>2. /\ step' \in [Worker -> Steps] /\ step[w] = "addAdmin" /\ step'[w] = to
        /\ \A v \in Worker : v # w => step'[v] = step[v]
    BY <1>2, <2>1
  <2>3. QED
    BY <2>1, <2>2, NoneAssumption DEF AdminSeeded, TreeSeeded, RolesSeeded
<1>5. ASSUME NEW w \in Worker, Seeds!PrintPassword(w) PROVE StartupInvariant'
  BY <1>2, <1>5, NoneAssumption DEF Seeds!PrintPassword, AdminSeeded, TreeSeeded, RolesSeeded
<1>6. ASSUME NEW w \in Worker, Seeds!LockSeed(w) PROVE StartupInvariant'
  BY <1>2, <1>6, NoneAssumption DEF Seeds!LockSeed, Seeds!Unlocked, AdminSeeded, TreeSeeded, RolesSeeded
<1>7. ASSUME NEW w \in Worker, Seeds!CountCategories(w) PROVE StartupInvariant'
  <2>1. PICK to \in {"addTree", "countRoles"} :
            /\ Seeds!Go(w, "countCategories", to) /\ UNCHANGED <<admin, trees, roles, shown, lost, deletions>>
            /\ IF to = "addTree" THEN trees = 0 /\ seeder' = seeder ELSE seeder' = NoWorker
    BY <1>7 DEF Seeds!CountCategories
  <2>2. /\ step' \in [Worker -> Steps] /\ step[w] = "countCategories" /\ step'[w] = to
        /\ \A v \in Worker : v # w => step'[v] = step[v]
    BY <1>2, <2>1
  <2>3. AdminSeeded' /\ RolesSeeded'
    BY <2>1, <2>2, NoneAssumption DEF AdminSeeded, RolesSeeded
  <2>4. TreeSeeded'
    BY <2>1, <2>2, NoneAssumption DEF TreeSeeded
  <2>5. QED
    BY <2>1, <2>2, <2>3, <2>4
<1>8. ASSUME NEW w \in Worker, Seeds!AddTree(w) PROVE StartupInvariant'
  <2>1. /\ step' \in [Worker -> Steps] /\ step[w] = "addTree" /\ step'[w] = "countRoles"
        /\ \A v \in Worker : v # w => step'[v] = step[v]
    BY <1>2, <1>8 DEF Seeds!AddTree
  <2>2. AdminSeeded' /\ RolesSeeded'
    BY <1>8, <2>1, NoneAssumption DEF Seeds!AddTree, AdminSeeded, RolesSeeded
  <2>3. TreeSeeded'
    BY <1>8, <2>1, NoneAssumption DEF Seeds!AddTree, TreeSeeded
  <2>4. QED
    BY <1>8, <2>1, <2>2, <2>3 DEF Seeds!AddTree
<1>9. ASSUME NEW w \in Worker, Seeds!CountRoles(w) \/ Seeds!AddRoles(w) PROVE StartupInvariant'
  <2>1. PICK from \in {"countRoles", "addRoles"}, to \in {"up", "addRoles"} :
            /\ Seeds!Go(w, from, to) /\ UNCHANGED <<admin, trees, seeder, shown, lost, deletions>>
            /\ roles' \in BOOLEAN /\ (roles => roles') /\ (to = "up" => roles')
    BY <1>9 DEF Seeds!CountRoles, Seeds!AddRoles
  <2>2. /\ step' \in [Worker -> Steps] /\ step[w] = from /\ step'[w] = to
        /\ \A v \in Worker : v # w => step'[v] = step[v]
    BY <1>2, <2>1
  <2>3. AdminSeeded' /\ TreeSeeded'
    BY <2>1, <2>2, NoneAssumption DEF AdminSeeded, TreeSeeded
  <2>4. RolesSeeded'
    BY <2>1, <2>2 DEF RolesSeeded
  <2>5. QED
    BY <2>1, <2>2, <2>3, <2>4
<1>10. ASSUME NEW w \in Worker, Seeds!Die(w) PROVE StartupInvariant'
  <2>1. /\ step' \in [Worker -> Steps] /\ step'[w] = "down"
        /\ \A v \in Worker : v # w => step'[v] = step[v]
    BY <1>10 DEF Seeds!Die
  <2>2. AdminSeeded'
    BY <1>10, <2>1, NoneAssumption DEF Seeds!Die, AdminSeeded
  <2>3. TreeSeeded' /\ RolesSeeded'
    BY <1>10, <2>1 DEF Seeds!Die, TreeSeeded, RolesSeeded
  <2>4. QED
    BY <1>10, <2>1, <2>2, <2>3 DEF Seeds!Die
<1>11. CASE Seeds!DeleteCategories
  BY <1>11, BoundAssumption DEF Seeds!DeleteCategories, AdminSeeded, TreeSeeded, RolesSeeded
<1>12. ASSUME NEW r \in Req, (\E v \in Profile \cup {Default} : Seeds!BeginSettings(r, v))
                             \/ Seeds!CommitSettings(r) \/ Seeds!Rollback(r)
       PROVE  StartupInvariant'
  BY <1>1, <1>12 DEF Seeds!BeginSettings, Seeds!CommitSettings, Seeds!Rollback
<1>13. CASE UNCHANGED Seeds!vars
  BY <1>1, <1>13 DEF Seeds!vars
<1> QED
  BY <1>3, <1>4, <1>5, <1>6, <1>7, <1>8, <1>9, <1>10, <1>11, <1>12, <1>13 DEF Seeds!Next

\* The types of the settings and of the requests about them.
ProfileTypes ==
    /\ settingsPc \in [Req -> {"ready", "found", "missing"}]
    /\ settings \in Seq(Profile \cup {Default})
    /\ given \in [Req -> Profile \cup {Default}]
    /\ picked \in [Req -> Nat]
    /\ settingsRaced \in BOOLEAN

\* A request that found no row is the only one, and there is none, unless two
\* missed it at a time.
MissedOnce ==
    /\ \A r \in Req : settingsPc[r] = "missing" => Len(settings) = 0
    /\ \A r, q \in Req : settingsPc[r] = "missing" /\ settingsPc[q] = "missing" => r = q
    /\ Len(settings) <= 1

\* What the proof of SeededOnce carries of the settings.
ProfileInvariant == ProfileTypes /\ (settingsRaced \/ MissedOnce)

\* A behaviour starts with no settings.
LEMMA ProfileInit == Seeds!Init => ProfileInvariant
<1> SUFFICES ASSUME Seeds!Init PROVE ProfileInvariant
  OBVIOUS
<1>1. settings \in Seq(Profile \cup {Default}) /\ Len(settings) = 0
  BY DEF Seeds!Init
<1>2. \A r \in Req : settingsPc[r] = "ready"
  BY DEF Seeds!Init
<1>3. MissedOnce
  BY <1>1, <1>2 DEF MissedOnce
<1>4. settingsRaced \in BOOLEAN
  BY Zenon DEF Seeds!Init
<1>5. /\ settingsPc \in [Req -> {"ready", "found", "missing"}]
      /\ given \in [Req -> Profile \cup {Default}] /\ picked \in [Req -> Nat]
  BY DEF Seeds!Init
<1>6. QED
  BY <1>1, <1>3, <1>4, <1>5 DEF ProfileInvariant, ProfileTypes

\* Every step of Startup keeps the settings a single row.
LEMMA ProfileStep ==
    ASSUME ProfileInvariant, [Seeds!Next]_(Seeds!vars)
    PROVE  ProfileInvariant'
<1> USE DEF ProfileInvariant, ProfileTypes
<1>1. CASE UNCHANGED Seeds!profile
  BY <1>1 DEF Seeds!profile, MissedOnce
<1>2. ASSUME NEW r \in Req, NEW v \in Profile \cup {Default}, Seeds!BeginSettings(r, v) PROVE ProfileInvariant'
  <2>1. given' \in [Req -> Profile \cup {Default}] /\ UNCHANGED settings
    BY <1>2 DEF Seeds!BeginSettings
  <2>2. CASE /\ settings = <<>> /\ settingsPc' = [settingsPc EXCEPT ![r] = "missing"]
             /\ settingsRaced' = (settingsRaced \/ \E q \in Req : settingsPc[q] = "missing")
             /\ UNCHANGED picked
    BY <2>1, <2>2 DEF MissedOnce
  <2>3. CASE /\ settingsPc' = [settingsPc EXCEPT ![r] = "found"]
             /\ picked' \in {[picked EXCEPT ![r] = n] : n \in DOMAIN settings}
             /\ UNCHANGED settingsRaced
    BY <2>1, <2>3 DEF MissedOnce
  <2>4. QED
    BY <1>2, <2>2, <2>3 DEF Seeds!BeginSettings
<1>3. ASSUME NEW r \in Req, Seeds!EndRequest(r), settings' \in Seq(Profile \cup {Default}),
             \/ Len(settings') = Len(settings)
             \/ settingsPc[r] = "missing" /\ Len(settings') = Len(settings) + 1,
             UNCHANGED settingsRaced
      PROVE  ProfileInvariant'
  <2>1. /\ settingsPc' \in [Req -> {"ready", "found", "missing"}]
        /\ given' \in [Req -> Profile \cup {Default}] /\ picked' \in [Req -> Nat]
        /\ \A q \in Req : settingsPc'[q] = IF q = r THEN "ready" ELSE settingsPc[q]
    BY <1>3 DEF Seeds!EndRequest
  <2>2. ASSUME MissedOnce PROVE MissedOnce'
    <3>1. Len(settings) \in Nat /\ Len(settings') \in Nat
      BY <1>3
    <3>2. \A q \in Req : settingsPc'[q] = "missing" => q # r /\ settingsPc[q] = "missing"
      BY <2>1
    <3>3. CASE Len(settings') = Len(settings)
      BY <2>2, <3>2, <3>3 DEF MissedOnce
    <3>4. CASE settingsPc[r] = "missing" /\ Len(settings') = Len(settings) + 1
      <4>1. Len(settings') = 1
        BY <1>3, <2>2, <3>1, <3>4 DEF MissedOnce
      <4>2. \A q \in Req : settingsPc'[q] # "missing"
        BY <1>3, <2>2, <3>2, <3>4 DEF MissedOnce
      <4>3. QED
        BY <4>1, <4>2 DEF MissedOnce
    <3>5. QED
      BY <1>3, <3>3, <3>4
  <2>3. QED
    BY <1>3, <2>1, <2>2
<1>4. ASSUME NEW r \in Req, Seeds!CommitSettings(r) PROVE ProfileInvariant'
  <2>1. Seeds!EndRequest(r) /\ UNCHANGED settingsRaced /\ given[r] \in Profile \cup {Default}
    BY <1>4 DEF Seeds!CommitSettings
  <2>2. CASE settingsPc[r] = "found" /\ settings' = Seeds!Write(r)
    <3>1. settings' \in Seq(Profile \cup {Default}) /\ Len(settings') = Len(settings)
      <4>1. settings' = settings \/ settings' = [settings EXCEPT ![picked[r]] = given[r]]
        BY <2>2 DEF Seeds!Write
      <4>2. settings \in [1..Len(settings) -> Profile \cup {Default}] /\ Len(settings) \in Nat
        OBVIOUS
      <4>3. settings' \in [1..Len(settings) -> Profile \cup {Default}]
        BY <2>1, <4>1, <4>2
      <4>4. QED
        BY <4>2, <4>3
    <3>2. QED
      BY <1>3, <2>1, <3>1
  <2>3. CASE settingsPc[r] = "missing" /\ settings' = Append(settings, given[r])
    BY <1>3, <2>1, <2>3
  <2>4. QED
    BY <1>4, <2>2, <2>3 DEF Seeds!CommitSettings
<1>5. ASSUME NEW r \in Req, Seeds!Rollback(r) PROVE ProfileInvariant'
  BY <1>3, <1>5 DEF Seeds!Rollback
<1>6. ASSUME NEW w \in Worker, \/ Seeds!Start(w) \/ Seeds!CountUsers(w) \/ Seeds!AddAdmin(w)
          \/ Seeds!PrintPassword(w) \/ Seeds!LockSeed(w) \/ Seeds!CountCategories(w) \/ Seeds!AddTree(w)
          \/ Seeds!CountRoles(w) \/ Seeds!AddRoles(w) \/ Seeds!Die(w)
      PROVE  ProfileInvariant'
  BY <1>1, <1>6 DEF Seeds!Start, Seeds!CountUsers, Seeds!AddAdmin, Seeds!PrintPassword, Seeds!LockSeed,
     Seeds!CountCategories, Seeds!AddTree, Seeds!CountRoles, Seeds!AddRoles, Seeds!Die
<1>7. CASE Seeds!DeleteCategories
  BY <1>1, <1>7 DEF Seeds!DeleteCategories
<1>8. CASE UNCHANGED Seeds!vars
  BY <1>1, <1>8 DEF Seeds!vars
<1> QED
  BY <1>2, <1>4, <1>5, <1>6, <1>7, <1>8 DEF Seeds!Next

\* However many workers start at a time and die in between: one admin is added
\* and its password printed unless the worker died, one tree of categories stands,
\* the roles are there once a worker is up, and the settings are one row unless two
\* requests missed it at a time (SeededOnce).
THEOREM StartupSeedsOnce == Spec => []SeededOnce
<1>1. Init => StartupInvariant /\ ProfileInvariant
  BY StartupInit, ProfileInit DEF Init
<1>2. StartupInvariant /\ ProfileInvariant /\ [Next]_vars => StartupInvariant' /\ ProfileInvariant'
  BY StartupStep, ProfileStep, SeedNext
<1>3. StartupInvariant /\ ProfileInvariant => SeededOnce
  BY DEF StartupInvariant, AdminSeeded, TreeSeeded, RolesSeeded, ProfileInvariant, ProfileTypes, MissedOnce, SeededOnce, Seeds!SeededOnce
<1>4. QED
  BY <1>1, <1>2, <1>3, PTL DEF Spec

-----------------------------------------------------------------------------
(* Browser: calls that wait                                                *)

\* A refresh call, or none.
Flights == [at : {"none", "sent", "checked", "ok", "refused", "limited", "lost"},
            tok : TabToken \cup {NoTabToken}]

\* The types of what the tabs share and keep.
TabTypes ==
    /\ cookie \in TabToken \cup {NoTabToken}
    /\ page \in [Tab -> {"load", "visit", "form", "in"}]
    /\ call \in [Tab -> [Call -> {"idle", "sent", "queued", "waiting", "retried"}]]
    /\ flight \in [Tab -> [Tabs!Source -> Flights]]

\* A tab refreshes once at a time: isRefreshing for its calls, and the auth hook
\* only while the page has sent none yet.
OneRefresh(t) ==
    /\ \A x, y \in Tabs!Source : flight[t][x].at # "none" /\ flight[t][y].at # "none" => x = y
    /\ flight[t][Page].at # "none" =>
          /\ page[t] \in {"load", "visit"}
          /\ \A c \in Call : call[t][c] = "idle"

\* Who waits for the call that refreshes has it to wait for.
Awaited(t) ==
    \A c \in Call :
        /\ call[t][c] = "waiting" => flight[t][c].at # "none"
        /\ call[t][c] = "queued" => Tabs!Refreshing(t)

\* What the proof of NoCallHangs carries.
TabInvariant == TabTypes /\ \A t \in Tab : OneRefresh(t) /\ Awaited(t)

\* A step of the composition is a step of Browser, or leaves it alone.
LEMMA TabNext == [Next]_vars => [Tabs!Next]_(Tabs!vars)
BY DEF Next, vars, browsing, Tabs!vars, Tabs!tabs, Tabs!history

\* A behaviour starts with every page away.
LEMMA TabInit == Tabs!Init => TabInvariant
BY DEF Tabs!Init, TabInvariant, TabTypes, Flights, Tabs!NoFlight, OneRefresh, Awaited, Tabs!Source

\* An invariant of each tab on its own is kept by a step of one tab that keeps
\* it there.
LEMMA OtherTabs ==
    ASSUME TabInvariant, TabTypes', NEW t \in Tab,
           \A u \in Tab \ {t} :
               page'[u] = page[u] /\ call'[u] = call[u] /\ flight'[u] = flight[u],
           OneRefresh(t)', Awaited(t)'
    PROVE  TabInvariant'
BY DEF TabInvariant, OneRefresh, Awaited, Tabs!Refreshing

\* A refresh that goes on is still there.
LEMMA FlightGoesOn ==
    ASSUME TabInvariant, NEW t \in Tab, NEW x \in Tabs!Source, NEW f \in Flights,
           flight[t][x].at # "none", f.at # "none",
           flight' = [flight EXCEPT ![t][x] = f],
           UNCHANGED <<cookie, page, call>>
    PROVE  TabInvariant'
<1>1. TabTypes'
  BY DEF TabInvariant, TabTypes
<1>2. \A u \in Tab, y \in Tabs!Source : flight'[u][y].at # "none" <=> flight[u][y].at # "none"
  BY DEF TabInvariant, TabTypes
<1>3. Page \in Tabs!Source /\ Call \subseteq Tabs!Source
  BY DEF Tabs!Source
<1>4. QED
  BY <1>1, <1>2, <1>3 DEF TabInvariant, OneRefresh, Awaited, Tabs!Refreshing

\* A page that is loaded refreshes and has no calls.
LEMMA MountStartsAnew ==
    ASSUME TabInvariant, cookie' \in TabToken \cup {NoTabToken},
           NEW t \in Tab, NEW where \in {"load", "visit"}, Tabs!Mount(t, where, cookie')
    PROVE  TabInvariant'
<1> USE DEF Tabs!Mount, TabInvariant, TabTypes
<1>1. TabTypes'
  BY DEF Flights, Tabs!NoFlight
<1>2. /\ page'[t] = where
      /\ \A c \in Call : call'[t][c] = "idle"
      /\ \A x \in Tabs!Source : flight'[t][x].at # "none" => x = Page
  BY DEF Tabs!NoFlight
<1>3. OneRefresh(t)' /\ Awaited(t)'
  BY <1>2 DEF OneRefresh, Awaited
<1>4. QED
  BY <1>1, <1>3, OtherTabs

\* A refresh of a call that ends releases every call that waits.
LEMMA RefreshReleases ==
    ASSUME Page \notin Call, TabInvariant, cookie' \in TabToken \cup {NoTabToken},
           NEW t \in Tab, NEW c \in Call, flight[t][c].at # "none",
           NEW where \in {"retried", "idle"},
           call' = [call EXCEPT ![t] = [d \in Call |->
                       IF d \in Tabs!Released(t, c) THEN where ELSE @[d]]],
           flight' = [flight EXCEPT ![t][c] = Tabs!NoFlight],
           UNCHANGED page
    PROVE  TabInvariant'
<1> USE DEF TabInvariant
<1>1. c \in Tabs!Source /\ Page \in Tabs!Source /\ Call \subseteq Tabs!Source
  BY DEF Tabs!Source
<1>2. TabTypes'
  BY DEF TabTypes, Tabs!NoFlight, Flights
<1>3. \A x \in Tabs!Source : flight'[t][x].at = "none"
  BY <1>1 DEF TabTypes, Tabs!NoFlight, OneRefresh
<1>4. \A d \in Call : call[t][d] = "waiting" => d = c
  BY <1>1 DEF OneRefresh, Awaited
<1>5. \A d \in Call : call'[t][d] \notin {"waiting", "queued"}
  BY <1>4 DEF TabTypes, Tabs!Released
<1>6. OneRefresh(t)' /\ Awaited(t)'
  BY <1>1, <1>3, <1>5 DEF OneRefresh, Awaited
<1>7. QED
  BY <1>2, <1>6, OtherTabs DEF TabTypes

\* A call that waits for nothing before the step nor after it.
LEMMA CallMoves ==
    ASSUME TabInvariant, NEW t \in Tab, NEW c \in Call,
           NEW where \in {"idle", "sent", "retried"},
           call' = [call EXCEPT ![t][c] = where],
           where # "idle" => page[t] = "in",
           UNCHANGED <<cookie, page, flight>>
    PROVE  TabInvariant'
<1> USE DEF TabInvariant, TabTypes
<1>1. TabTypes'
  OBVIOUS
<1>2. \A d \in Call : call'[t][d] = IF d = c THEN where ELSE call[t][d]
  OBVIOUS
<1>3. OneRefresh(t)' /\ Awaited(t)'
  BY <1>2 DEF OneRefresh, Awaited, Tabs!Refreshing
<1>4. QED
  BY <1>1, <1>3, OtherTabs

\* Every step of Browser keeps the waiting calls awaited.
LEMMA TabStep ==
    ASSUME Page \notin Call, TabInvariant, [Tabs!Next]_(Tabs!vars)
    PROVE  TabInvariant'
<1>1. CASE UNCHANGED <<cookie, page, call, flight>>
  BY <1>1 DEF TabInvariant, TabTypes, OneRefresh, Awaited, Tabs!Refreshing
<1>2. ASSUME NEW t \in Tab, NEW x \in Tabs!Source, Tabs!RefreshArrives(t, x) PROVE TabInvariant'
  <2>1. PICK answer \in {"limited", "checked", "refused"} :
            flight' = [flight EXCEPT ![t][x].at = answer]
    BY <1>2 DEF Tabs!RefreshArrives
  <2>2. flight[t][x] \in Flights
    BY DEF TabInvariant, TabTypes
  <2>3. [flight[t][x] EXCEPT !.at = answer] \in Flights
    BY <2>2 DEF Flights
  <2>4. flight' = [flight EXCEPT ![t][x] = [flight[t][x] EXCEPT !.at = answer]]
    BY <2>1 DEF TabInvariant, TabTypes
  <2>5. QED
    BY <1>2, <2>3, <2>4, FlightGoesOn DEF Tabs!RefreshArrives, Tabs!tabs, Flights
<1>3. ASSUME NEW t \in Tab, NEW x \in Tabs!Source, NEW fresh \in TabToken, Tabs!RefreshRotates(t, x, fresh)
      PROVE  TabInvariant'
  <2>1. [at |-> "ok", tok |-> fresh] \in Flights
    BY DEF Flights
  <2>2. QED
    BY <1>3, <2>1, FlightGoesOn DEF Tabs!RefreshRotates, Tabs!tabs
<1>4. ASSUME NEW t \in Tab, NEW x \in Tabs!Source, Tabs!Lose(t, x) PROVE TabInvariant'
  <2>1. flight[t][x] \in Flights
    BY DEF TabInvariant, TabTypes
  <2>2. [flight[t][x] EXCEPT !.at = "lost"] \in Flights
    BY <2>1 DEF Flights
  <2>3. flight' = [flight EXCEPT ![t][x] = [flight[t][x] EXCEPT !.at = "lost"]]
    BY <1>4 DEF Tabs!Lose, TabInvariant, TabTypes
  <2>4. QED
    BY <1>4, <2>2, <2>3, FlightGoesOn DEF Tabs!Lose, Tabs!tabs, Flights
<1>5. ASSUME NEW fresh \in TabToken, Tabs!SessionEnds(fresh) PROVE TabInvariant'
  BY <1>1, <1>5 DEF Tabs!SessionEnds, Tabs!tabs
<1>6. ASSUME NEW t \in Tab, Tabs!Reload(t) \/ Tabs!Logout(t) PROVE TabInvariant'
  <2>1. cookie' \in TabToken \cup {NoTabToken}
    BY <1>6 DEF Tabs!Reload, Tabs!Logout, TabInvariant, TabTypes
  <2>2. PICK where \in {"load", "visit"} : Tabs!Mount(t, where, cookie')
    BY <1>6 DEF Tabs!Reload, Tabs!Logout
  <2>3. QED
    BY <2>1, <2>2, MountStartsAnew
<1>7. ASSUME NEW t \in Tab, Tabs!SessionRestored(t) PROVE TabInvariant'
  <2>1. Page \in Tabs!Source /\ flight[t][Page] \in Flights /\ flight[t][Page].at = "ok"
    BY <1>7 DEF Tabs!SessionRestored, TabInvariant, TabTypes, Tabs!Source
  <2>2. TabTypes'
    BY <1>7, <2>1 DEF Tabs!SessionRestored, Tabs!JarAfter, TabInvariant, TabTypes, Tabs!NoFlight, Flights
  <2>3. /\ \A x \in Tabs!Source : flight'[t][x].at = "none"
        /\ \A c \in Call : call'[t][c] = "idle"
    BY <1>7, <2>1 DEF Tabs!SessionRestored, TabInvariant, TabTypes, Tabs!NoFlight, OneRefresh
  <2>4. OneRefresh(t)' /\ Awaited(t)'
    BY <2>1, <2>3 DEF OneRefresh, Awaited
  <2>5. QED
    BY <1>7, <2>2, <2>4, OtherTabs DEF Tabs!SessionRestored, TabInvariant, TabTypes
<1>8. ASSUME NEW t \in Tab, Tabs!SessionMissing(t) PROVE TabInvariant'
  <2>1. /\ Page \in Tabs!Source /\ flight[t][Page] \in Flights
        /\ flight[t][Page].at \in {"refused", "limited", "lost"}
    BY <1>8 DEF Tabs!SessionMissing, TabInvariant, TabTypes, Tabs!Source
  <2>2. cookie' \in TabToken \cup {NoTabToken}
    BY <1>8, <2>1 DEF Tabs!SessionMissing, Tabs!JarAfter, TabInvariant, TabTypes
  <2>3. CASE Tabs!Mount(t, "visit", cookie')
    BY <2>2, <2>3, MountStartsAnew
  <2>4. CASE /\ page'   = [page   EXCEPT ![t] = "form"]
             /\ flight' = [flight EXCEPT ![t][Page] = Tabs!NoFlight]
             /\ UNCHANGED call
    <3>1. TabTypes'
      BY <2>1, <2>2, <2>4 DEF TabInvariant, TabTypes, Tabs!NoFlight, Flights
    <3>2. /\ \A x \in Tabs!Source : flight'[t][x].at = "none"
          /\ \A c \in Call : call'[t][c] = "idle"
      BY <2>1, <2>4 DEF TabInvariant, TabTypes, Tabs!NoFlight, OneRefresh
    <3>3. OneRefresh(t)' /\ Awaited(t)'
      BY <2>1, <3>2 DEF OneRefresh, Awaited
    <3>4. QED
      BY <2>4, <3>1, <3>3, OtherTabs DEF TabInvariant, TabTypes
  <2>5. QED
    <3>1. CASE page[t] = "load"
      BY <1>8, <2>3, <3>1, Zenon DEF Tabs!SessionMissing
    <3>2. CASE page[t] # "load"
      BY <1>8, <2>4, <3>2, SMT DEF Tabs!SessionMissing
    <3>3. QED
      BY <3>1, <3>2
<1>9. ASSUME NEW t \in Tab, NEW fresh \in TabToken, Tabs!Login(t, fresh) PROVE TabInvariant'
  <2>1. TabTypes'
    BY <1>9 DEF Tabs!Login, TabInvariant, TabTypes
  <2>2. OneRefresh(t)' /\ Awaited(t)'
    <3>1. OneRefresh(t) /\ Awaited(t) /\ page[t] = "form" /\ UNCHANGED <<call, flight>>
      BY <1>9 DEF Tabs!Login, TabInvariant
    <3>2. OneRefresh(t)'
      BY <3>1 DEF OneRefresh
    <3>3. Awaited(t)'
      BY <3>1 DEF Awaited, Tabs!Refreshing
    <3>4. QED
      BY <3>2, <3>3
  <2>3. QED
    BY <1>9, <2>1, <2>2, OtherTabs DEF Tabs!Login, TabInvariant, TabTypes
<1>10. ASSUME NEW t \in Tab, Tabs!ExpireAccess(t) PROVE TabInvariant'
  BY <1>1, <1>10 DEF Tabs!ExpireAccess
<1>11. ASSUME NEW t \in Tab, NEW c \in Call,
              Tabs!Send(t, c) \/ Tabs!Return(t, c) \/ Tabs!RejectRetried(t, c)
       PROVE  TabInvariant'
  BY <1>11, CallMoves DEF Tabs!Send, Tabs!Return, Tabs!RejectRetried
<1>12. ASSUME NEW t \in Tab, NEW c \in Call, Tabs!Unauthorized(t, c) PROVE TabInvariant'
  <2>1. /\ c \in Tabs!Source /\ Page \in Tabs!Source /\ c # Page /\ call[t][c] = "sent"
        /\ flight[t][Page].at = "none"
    BY <1>12 DEF Tabs!Unauthorized, TabInvariant, OneRefresh, Tabs!Source
  <2>2. CASE Tabs!Refreshing(t)
    <3>1. /\ call' = [call EXCEPT ![t][c] = "queued"]
          /\ UNCHANGED <<cookie, page, flight>>
      BY <1>12, <2>2 DEF Tabs!Unauthorized, Tabs!Joins
    <3>2. TabTypes'
      BY <3>1 DEF TabInvariant, TabTypes
    <3>3. \A d \in Call : call'[t][d] = IF d = c THEN "queued" ELSE call[t][d]
      BY <3>1 DEF TabInvariant, TabTypes
    <3>4. OneRefresh(t)' /\ Awaited(t)'
      BY <2>1, <2>2, <3>1, <3>3 DEF TabInvariant, OneRefresh, Awaited, Tabs!Refreshing
    <3>5. QED
      BY <3>1, <3>2, <3>4, OtherTabs DEF TabInvariant, TabTypes
  <2>3. CASE ~Tabs!Refreshing(t)
    <3>1. /\ call' = [call EXCEPT ![t][c] = "waiting"]
          /\ flight' = [flight EXCEPT ![t][c] = [at |-> "sent", tok |-> cookie]]
          /\ UNCHANGED <<cookie, page>>
      BY <1>12, <2>3 DEF Tabs!Unauthorized, Tabs!Joins, Tabs!Sent
    <3>2. TabTypes'
      BY <2>1, <3>1 DEF TabInvariant, TabTypes, Flights
    <3>3. /\ \A d \in Call : call'[t][d] = IF d = c THEN "waiting" ELSE call[t][d]
          /\ \A x \in Tabs!Source : flight'[t][x].at # "none" <=> x = c
      BY <2>1, <2>3, <3>1 DEF TabInvariant, TabTypes, Tabs!Refreshing
    <3>4. OneRefresh(t)' /\ Awaited(t)'
      <4>1. \A d \in Call : call[t][d] \notin {"waiting", "queued"}
        BY <2>3 DEF TabInvariant, Awaited, Tabs!Refreshing, Tabs!Source
      <4>2. QED
        BY <2>1, <3>3, <4>1 DEF OneRefresh, Awaited
    <3>5. QED
      BY <3>1, <3>2, <3>4, OtherTabs DEF TabInvariant, TabTypes
  <2>4. QED
    BY <2>2, <2>3
<1>13. ASSUME NEW t \in Tab, NEW c \in Call, Tabs!RefreshSucceeds(t, c) PROVE TabInvariant'
  <2>1. cookie' \in TabToken \cup {NoTabToken}
    BY <1>13 DEF Tabs!RefreshSucceeds, Tabs!JarAfter, TabInvariant, TabTypes, Flights, Tabs!Source
  <2>2. QED
    BY <1>13, <2>1, RefreshReleases DEF Tabs!RefreshSucceeds
<1>14. ASSUME NEW t \in Tab, NEW c \in Call, Tabs!RefreshLimited(t, c) PROVE TabInvariant'
  <2>1. cookie' \in TabToken \cup {NoTabToken}
    BY <1>14 DEF Tabs!RefreshLimited, TabInvariant, TabTypes
  <2>2. QED
    BY <1>14, <2>1, RefreshReleases DEF Tabs!RefreshLimited
<1>15. ASSUME NEW t \in Tab, NEW c \in Call, Tabs!RefreshFails(t, c) PROVE TabInvariant'
  <2>1. cookie' \in TabToken \cup {NoTabToken}
    BY <1>15 DEF Tabs!RefreshFails, Tabs!JarAfter, TabInvariant, TabTypes, Flights, Tabs!Source
  <2>2. QED
    BY <1>15, <2>1, MountStartsAnew DEF Tabs!RefreshFails
<1>16. CASE UNCHANGED Tabs!vars
  BY <1>1, <1>16 DEF Tabs!vars, Tabs!tabs
<1> QED
  BY <1>2, <1>3, <1>4, <1>5, <1>6, <1>7, <1>8, <1>9, <1>10, <1>11, <1>12, <1>13, <1>14,
     <1>15, <1>16 DEF Tabs!Next

\* A call that was refused waits only while a refresh of its tab is under way,
\* however many calls are refused and whatever becomes of the refresh.
THEOREM CallsNeverHang == Spec => []NoCallHangs
<1>1. Init => TabInvariant
  BY TabInit DEF Init
<1>2. TabInvariant /\ [Next]_vars => TabInvariant'
  BY TabStep, TabNext, NoneAssumption
<1>3. TabInvariant => NoCallHangs
  BY DEF TabInvariant, Awaited, NoCallHangs, Tabs!NoCallHangs, Tabs!Refreshing, Tabs!Source
<1>4. QED
  BY <1>1, <1>2, <1>3, PTL DEF Spec

-----------------------------------------------------------------------------
(* Browser: the cookie that the tabs share                                 *)

\* Calls are of a page that is in.
CallsRest ==
    \A t \in Tab : page[t] # "in" =>
        \A c \in Call : call[t][c] = "idle" /\ flight[t][c].at = "none"

\* Every other tab is left as it is.
LEMMA RestOfOne ==
    ASSUME CallsRest, TabTypes, NEW t \in Tab,
           \A u \in Tab \ {t} : page'[u] = page[u] /\ call'[u] = call[u] /\ flight'[u] = flight[u],
           page'[t] # "in" => \A c \in Call : call'[t][c] = "idle" /\ flight'[t][c].at = "none"
    PROVE  CallsRest'
BY DEF CallsRest

\* Every step of Browser keeps the calls with a page that is in.
LEMMA RestStep ==
    ASSUME Page \notin Call, TabInvariant, CallsRest, [Tabs!Next]_(Tabs!vars)
    PROVE  CallsRest'
<1>1. TabTypes /\ Page \in Tabs!Source /\ \A c \in Call : c \in Tabs!Source /\ c # Page
  BY DEF TabInvariant, Tabs!Source
<1>2. CASE UNCHANGED <<page, call, flight>>
  BY <1>2 DEF CallsRest
<1>3. ASSUME NEW t \in Tab, NEW x \in Tabs!Source,
             Tabs!RefreshArrives(t, x) \/ (\E fresh \in TabToken : Tabs!RefreshRotates(t, x, fresh)) \/ Tabs!Lose(t, x)
      PROVE  CallsRest'
  <2>1. PICK f : flight' = [flight EXCEPT ![t][x] = f]
    BY <1>1, <1>3 DEF Tabs!RefreshArrives, Tabs!RefreshRotates, Tabs!Lose, TabTypes
  <2>2. flight[t][x].at # "none" /\ UNCHANGED <<page, call>>
    BY <1>3 DEF Tabs!RefreshArrives, Tabs!RefreshRotates, Tabs!Lose, Tabs!tabs
  <2>3. \A u \in Tab, y \in Tabs!Source : flight'[u][y] = IF u = t /\ y = x THEN f ELSE flight[u][y]
    BY <1>1, <2>1 DEF TabTypes
  <2>4. QED
    BY <1>1, <2>2, <2>3 DEF CallsRest
<1>4. ASSUME NEW t \in Tab, NEW where, NEW jar, Tabs!Mount(t, where, jar) PROVE CallsRest'
  <2>1. /\ \A u \in Tab \ {t} : page'[u] = page[u] /\ call'[u] = call[u] /\ flight'[u] = flight[u]
        /\ \A c \in Call : call'[t][c] = "idle" /\ flight'[t][c].at = "none"
    BY <1>1, <1>4 DEF Tabs!Mount, TabTypes, Tabs!NoFlight
  <2>2. QED
    BY <1>1, <2>1, RestOfOne
<1>5. ASSUME NEW t \in Tab, Tabs!SessionRestored(t) PROVE CallsRest'
  <2>1. /\ \A u \in Tab \ {t} : page'[u] = page[u] /\ call'[u] = call[u] /\ flight'[u] = flight[u]
        /\ page'[t] = "in"
    BY <1>1, <1>5 DEF Tabs!SessionRestored, TabTypes
  <2>2. QED
    BY <1>1, <2>1, RestOfOne
<1>6. ASSUME NEW t \in Tab, Tabs!SessionMissing(t), page[t] # "load" PROVE CallsRest'
  <2>1. /\ \A u \in Tab \ {t} : page'[u] = page[u] /\ call'[u] = call[u] /\ flight'[u] = flight[u]
        /\ call' = call /\ flight' = [flight EXCEPT ![t][Page] = Tabs!NoFlight]
        /\ flight[t][Page].at # "none"
    BY <1>1, <1>6 DEF Tabs!SessionMissing, TabTypes
  <2>2. \A c \in Call : call'[t][c] = "idle" /\ flight'[t][c].at = "none"
    BY <1>1, <2>1 DEF TabInvariant, TabTypes, OneRefresh
  <2>3. QED
    BY <1>1, <2>1, <2>2, RestOfOne
<1>7. ASSUME NEW t \in Tab, NEW fresh \in TabToken, Tabs!Login(t, fresh) PROVE CallsRest'
  BY <1>1, <1>7, RestOfOne DEF Tabs!Login, TabTypes
<1>8. ASSUME NEW t \in Tab, page[t] = "in", UNCHANGED page,
             \A u \in Tab \ {t} : call'[u] = call[u] /\ flight'[u] = flight[u]
      PROVE  CallsRest'
  BY <1>1, <1>8, RestOfOne
<1>9. ASSUME NEW t \in Tab, NEW c \in Call, Tabs!Send(t, c) \/ Tabs!Return(t, c) \/ Tabs!RejectRetried(t, c)
                                            \/ Tabs!Unauthorized(t, c)
      PROVE  CallsRest'
  <2>1. page[t] = "in"
    BY <1>9 DEF Tabs!Send, Tabs!Return, Tabs!RejectRetried, Tabs!Unauthorized, CallsRest
  <2>2. UNCHANGED page /\ \A u \in Tab \ {t} : call'[u] = call[u] /\ flight'[u] = flight[u]
    BY <1>1, <1>9 DEF Tabs!Send, Tabs!Return, Tabs!RejectRetried, Tabs!Unauthorized, Tabs!Sent, TabTypes
  <2>3. QED
    BY <1>8, <2>1, <2>2
<1>10. ASSUME NEW t \in Tab, NEW c \in Call, Tabs!RefreshSucceeds(t, c) \/ Tabs!RefreshLimited(t, c)
       PROVE  CallsRest'
  <2>1. page[t] = "in"
    BY <1>10 DEF Tabs!RefreshSucceeds, Tabs!RefreshLimited, CallsRest
  <2>2. UNCHANGED page /\ \A u \in Tab \ {t} : call'[u] = call[u] /\ flight'[u] = flight[u]
    BY <1>1, <1>10 DEF Tabs!RefreshSucceeds, Tabs!RefreshLimited, TabTypes
  <2>3. QED
    BY <1>8, <2>1, <2>2
<1>11. ASSUME NEW t \in Tab, Tabs!SessionMissing(t) PROVE CallsRest'
  <2>1. CASE page[t] = "load"
    <3>1. Tabs!Mount(t, "visit", cookie')
      BY <1>11, <2>1, Zenon DEF Tabs!SessionMissing
    <3>2. QED
      BY <1>4, <3>1
  <2>2. QED
    BY <1>6, <1>11, <2>1
<1>12. ASSUME NEW t \in Tab, Tabs!Reload(t) \/ Tabs!Logout(t) \/ \E c \in Call : Tabs!RefreshFails(t, c) PROVE CallsRest'
  BY <1>4, <1>12 DEF Tabs!Reload, Tabs!Logout, Tabs!RefreshFails
<1>13. ASSUME NEW t \in Tab, Tabs!ExpireAccess(t) PROVE CallsRest'
  BY <1>2, <1>13 DEF Tabs!ExpireAccess
<1>14. ASSUME NEW fresh \in TabToken, Tabs!SessionEnds(fresh) PROVE CallsRest'
  BY <1>2, <1>14 DEF Tabs!SessionEnds, Tabs!tabs
<1>15. CASE UNCHANGED Tabs!vars
  BY <1>2, <1>15 DEF Tabs!vars, Tabs!tabs
<1> QED
  BY <1>3, <1>5, <1>7, <1>9, <1>10, <1>11, <1>12, <1>13, <1>14, <1>15 DEF Tabs!Next

\* The form is shown once the page's own refresh has ended.
FormRests == \A t \in Tab : page[t] = "form" => ~Tabs!Refreshing(t)

\* What a refresh under way keeps of the session: the token it was sent with,
\* or the one it brings.
Keeps(f) ==
    /\ f.at # "refused"
    /\ f.at \in {"none", "sent", "checked", "limited", "lost"} => cookie \in tokens
    /\ f.at \in {"sent", "checked"} => f.tok = cookie
    /\ f.at = "ok" => f.tok \in tokens

\* One tab refreshes at a time.
OneTab == \A t, u \in Tab : Tabs!Refreshing(t) /\ Tabs!Refreshing(u) => t = u

\* The session is one that goes on: the cookie is good, or the one refresh under
\* way brings one that is.
NothingLost ==
    /\ OneTab
    /\ \A t \in Tab, x \in Tabs!Source : flight[t][x].at # "none" => Keeps(flight[t][x])
    /\ (\A t \in Tab : ~Tabs!Refreshing(t)) => cookie \in tokens

\* What the proof of SessionKept carries.
KeptInvariant == TabInvariant /\ CallsRest /\ FormRests /\ (alive /\ ~disturbed => NothingLost)

\* A behaviour starts with a good cookie.
LEMMA KeptInit == Tabs!Init => KeptInvariant
BY TabInit DEF Tabs!Init, KeptInvariant, CallsRest, FormRests, Tabs!Source, Tabs!Refreshing, Tabs!NoFlight

\* A refresh of a calm session is the only one.
LEMMA OneFlight ==
    ASSUME TabInvariant, OneTab, NEW t \in Tab, NEW x \in Tabs!Source, flight[t][x].at # "none",
           NEW u \in Tab, NEW y \in Tabs!Source, flight[u][y].at # "none"
    PROVE  t = u /\ x = y
BY DEF TabInvariant, OneRefresh, OneTab, Tabs!Refreshing

\* The one refresh goes on.
LEMMA KeptOnTheWay ==
    ASSUME KeptInvariant, TabInvariant', CallsRest', NEW t \in Tab, NEW x \in Tabs!Source, NEW f \in Flights,
           flight[t][x].at # "none", f.at # "none",
           flight' = [flight EXCEPT ![t][x] = f], UNCHANGED <<cookie, page>>,
           alive' /\ ~disturbed' => alive /\ ~disturbed /\ Keeps(f)'
    PROVE  KeptInvariant'
<1>1. \A u \in Tab, y \in Tabs!Source : flight'[u][y] = IF u = t /\ y = x THEN f ELSE flight[u][y]
  BY DEF KeptInvariant, TabInvariant, TabTypes
<1>2. \A u \in Tab : Tabs!Refreshing(u)' <=> Tabs!Refreshing(u)
  BY <1>1 DEF Tabs!Refreshing
<1>3. FormRests'
  BY <1>2 DEF KeptInvariant, FormRests
<1>4. ASSUME alive', ~disturbed' PROVE NothingLost'
  <2>1. OneTab'
    BY <1>2, <1>4 DEF KeptInvariant, NothingLost, OneTab
  <2>2. ASSUME NEW u \in Tab, NEW y \in Tabs!Source, flight'[u][y].at # "none" PROVE Keeps(flight[u][y])'
    <3>1. flight[u][y].at # "none"
      BY <1>1, <2>2
    <3>2. u = t /\ y = x
      BY <1>4, <3>1, OneFlight DEF KeptInvariant, NothingLost
    <3>3. QED
      BY <1>1, <1>4, <3>2
  <2>3. Tabs!Refreshing(t)'
    BY <1>2 DEF Tabs!Refreshing
  <2>4. QED
    BY <2>1, <2>2, <2>3 DEF NothingLost
<1>5. QED
  BY <1>3, <1>4 DEF KeptInvariant

\* A refresh begins in a tab, and nothing else goes on.
LEMMA KeptBegins ==
    ASSUME KeptInvariant, TabInvariant', CallsRest', NEW t \in Tab, NEW x \in Tabs!Source,
           flight'[t][x] = [at |-> "sent", tok |-> cookie'],
           \A y \in Tabs!Source : y # x => flight'[t][y].at = "none",
           \A u \in Tab \ {t} : flight'[u] = flight[u] /\ page'[u] = page[u],
           page'[t] # "form",
           alive' /\ ~disturbed' => cookie' \in tokens' /\ ~Tabs!Overlaps(t)
    PROVE  KeptInvariant'
<1>1. FormRests'
  BY DEF KeptInvariant, FormRests, Tabs!Refreshing
<1>2. ASSUME alive', ~disturbed' PROVE NothingLost'
  <2>1. \A u \in Tab, y \in Tabs!Source : flight'[u][y].at # "none" => u = t /\ y = x
    BY <1>2 DEF Tabs!Overlaps, Tabs!Refreshing
  <2>2. OneTab'
    BY <2>1 DEF OneTab, Tabs!Refreshing
  <2>3. Tabs!Refreshing(t)'
    BY DEF Tabs!Refreshing
  <2>4. ASSUME NEW u \in Tab, NEW y \in Tabs!Source, flight'[u][y].at # "none" PROVE Keeps(flight[u][y])'
    BY <1>2, <2>1, <2>4 DEF Keeps
  <2>5. QED
    BY <2>2, <2>3, <2>4 DEF NothingLost
<1>3. QED
  BY <1>1, <1>2 DEF KeptInvariant

\* A tab's refresh ends and leaves a cookie that is good.
LEMMA KeptEnds ==
    ASSUME KeptInvariant, TabInvariant', CallsRest', NEW t \in Tab, NEW x \in Tabs!Source, flight[t][x].at # "none",
           flight' = [flight EXCEPT ![t][x] = Tabs!NoFlight],
           \A u \in Tab \ {t} : page'[u] = page[u],
           alive' /\ ~disturbed' => alive /\ ~disturbed /\ cookie' \in tokens'
    PROVE  KeptInvariant'
<1>1. \A u \in Tab, y \in Tabs!Source : flight'[u][y] = IF u = t /\ y = x THEN Tabs!NoFlight ELSE flight[u][y]
  BY DEF KeptInvariant, TabInvariant, TabTypes
<1>2. ~Tabs!Refreshing(t)'
  BY <1>1 DEF Tabs!Refreshing, KeptInvariant, TabInvariant, OneRefresh, Tabs!NoFlight
<1>3. FormRests'
  BY <1>1, <1>2 DEF KeptInvariant, FormRests, Tabs!Refreshing
<1>4. ASSUME alive', ~disturbed' PROVE NothingLost'
  <2>1. \A u \in Tab, y \in Tabs!Source : flight'[u][y].at = "none"
    BY <1>1, <1>4, OneFlight DEF KeptInvariant, NothingLost, Tabs!NoFlight
  <2>2. QED
    BY <1>4, <2>1 DEF NothingLost, OneTab, Tabs!Refreshing
<1>5. QED
  BY <1>3, <1>4 DEF KeptInvariant

\* The flights are left as they are.
LEMMA KeptRests ==
    ASSUME KeptInvariant, TabInvariant', CallsRest', UNCHANGED flight,
           \A u \in Tab : page'[u] = "form" => page[u] = "form",
           alive' /\ ~disturbed' => alive /\ ~disturbed /\ UNCHANGED <<cookie, tokens>>
    PROVE  KeptInvariant'
<1>1. \A u \in Tab : Tabs!Refreshing(u)' <=> Tabs!Refreshing(u)
  BY DEF Tabs!Refreshing
<1>2. FormRests'
  BY <1>1 DEF KeptInvariant, FormRests
<1>3. ASSUME alive', ~disturbed' PROVE NothingLost'
  BY <1>1, <1>3 DEF KeptInvariant, NothingLost, OneTab, Keeps
<1>4. QED
  BY <1>2, <1>3 DEF KeptInvariant

\* A page that is loaded begins a refresh.
LEMMA KeptMount ==
    ASSUME KeptInvariant, TabInvariant', CallsRest', NEW t \in Tab, NEW where \in {"load", "visit"},
           Tabs!Mount(t, where, cookie'),
           alive' /\ ~disturbed' => cookie' \in tokens' /\ ~Tabs!Overlaps(t)
    PROVE  KeptInvariant'
<1>1. /\ flight'[t][Page] = [at |-> "sent", tok |-> cookie']
      /\ \A y \in Tabs!Source : y # Page => flight'[t][y].at = "none"
      /\ \A u \in Tab \ {t} : flight'[u] = flight[u] /\ page'[u] = page[u]
      /\ page'[t] = where
  BY DEF Tabs!Mount, KeptInvariant, TabInvariant, TabTypes, Tabs!NoFlight, Tabs!Source
<1>2. Page \in Tabs!Source
  BY DEF Tabs!Source
<1>3. QED
  BY <1>1, <1>2, KeptBegins

\* The cookie that an answer leaves.
LEMMA JarKept ==
    ASSUME KeptInvariant, alive, ~disturbed, NEW t \in Tab, NEW x \in Tabs!Source, flight[t][x].at # "none",
           flight[t][x].at \in {"ok", "refused", "limited", "lost"}
    PROVE  Tabs!JarAfter(flight[t][x]) \in tokens
BY DEF KeptInvariant, NothingLost, Keeps, Tabs!JarAfter

\* Every step of Browser keeps the session, unless it disturbs it.
LEMMA KeptStep ==
    ASSUME Page \notin Call, KeptInvariant, [Tabs!Next]_(Tabs!vars)
    PROVE  KeptInvariant'
<1>1. TabInvariant /\ TabInvariant' /\ TabTypes /\ CallsRest'
  BY TabStep, RestStep DEF KeptInvariant, TabInvariant
<1>2. ASSUME NEW t \in Tab, NEW x \in Tabs!Source, Tabs!RefreshArrives(t, x) PROVE KeptInvariant'
  <2>1. PICK answer \in {"limited", IF flight[t][x].tok \in tokens THEN "checked" ELSE "refused"} :
            flight' = [flight EXCEPT ![t][x].at = answer]
    BY <1>2 DEF Tabs!RefreshArrives
  <2>2. flight[t][x] \in Flights /\ flight[t][x].at = "sent"
    BY <1>1, <1>2 DEF TabTypes, Tabs!RefreshArrives
  <2>3. PICK f \in Flights : f = [flight[t][x] EXCEPT !.at = answer]
    BY <2>2 DEF Flights
  <2>4. flight' = [flight EXCEPT ![t][x] = f]
    BY <1>1, <2>1, <2>2, <2>3 DEF TabTypes
  <2>5. f.at = answer /\ f.tok = flight[t][x].tok
    BY <2>2, <2>3 DEF Flights
  <2>6. alive /\ ~disturbed => Keeps(flight[t][x])
    BY <2>2 DEF KeptInvariant, NothingLost
  <2>7. alive' /\ ~disturbed' => alive /\ ~disturbed /\ Keeps(f)'
    BY <1>2, <2>1, <2>2, <2>5, <2>6 DEF Keeps, Tabs!RefreshArrives, Tabs!history
  <2>8. f.at # "none"
    BY <2>1, <2>5
  <2>9. QED
    BY <1>1, <1>2, <2>2, <2>4, <2>7, <2>8, KeptOnTheWay DEF Tabs!RefreshArrives, Tabs!tabs
<1>3. ASSUME NEW t \in Tab, NEW x \in Tabs!Source, NEW fresh \in TabToken, Tabs!RefreshRotates(t, x, fresh)
      PROVE  KeptInvariant'
  <2>1. [at |-> "ok", tok |-> fresh] \in Flights
    BY DEF Flights
  <2>2. alive' /\ ~disturbed' => alive /\ ~disturbed /\ Keeps([at |-> "ok", tok |-> fresh])'
    BY <1>3 DEF Keeps, Tabs!RefreshRotates, Tabs!history
  <2>3. QED
    BY <1>1, <1>3, <2>1, <2>2, KeptOnTheWay DEF Tabs!RefreshRotates, Tabs!tabs
<1>4. ASSUME NEW t \in Tab, NEW x \in Tabs!Source, Tabs!Lose(t, x) PROVE KeptInvariant'
  <2>1. flight[t][x] \in Flights /\ flight[t][x].at \in {"sent", "ok", "refused"}
    BY <1>1, <1>4 DEF TabTypes, Tabs!Lose
  <2>2. PICK f \in Flights : f = [flight[t][x] EXCEPT !.at = "lost"]
    BY <2>1 DEF Flights
  <2>3. f.at = "lost" /\ f.tok = flight[t][x].tok
    BY <2>1, <2>2 DEF Flights
  <2>4. flight' = [flight EXCEPT ![t][x] = f]
    BY <1>1, <1>4, <2>2 DEF TabTypes, Tabs!Lose
  <2>5. alive /\ ~disturbed => Keeps(flight[t][x])
    BY <2>1 DEF KeptInvariant, NothingLost
  <2>6. alive' /\ ~disturbed' => alive /\ ~disturbed /\ Keeps(f)'
    BY <1>4, <2>1, <2>3, <2>5 DEF Keeps, Tabs!Lose
  <2>7. f.at # "none"
    BY <2>3
  <2>8. UNCHANGED <<cookie, page>> /\ flight[t][x].at # "none"
    BY <1>4, <2>1 DEF Tabs!Lose, Tabs!tabs
  <2>9. QED
    BY <1>1, <2>4, <2>6, <2>7, <2>8, KeptOnTheWay
<1>5. ASSUME NEW fresh \in TabToken, Tabs!SessionEnds(fresh) PROVE KeptInvariant'
  BY <1>1, <1>5, KeptRests DEF Tabs!SessionEnds, Tabs!tabs
<1>6. ASSUME NEW t \in Tab, Tabs!Reload(t) PROVE KeptInvariant'
  <2>1. PICK where \in {"load", "visit"} : Tabs!Mount(t, where, cookie')
    BY <1>6 DEF Tabs!Reload
  <2>2. ASSUME alive', ~disturbed' PROVE cookie' \in tokens' /\ ~Tabs!Overlaps(t)
    <3>1. alive /\ ~disturbed /\ ~Tabs!Refreshing(t) /\ ~Tabs!Overlaps(t) /\ UNCHANGED <<cookie, tokens>>
      BY <1>6, <2>2 DEF Tabs!Reload
    <3>2. \A u \in Tab : ~Tabs!Refreshing(u)
      BY <3>1 DEF Tabs!Overlaps
    <3>3. QED
      BY <3>1, <3>2 DEF KeptInvariant, NothingLost
  <2>3. QED
    BY <1>1, <2>1, <2>2, KeptMount
<1>7. ASSUME NEW t \in Tab, Tabs!Logout(t) PROVE KeptInvariant'
  BY <1>1, <1>7, KeptMount DEF Tabs!Logout
<1>8. ASSUME NEW t \in Tab, Tabs!SessionRestored(t) PROVE KeptInvariant'
  <2>1. Page \in Tabs!Source /\ flight[t][Page].at = "ok"
    BY <1>8 DEF Tabs!SessionRestored, Tabs!Source
  <2>2. alive' /\ ~disturbed' => alive /\ ~disturbed /\ cookie' \in tokens'
    BY <1>8, <2>1, JarKept DEF Tabs!SessionRestored, Tabs!history
  <2>3. \A u \in Tab \ {t} : page'[u] = page[u]
    BY <1>1, <1>8 DEF Tabs!SessionRestored, TabTypes
  <2>4. QED
    BY <1>1, <1>8, <2>1, <2>2, <2>3, KeptEnds DEF Tabs!SessionRestored
<1>9. ASSUME NEW t \in Tab, Tabs!SessionMissing(t) PROVE KeptInvariant'
  <2>1. /\ Page \in Tabs!Source /\ flight[t][Page].at \in {"refused", "limited", "lost"}
        /\ cookie' = Tabs!JarAfter(flight[t][Page]) /\ UNCHANGED <<tokens, alive>>
    BY <1>9 DEF Tabs!SessionMissing, Tabs!Source
  <2>2. alive /\ ~disturbed => cookie' \in tokens'
    BY <2>1, JarKept
  <2>3. CASE page[t] = "load"
    <3>1. Tabs!Mount(t, "visit", cookie') /\ disturbed' = (disturbed \/ Tabs!Overlaps(t))
      BY <1>9, <2>3, Zenon DEF Tabs!SessionMissing
    <3>2. QED
      BY <1>1, <2>1, <2>2, <3>1, KeptMount
  <2>4. CASE page[t] # "load"
    <3>1. /\ flight' = [flight EXCEPT ![t][Page] = Tabs!NoFlight] /\ UNCHANGED disturbed
          /\ page' = [page EXCEPT ![t] = "form"]
      BY <1>9, <2>4 DEF Tabs!SessionMissing
    <3>2. \A u \in Tab \ {t} : page'[u] = page[u]
      BY <1>1, <3>1 DEF TabTypes
    <3>3. QED
      BY <1>1, <2>1, <2>2, <3>1, <3>2, KeptEnds
  <2>5. QED
    BY <2>3, <2>4
<1>10. ASSUME NEW t \in Tab, NEW fresh \in TabToken, Tabs!Login(t, fresh) PROVE KeptInvariant'
  <2>1. /\ page[t] = "form" /\ UNCHANGED flight /\ cookie' = fresh /\ tokens' = tokens \cup {fresh}
        /\ disturbed' = Tabs!Overlaps(t)
        /\ \A u \in Tab : page'[u] = IF u = t THEN "in" ELSE page[u]
    BY <1>1, <1>10 DEF Tabs!Login, TabTypes
  <2>2. ~Tabs!Refreshing(t)
    BY <2>1 DEF KeptInvariant, FormRests
  <2>3. FormRests'
    BY <2>1 DEF KeptInvariant, FormRests, Tabs!Refreshing
  <2>4. ASSUME ~disturbed' PROVE NothingLost'
    <3>1. \A u \in Tab, y \in Tabs!Source : flight'[u][y].at = "none"
      BY <2>1, <2>2, <2>4 DEF Tabs!Overlaps, Tabs!Refreshing
    <3>2. QED
      BY <2>1, <3>1 DEF NothingLost, OneTab, Tabs!Refreshing
  <2>5. QED
    BY <1>1, <2>3, <2>4 DEF KeptInvariant
<1>11. ASSUME NEW t \in Tab, NEW c \in Call,
              Tabs!Send(t, c) \/ Tabs!Return(t, c) \/ Tabs!RejectRetried(t, c)
       PROVE  KeptInvariant'
  BY <1>1, <1>11, KeptRests DEF Tabs!Send, Tabs!Return, Tabs!RejectRetried, Tabs!history
<1>12. ASSUME NEW t \in Tab, Tabs!ExpireAccess(t) PROVE KeptInvariant'
  BY <1>1, <1>12, KeptRests DEF Tabs!ExpireAccess, Tabs!history
<1>13. ASSUME NEW t \in Tab, NEW c \in Call, Tabs!Unauthorized(t, c) PROVE KeptInvariant'
  <2>1. CASE Tabs!Refreshing(t)
    <3>1. UNCHANGED <<flight, disturbed, tokens, cookie, page, alive>>
      BY <1>13, <2>1 DEF Tabs!Unauthorized, Tabs!Joins
    <3>2. QED
      BY <1>1, <3>1, KeptRests
  <2>2. CASE ~Tabs!Refreshing(t)
    <3>1. /\ flight' = [flight EXCEPT ![t][c] = [at |-> "sent", tok |-> cookie]] /\ c \in Tabs!Source
          /\ disturbed' = (disturbed \/ Tabs!Overlaps(t)) /\ UNCHANGED <<tokens, cookie, page, alive>>
      BY <1>13, <2>2 DEF Tabs!Unauthorized, Tabs!Joins, Tabs!Sent, Tabs!Source
    <3>2. /\ \A u \in Tab \ {t} : flight'[u] = flight[u]
          /\ flight'[t][c] = [at |-> "sent", tok |-> cookie]
          /\ \A y \in Tabs!Source : y # c => flight'[t][y] = flight[t][y]
      BY <1>1, <3>1 DEF TabTypes
    <3>3. \A y \in Tabs!Source : flight[t][y].at = "none"
      BY <2>2 DEF Tabs!Refreshing
    <3>4. page[t] # "form"
      BY <1>13 DEF KeptInvariant, CallsRest, Tabs!Unauthorized
    <3>5. ASSUME alive, ~disturbed, ~Tabs!Overlaps(t) PROVE cookie \in tokens
      <4>1. \A u \in Tab : ~Tabs!Refreshing(u)
        BY <2>2, <3>5 DEF Tabs!Overlaps
      <4>2. QED
        BY <3>5, <4>1 DEF KeptInvariant, NothingLost
    <3>6. alive' /\ ~disturbed' => cookie' \in tokens' /\ ~Tabs!Overlaps(t)
      BY <3>1, <3>5
    <3>7. /\ flight'[t][c] = [at |-> "sent", tok |-> cookie']
          /\ \A y \in Tabs!Source : y # c => flight'[t][y].at = "none"
          /\ \A u \in Tab \ {t} : flight'[u] = flight[u] /\ page'[u] = page[u]
          /\ page'[t] # "form" /\ c \in Tabs!Source
      BY <3>1, <3>2, <3>3, <3>4
    <3>8. QED
      BY <1>1, <3>6, <3>7, KeptBegins
  <2>3. QED
    BY <2>1, <2>2
<1>14. ASSUME NEW t \in Tab, NEW c \in Call, Tabs!RefreshSucceeds(t, c) \/ Tabs!RefreshLimited(t, c)
       PROVE  KeptInvariant'
  <2>1. c \in Tabs!Source /\ flight[t][c].at \in {"ok", "limited"}
        /\ flight' = [flight EXCEPT ![t][c] = Tabs!NoFlight] /\ UNCHANGED <<page, tokens, alive, disturbed>>
        /\ cookie' = Tabs!JarAfter(flight[t][c])
    BY <1>14 DEF Tabs!RefreshSucceeds, Tabs!RefreshLimited, Tabs!Source, Tabs!history, Tabs!JarAfter
  <2>2. alive /\ ~disturbed => cookie' \in tokens'
    BY <2>1, JarKept
  <2>3. QED
    BY <1>1, <2>1, <2>2, KeptEnds
<1>15. ASSUME NEW t \in Tab, NEW c \in Call, Tabs!RefreshFails(t, c) PROVE KeptInvariant'
  <2>1. c \in Tabs!Source /\ flight[t][c].at \in {"refused", "lost"} /\ Tabs!Mount(t, "visit", cookie')
        /\ UNCHANGED <<tokens, alive>> /\ cookie' = Tabs!JarAfter(flight[t][c])
        /\ disturbed' = (disturbed \/ Tabs!Overlaps(t))
    BY <1>15 DEF Tabs!RefreshFails, Tabs!Source
  <2>2. alive /\ ~disturbed => cookie' \in tokens'
    BY <2>1, JarKept
  <2>3. QED
    BY <1>1, <2>1, <2>2, KeptMount
<1>16. CASE UNCHANGED Tabs!vars
  BY <1>1, <1>16, KeptRests DEF Tabs!vars, Tabs!tabs, Tabs!history
<1> QED
  BY <1>2, <1>3, <1>4, <1>5, <1>6, <1>7, <1>8, <1>9, <1>10, <1>11, <1>12, <1>13, <1>14, <1>15, <1>16
     DEF Tabs!Next

\* While nobody ends the session, no two refreshes overlap and no answer of one is
\* lost, the tabs hold a good cookie or a refresh is about to bring one, whatever
\* requests are lost on the way (SessionKept).
THEOREM SessionsAreKept == Spec => []SessionKept
<1>1. Init => KeptInvariant
  BY KeptInit DEF Init
<1>2. KeptInvariant /\ [Next]_vars => KeptInvariant'
  BY KeptStep, TabNext, NoneAssumption
<1>3. KeptInvariant => SessionKept
  <2> SUFFICES ASSUME KeptInvariant, alive, ~disturbed, cookie \notin tokens
               PROVE  \E t \in Tab, x \in Tabs!Source : flight[t][x].at = "ok" /\ flight[t][x].tok \in tokens
    BY DEF SessionKept, Tabs!SessionKept
  <2>1. PICK t \in Tab, x \in Tabs!Source : flight[t][x].at # "none"
    BY DEF KeptInvariant, NothingLost, Tabs!Refreshing
  <2>2. Keeps(flight[t][x]) /\ flight[t][x] \in Flights
    BY <2>1 DEF KeptInvariant, NothingLost, TabInvariant, TabTypes
  <2>3. QED
    BY <2>1, <2>2 DEF Keeps, Flights
<1>4. QED
  BY <1>1, <1>2, <1>3, PTL DEF Spec

-----------------------------------------------------------------------------
(* Types                                                                   *)

\* The types of what the proofs about the tabs do not need.
TabRest ==
    /\ tokens \subseteq TabToken
    /\ access \in [Tab -> {"none", "good", "expired"}]
    /\ carried \in [Tab -> [Call -> {"none", "good", "expired"}]]
    /\ alive \in BOOLEAN /\ disturbed \in BOOLEAN

\* Every step of Browser keeps them.
LEMMA TabRestStep ==
    ASSUME TabRest, [Tabs!Next]_(Tabs!vars)
    PROVE  TabRest'
<1> USE DEF TabRest, Tabs!server, Tabs!tabs, Tabs!history
<1>1. CASE UNCHANGED Tabs!vars
  BY <1>1 DEF Tabs!vars
<1>2. ASSUME NEW t \in Tab, NEW x \in Tabs!Source, Tabs!RefreshArrives(t, x) PROVE TabRest'
  BY <1>2 DEF Tabs!RefreshArrives
<1>3. ASSUME NEW t \in Tab, NEW x \in Tabs!Source, NEW fresh \in TabToken, Tabs!RefreshRotates(t, x, fresh)
      PROVE  TabRest'
  BY <1>3 DEF Tabs!RefreshRotates
<1>4. ASSUME NEW t \in Tab, NEW x \in Tabs!Source, Tabs!Lose(t, x) PROVE TabRest'
  <2>1. disturbed' \in BOOLEAN
    BY <1>4, Zenon DEF Tabs!Lose
  <2>2. QED
    BY <1>4, <2>1 DEF Tabs!Lose
<1>5. ASSUME NEW fresh \in TabToken, Tabs!SessionEnds(fresh) PROVE TabRest'
  BY <1>5 DEF Tabs!SessionEnds
<1>6. ASSUME NEW t \in Tab, NEW where, NEW jar, Tabs!Mount(t, where, jar)
      PROVE  /\ access' \in [Tab -> {"none", "good", "expired"}]
             /\ carried' \in [Tab -> [Call -> {"none", "good", "expired"}]]
  BY <1>6 DEF Tabs!Mount
<1>7. ASSUME NEW t \in Tab, Tabs!Reload(t) PROVE TabRest'
  <2>1. disturbed' \in BOOLEAN
    BY <1>7, Zenon DEF Tabs!Reload
  <2>2. QED
    BY <1>6, <1>7, <2>1 DEF Tabs!Reload
<1>8. ASSUME NEW t \in Tab, Tabs!SessionRestored(t) PROVE TabRest'
  BY <1>8 DEF Tabs!SessionRestored
<1>9. ASSUME NEW t \in Tab, Tabs!SessionMissing(t) PROVE TabRest'
  <2>1. CASE Tabs!Mount(t, "visit", cookie') /\ disturbed' = (disturbed \/ Tabs!Overlaps(t))
    <3>1. disturbed' \in BOOLEAN
      BY <2>1, Zenon
    <3>2. QED
      BY <1>6, <1>9, <2>1, <3>1 DEF Tabs!SessionMissing
  <2>2. CASE UNCHANGED <<access, call, carried, disturbed>>
    BY <1>9, <2>2 DEF Tabs!SessionMissing
  <2>3. QED
    BY <1>9, <2>1, <2>2 DEF Tabs!SessionMissing
<1>10. ASSUME NEW t \in Tab, NEW fresh \in TabToken, Tabs!Login(t, fresh) PROVE TabRest'
  <2>1. disturbed' \in BOOLEAN
    BY <1>10 DEF Tabs!Login, Tabs!Overlaps
  <2>2. QED
    BY <1>10, <2>1 DEF Tabs!Login
<1>11. ASSUME NEW t \in Tab, Tabs!Logout(t) PROVE TabRest'
  BY <1>6, <1>11 DEF Tabs!Logout
<1>12. ASSUME NEW t \in Tab, Tabs!ExpireAccess(t) PROVE TabRest'
  BY <1>12 DEF Tabs!ExpireAccess
<1>13. ASSUME NEW t \in Tab, NEW c \in Call, Tabs!Send(t, c) \/ Tabs!Return(t, c) \/ Tabs!RejectRetried(t, c)
       PROVE  TabRest'
  BY <1>13 DEF Tabs!Send, Tabs!Return, Tabs!RejectRetried
<1>14. ASSUME NEW t \in Tab, NEW c \in Call, Tabs!Unauthorized(t, c) PROVE TabRest'
  <2>1. disturbed' \in BOOLEAN
    BY <1>14, Zenon DEF Tabs!Unauthorized
  <2>2. QED
    BY <1>14, <2>1 DEF Tabs!Unauthorized
<1>15. ASSUME NEW t \in Tab, NEW c \in Call, Tabs!RefreshSucceeds(t, c) PROVE TabRest'
  BY <1>15 DEF Tabs!RefreshSucceeds
<1>16. ASSUME NEW t \in Tab, NEW c \in Call, Tabs!RefreshLimited(t, c) PROVE TabRest'
  BY <1>16 DEF Tabs!RefreshLimited
<1>17. ASSUME NEW t \in Tab, NEW c \in Call, Tabs!RefreshFails(t, c) PROVE TabRest'
  <2>1. disturbed' \in BOOLEAN
    BY <1>17, Zenon DEF Tabs!RefreshFails
  <2>2. QED
    BY <1>6, <1>17, <2>1 DEF Tabs!RefreshFails
<1> QED
  BY <1>1, <1>2, <1>3, <1>4, <1>5, <1>7, <1>8, <1>9, <1>10, <1>11, <1>12, <1>13, <1>14, <1>15, <1>16, <1>17
     DEF Tabs!Next

\* Requests that found no settings and may still add a row.
Missing == {r \in Req : settingsPc[r] = "missing"}

\* There are no more rows than requests: once there is one, nobody misses it any
\* more, and those who did add one each.
RowsBounded ==
    /\ settings # <<>> => Len(settings) + Cardinality(Missing) <= Cardinality(Req)
    /\ \A r \in Req : picked[r] <= Cardinality(Req)

\* Fewer requests that may add a row, counted.
LEMMA MissingFewer ==
    ASSUME IsFiniteSet(Req), NEW r \in Req, Missing' = Missing \ {r}
    PROVE  /\ Cardinality(Req) \in Nat /\ Cardinality(Missing) \in Nat /\ Cardinality(Missing') \in Nat
           /\ Cardinality(Missing) <= Cardinality(Req)
           /\ Cardinality(Missing') = IF r \in Missing THEN Cardinality(Missing) - 1 ELSE Cardinality(Missing)
<1>1. Missing \subseteq Req /\ IsFiniteSet(Missing) /\ Cardinality(Missing) <= Cardinality(Req)
  BY FS_Subset DEF Missing
<1>2. IsFiniteSet(Missing') /\ Cardinality(Missing') = IF r \in Missing THEN Cardinality(Missing) - 1 ELSE Cardinality(Missing)
  <2>1. PICK M, N : M = Missing /\ N = Missing'
    OBVIOUS
  <2>2. IsFiniteSet(M) /\ N = M \ {r}
    BY <1>1, <2>1
  <2>3. IsFiniteSet(N) /\ Cardinality(N) = IF r \in M THEN Cardinality(M) - 1 ELSE Cardinality(M)
    BY ONLY <2>2, FS_RemoveElement
  <2>4. QED
    BY <2>1, <2>3
<1>3. QED
  BY <1>1, <1>2, FS_CardinalityType

\* Every step of Startup keeps the rows within the requests.
LEMMA RowsStep ==
    ASSUME IsFiniteSet(Req), ProfileInvariant, RowsBounded, [Seeds!Next]_(Seeds!vars)
    PROVE  RowsBounded'
<1> USE DEF ProfileInvariant, ProfileTypes
<1>a. Cardinality(Req) \in Nat
  BY FS_CardinalityType
<1>1. CASE UNCHANGED Seeds!profile
  BY <1>1 DEF Seeds!profile, RowsBounded, Missing
<1>2. ASSUME NEW r \in Req, NEW v \in Profile \cup {Default}, Seeds!BeginSettings(r, v) PROVE RowsBounded'
  <2>1. CASE settings = <<>> /\ UNCHANGED picked
    BY <1>2, <2>1 DEF Seeds!BeginSettings, RowsBounded
  <2>2. CASE /\ settingsPc' = [settingsPc EXCEPT ![r] = "found"]
             /\ picked' \in {[picked EXCEPT ![r] = n] : n \in DOMAIN settings}
    <3>1. PICK n \in DOMAIN settings : picked' = [picked EXCEPT ![r] = n]
      BY <2>2
    <3>2. n \in 1 .. Len(settings) /\ settings # <<>> /\ Len(settings) \in Nat
      BY <3>1
    <3>3. Missing' = Missing
      BY <1>2, <2>2 DEF Missing, Seeds!BeginSettings
    <3>4. Cardinality(Missing) \in Nat
      BY FS_Subset, FS_CardinalityType DEF Missing
    <3>5. n <= Cardinality(Req)
      BY <1>a, <3>2, <3>4 DEF RowsBounded
    <3>6. Len(settings) + Cardinality(Missing') <= Cardinality(Req) /\ UNCHANGED settings
      BY <1>2, <3>2, <3>3 DEF RowsBounded, Seeds!BeginSettings
    <3>7. \A q \in Req : picked'[q] <= Cardinality(Req)
      BY <3>1, <3>5 DEF RowsBounded
    <3>8. QED
      BY <3>6, <3>7 DEF RowsBounded
  <2>3. QED
    BY <1>2, <2>1, <2>2 DEF Seeds!BeginSettings
<1>3. ASSUME NEW r \in Req, Seeds!EndRequest(r), Len(settings') \in Nat,
             \/ Len(settings') = Len(settings) /\ (settings' # <<>> => settings # <<>>)
             \/ settingsPc[r] = "missing" /\ Len(settings') = Len(settings) + 1
      PROVE  RowsBounded'
  <2>1. Missing' = Missing \ {r} /\ \A q \in Req : picked'[q] = IF q = r THEN 0 ELSE picked[q]
    BY <1>3 DEF Seeds!EndRequest, Missing
  <2>2. /\ Cardinality(Missing) \in Nat /\ Cardinality(Missing') \in Nat
        /\ Cardinality(Missing) <= Cardinality(Req)
        /\ Cardinality(Missing') = IF r \in Missing THEN Cardinality(Missing) - 1 ELSE Cardinality(Missing)
    BY <2>1, MissingFewer
  <2>3. settings # <<>> => Len(settings) + Cardinality(Missing) <= Cardinality(Req)
    BY DEF RowsBounded
  <2>4. settings = <<>> => Len(settings) = 0
    OBVIOUS
  <2>5. settings' # <<>> => Len(settings') + Cardinality(Missing') <= Cardinality(Req)
    <3>1. Len(settings) \in Nat
      OBVIOUS
    <3>2. settingsPc[r] = "missing" => r \in Missing
      BY DEF Missing
    <3>3. PICK m, n, k, l, c : /\ m = Cardinality(Missing) /\ n = Cardinality(Missing') /\ c = Cardinality(Req)
                               /\ k = Len(settings) /\ l = Len(settings')
      OBVIOUS
    <3>4. /\ m \in Nat /\ n \in Nat /\ c \in Nat /\ k \in Nat /\ l \in Nat /\ m <= c
          /\ n = IF r \in Missing THEN m - 1 ELSE m
      BY <1>a, <1>3, <2>2, <3>1, <3>3
    <3>5. CASE Len(settings') = Len(settings) /\ (settings' # <<>> => settings # <<>>)
      <4>1. settings' # <<>> => k + m <= c
        BY <2>3, <3>3, <3>5
      <4>2. l = k
        BY <3>3, <3>5
      <4>3. settings' # <<>> => l + n <= c
        BY <3>4, <4>1, <4>2
      <4>4. QED
        BY <3>3, <4>3
    <3>6. CASE settingsPc[r] = "missing" /\ Len(settings') = Len(settings) + 1
      <4>1. k + m <= c
        BY <2>3, <2>4, <3>3, <3>4
      <4>2. l = k + 1 /\ n = m - 1
        BY <3>2, <3>3, <3>4, <3>6
      <4>3. l + n <= c
        BY <3>4, <4>1, <4>2
      <4>4. QED
        BY <3>3, <4>3
    <3>7. QED
      BY <1>3, <3>5, <3>6
  <2>6. \A q \in Req : picked'[q] <= Cardinality(Req)
    BY <1>a, <2>1 DEF RowsBounded
  <2>7. QED
    BY <2>5, <2>6 DEF RowsBounded
<1>4. ASSUME NEW r \in Req, Seeds!CommitSettings(r) PROVE RowsBounded'
  <2>1. Seeds!EndRequest(r) /\ given[r] \in Profile \cup {Default}
    BY <1>4 DEF Seeds!CommitSettings
  <2>2. CASE settingsPc[r] = "found" /\ settings' = Seeds!Write(r)
    <3>1. settings \in [1..Len(settings) -> Profile \cup {Default}] /\ Len(settings) \in Nat
      OBVIOUS
    <3>2. settings' = settings \/ settings' = [settings EXCEPT ![picked[r]] = given[r]]
      BY <2>2 DEF Seeds!Write
    <3>3. settings' \in [1..Len(settings) -> Profile \cup {Default}]
      BY <2>1, <3>1, <3>2
    <3>4. Len(settings') = Len(settings)
      BY <3>1, <3>3
    <3>5. settings = <<>> => settings' = <<>>
      BY <3>3
    <3>6. QED
      BY <1>3, <2>1, <3>1, <3>4, <3>5
  <2>3. CASE settingsPc[r] = "missing" /\ settings' = Append(settings, given[r])
    <3>1. Len(settings') = Len(settings) + 1 /\ Len(settings) \in Nat
      BY <2>1, <2>3
    <3>2. QED
      BY <1>3, <2>1, <2>3, <3>1
  <2>4. QED
    BY <1>4, <2>2, <2>3 DEF Seeds!CommitSettings
<1>5. ASSUME NEW r \in Req, Seeds!Rollback(r) PROVE RowsBounded'
  BY <1>3, <1>5 DEF Seeds!Rollback
<1>6. ASSUME NEW w \in Worker, \/ Seeds!Start(w) \/ Seeds!CountUsers(w) \/ Seeds!AddAdmin(w)
          \/ Seeds!PrintPassword(w) \/ Seeds!LockSeed(w) \/ Seeds!CountCategories(w) \/ Seeds!AddTree(w)
          \/ Seeds!CountRoles(w) \/ Seeds!AddRoles(w) \/ Seeds!Die(w)
      PROVE  RowsBounded'
  BY <1>1, <1>6 DEF Seeds!Start, Seeds!CountUsers, Seeds!AddAdmin, Seeds!PrintPassword, Seeds!LockSeed,
     Seeds!CountCategories, Seeds!AddTree, Seeds!CountRoles, Seeds!AddRoles, Seeds!Die
<1>7. CASE Seeds!DeleteCategories
  BY <1>1, <1>7 DEF Seeds!DeleteCategories
<1>8. CASE UNCHANGED Seeds!vars
  BY <1>1, <1>8 DEF Seeds!vars
<1> QED
  BY <1>2, <1>4, <1>5, <1>6, <1>7, <1>8 DEF Seeds!Next

\* The types of all modules follow from what their proofs carry.
AccessTypes ==
    /\ LockoutInvariant /\ ResetInvariant /\ CopyInvariant /\ MailInvariant
    /\ TabInvariant /\ TabRest
    /\ StartupInvariant /\ ProfileInvariant /\ RowsBounded

\* The accounts, sessions, permissions, pages, mails and the startup are well
\* typed, whatever runs at a time (the columns of app/models and the values
\* app/services and the frontend keep).
THEOREM AccessTyped ==
    ASSUME IsFiniteSet(Req)
    PROVE  Spec => []TypeOK
<1>1. Init => AccessTypes
  <2> SUFFICES ASSUME Init PROVE AccessTypes
    OBVIOUS
  <2>1. LockoutInvariant /\ ResetInvariant /\ CopyInvariant /\ MailInvariant
    BY LockoutInit, ResetInit, CopyInit, MailInit, BoundAssumption DEF Init
  <2>2. TabInvariant /\ StartupInvariant /\ ProfileInvariant
    BY TabInit, StartupInit, ProfileInit DEF Init
  <2>3. TabRest
    BY DEF Init, Tabs!Init, TabRest
  <2>4. settings = <<>> /\ \A r \in Req : picked[r] = 0
    BY DEF Init, Seeds!Init
  <2>5. RowsBounded
    BY <2>4, FS_CardinalityType DEF RowsBounded
  <2>6. QED
    BY <2>1, <2>2, <2>3, <2>5 DEF AccessTypes
<1>2. AccessTypes /\ [Next]_vars => AccessTypes'
  <2> SUFFICES ASSUME AccessTypes, [Next]_vars PROVE AccessTypes'
    OBVIOUS
  <2> USE DEF AccessTypes
  <2>1. LockoutInvariant'
    BY LockoutStep, LoginNext
  <2>2. ResetInvariant'
    BY ResetStep, SessionNext
  <2>3. CopyInvariant'
    BY CopyStep, GrantNext
  <2>4. MailInvariant'
    BY MailStep, MailNext, BoundAssumption
  <2>5. TabInvariant' /\ TabRest'
    BY TabStep, TabRestStep, TabNext, NoneAssumption
  <2>6. StartupInvariant' /\ ProfileInvariant' /\ RowsBounded'
    BY StartupStep, ProfileStep, RowsStep, SeedNext
  <2>7. QED
    BY <2>1, <2>2, <2>3, <2>4, <2>5, <2>6
<1>3. AccessTypes => TypeOK
  <2> SUFFICES ASSUME AccessTypes PROVE TypeOK
    OBVIOUS
  <2>1. Logins!TypeOK /\ Tokens!TypeOK /\ Grants!TypeOK /\ Mails!TypeOK
    BY DEF AccessTypes, LockoutInvariant, ResetInvariant, SessionTypes, CopyInvariant, MailInvariant
  <2>2. Tabs!TypeOK
    BY DEF AccessTypes, TabInvariant, TabTypes, TabRest, Flights, Tabs!TypeOK
  <2>3. Seeds!TypeOK
    <3>1. Seeds!Rows = 1 .. Cardinality(Req) /\ Cardinality(Req) \in Nat
      BY FS_CardinalityType DEF Seeds!Rows, Seeds!Cardinality, Cardinality
    <3>2. picked \in [Req -> {0} \cup Seeds!Rows]
      BY <3>1 DEF AccessTypes, ProfileInvariant, ProfileTypes, RowsBounded
    <3>3. \E n \in {0} \cup Seeds!Rows : settings \in [1..n -> Profile \cup {Default}]
      <4>1. settings \in [1..Len(settings) -> Profile \cup {Default}] /\ Len(settings) \in Nat
        BY DEF AccessTypes, ProfileInvariant, ProfileTypes
      <4>2. Cardinality(Missing) \in Nat
        BY FS_Subset, FS_CardinalityType DEF Missing
      <4>3. Len(settings) = 0 \/ Len(settings) <= Cardinality(Req)
        BY <3>1, <4>1, <4>2 DEF AccessTypes, RowsBounded
      <4>4. Len(settings) \in {0} \cup Seeds!Rows
        BY <3>1, <4>1, <4>3
      <4>5. QED
        BY <4>1, <4>4
    <3>4. QED
      BY <3>2, <3>3 DEF AccessTypes, StartupInvariant, StartupTypes, Steps, ProfileInvariant, ProfileTypes,
         Seeds!TypeOK
  <2>4. QED
    BY <2>1, <2>2, <2>3 DEF TypeOK
<1>4. QED
  BY <1>1, <1>2, <1>3, PTL DEF Spec

=============================================================================
