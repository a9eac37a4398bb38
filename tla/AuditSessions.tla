------------------------------ MODULE AuditSessions ------------------------------
(***************************************************************************)
(* Stock audits of one location.  A session freezes the quantities of the  *)
(* cache when it starts; a count is compared with the frozen quantity; the *)
(* approval adds each difference to the stock.  Meanwhile other requests   *)
(* move stock, and a part with a movement since the snapshot is flagged    *)
(* for a new count.                                                        *)
(*                                                                         *)
(* A request is one transaction at READ COMMITTED.  It reads the session   *)
(* with no lock.  `raced` remembers the sessions two requests wrote at     *)
(* once.  `shelf` is what is physically there: a count reads it, and goods *)
(* move when their movement commits.  The statements of a movement are in  *)
(* StockLedger; here it is written, and later committed.                   *)
(***************************************************************************)
EXTENDS Integers, FiniteSets, FiniteSetsExt

CONSTANTS
    Req,
    Session,
    NoSession,  \* what an idle request works on
    Part,
    NoPart,
    NoItem,     \* no snapshot item of the part
    MaxUnits    \* bound on the stock of a part

VARIABLES
    stocked,    \* committed: parts with a cache row
    stock,      \* committed: current_quantity of that row
    shelf,      \* units physically there
    status,     \* committed status of each session; NONE before it exists
    snapshot,   \* committed snapshot_quantity of each session and part
    counts,     \* committed count rows, by session
    adjusted,   \* committed: sum of the session's AUDIT ledger entries, by part
    flagged,    \* parts with a committed entry created after the snapshot
    hidden,     \* history: parts whose movement was written, and not
                \* committed, when the session read the cache
    omitted,    \* history: parts with stock that a cycle count left out
    raced,      \* history: sessions that two requests wrote at once
    pc, doc, part,
    view,       \* what each request has read and computed
    newer       \* sessions whose snapshot_timestamp is before its entries

sessions == <<status, snapshot, counts, adjusted, flagged>>
goods    == <<stocked, stock, shelf>>
history  == <<hidden, omitted, raced>>
local    == <<pc, doc, part, view, newer>>
vars     == <<goods, sessions, history, local>>

Status == {"NONE", "INITIATED", "IN_PROGRESS", "COMPLETED"}
Open   == {"INITIATED", "IN_PROGRESS"}

\* Nothing but the request that found none keeps a part from having two rows.
CountRow == [part : Part, by : Req, counted : Nat, variance : Int]
View == [status : Status, item : Nat \cup {NoItem}, counted : Nat,
         rows : SUBSET CountRow, change : Int]

NoItems == [p \in Part |-> NoItem]
Nothing == [p \in Part |-> 0]
NoView  == [status |-> "NONE", item |-> NoItem, counted |-> 0, rows |-> {}, change |-> 0]

TypeOK ==
    /\ stocked \subseteq Part
    /\ stock \in [Part -> Nat] /\ shelf \in [Part -> Nat]
    /\ status \in [Session -> Status]
    /\ snapshot \in [Session -> [Part -> Nat \cup {NoItem}]]
    /\ \A s \in Session : counts[s] \subseteq CountRow
    /\ adjusted \in [Session -> [Part -> Int]]
    /\ flagged \in [Session -> SUBSET Part]
    /\ hidden \in [Session -> SUBSET Part] /\ omitted \in [Session -> SUBSET Part]
    /\ raced \subseteq Session
    /\ pc \in [Req -> {"idle", "stamped", "find", "count", "sum", "adjust", "move"}]
    /\ doc \in [Req -> Session \cup {NoSession}]
    /\ part \in [Req -> Part \cup {NoPart}]
    /\ view \in [Req -> View]
    /\ newer \in [Req -> SUBSET Session]

\* The books may differ from the shelf: that is what an audit is for.
Init ==
    /\ stocked \in SUBSET Part
    /\ stock \in [Part -> 0..1] /\ shelf \in [Part -> 0..1]
    /\ \A p \in Part \ stocked : stock[p] = 0
    /\ status = [s \in Session |-> "NONE"]
    /\ snapshot = [s \in Session |-> NoItems]
    /\ counts = [s \in Session |-> {}]
    /\ adjusted = [s \in Session |-> Nothing]
    /\ flagged = [s \in Session |-> {}]
    /\ hidden = [s \in Session |-> {}]
    /\ omitted = [s \in Session |-> {}]
    /\ raced = {}
    /\ pc = [r \in Req |-> "idle"]
    /\ doc = [r \in Req |-> NoSession]
    /\ part = [r \in Req |-> NoPart]
    /\ view = [r \in Req |-> NoView]
    /\ newer = [r \in Req |-> {}]

Goto(r, l) == pc' = [pc EXCEPT ![r] = l]
Others(r, s) == {q \in Req \ {r} : doc[q] = s}

EndTransaction(r) ==
    /\ doc'   = [doc   EXCEPT ![r] = NoSession]
    /\ part'  = [part  EXCEPT ![r] = NoPart]
    /\ view'  = [view  EXCEPT ![r] = NoView]
    /\ newer' = [newer EXCEPT ![r] = {}]
    /\ Goto(r, "idle")

\* Sessions that have taken their timestamp, committed or not.
Stamped == {s \in Session : status[s] # "NONE" \/ \E q \in Req : doc[q] = s}

\* The change of each part's stock that a request has written.
Changes(r) ==
    [p \in Part |->
        IF pc[r] = "move" /\ part[r] = p THEN view[r].change
        ELSE IF pc[r] = "adjust"
        THEN MapThenSumSet(LAMBDA c : c.variance, {c \in view[r].rows : c.part = p})
        ELSE 0]
Moving(r) == {p \in Part : Changes(r)[p] # 0}

\* Mutant: only a session that has a count already is considered active.
FlagInProgress(r) ==
    flagged' = [s \in Session |->
                   IF s \in newer[r] /\ status[s] = "IN_PROGRESS"
                   THEN flagged[s] \cup Moving(r) ELSE flagged[s]]

\* A part is flagged in the sessions that started before the entry was
\* written.
Flag(r) ==
    flagged' = [s \in Session |-> IF s \in newer[r] THEN flagged[s] \cup Moving(r) ELSE flagged[s]]

-----------------------------------------------------------------------------
(* Movements of stock by other operations: record_inventory_movement.      *)

WriteMovement(r, p, d) ==
    /\ pc[r] = "idle"
    /\ part'  = [part EXCEPT ![r] = p]
    /\ view'  = [view EXCEPT ![r].change = d]
    /\ newer' = [newer EXCEPT ![r] = Stamped]
    /\ Goto(r, "move")
    /\ UNCHANGED <<goods, sessions, history, doc>>

\* The row is locked, checked and changed, and the goods move.
CommitMovement(r) ==
    LET p == part[r] IN
    /\ pc[r] = "move"
    /\ stock[p] + view[r].change \in 0..MaxUnits
    /\ shelf[p] + view[r].change >= 0
    /\ stock' = [stock EXCEPT ![p] = @ + view[r].change]
    /\ shelf' = [shelf EXCEPT ![p] = @ + view[r].change]
    /\ stocked' = stocked \cup {p}
    /\ Flag(r)
    /\ EndTransaction(r)
    /\ UNCHANGED <<status, snapshot, counts, adjusted, history>>

-----------------------------------------------------------------------------
(* initiate_audit.                                                         *)

\* snapshot_timestamp is taken first.
StampSession(r, s) ==
    /\ pc[r] = "idle"
    /\ s \notin Stamped
    /\ doc' = [doc EXCEPT ![r] = s]
    /\ Goto(r, "stamped")
    /\ UNCHANGED <<goods, sessions, history, part, view, newer>>

\* The parts a session is about: those a cycle count names, or all.
Scopes == SUBSET Part

\* Then the cache is read, the rows of the location or those of the parts
\* asked for, and committed with the session: nobody can use it before.
CommitSession(r, parts) ==
    LET s == doc[r] IN
    /\ pc[r] = "stamped"
    /\ status'   = [status   EXCEPT ![s] = "INITIATED"]
    /\ snapshot' = [snapshot EXCEPT ![s] =
                      [p \in Part |-> IF p \in stocked \cap parts THEN stock[p] ELSE NoItem]]
    /\ hidden'   = [hidden   EXCEPT ![s] = UNION {Moving(q) : q \in {q \in Req : s \notin newer[q]}}]
    /\ omitted'  = [omitted  EXCEPT ![s] = {p \in stocked \ parts : stock[p] > 0}]
    /\ EndTransaction(r)
    /\ UNCHANGED <<goods, counts, adjusted, flagged, raced>>

-----------------------------------------------------------------------------
(* _get_session, for a count or an approval: an open session, no lock.     *)

GetSession(r, s, p, next) ==
    /\ pc[r] = "idle"
    /\ status[s] \in Open
    /\ doc'  = [doc  EXCEPT ![r] = s]
    /\ part' = [part EXCEPT ![r] = p]
    /\ view' = [view EXCEPT ![r].status = status[s],
                            ![r].counted = IF p = NoPart THEN 0 ELSE shelf[p]]
    /\ raced' = IF Others(r, s) = {} THEN raced ELSE raced \cup {s}
    /\ Goto(r, next)
    /\ UNCHANGED <<goods, sessions, hidden, omitted, newer>>

(* submit_count.                                                           *)

BeginCount(r, s, p) == GetSession(r, s, p, "find")

\* The snapshot item, or a new one of quantity 0, whose unique key waits for
\* another request's; and the rows of the part, none for a first count.
FindCount(r) ==
    LET s == doc[r]
        p == part[r]
    IN  /\ pc[r] = "find"
        /\ snapshot[s][p] = NoItem => \A q \in Others(r, s) : view[q].item = NoItem
        /\ view' = [view EXCEPT ![r].item = IF snapshot[s][p] = NoItem THEN 0 ELSE snapshot[s][p],
                                ![r].rows = {c \in counts[s] : c.part = p}]
        /\ Goto(r, "count")
        /\ UNCHANGED <<goods, sessions, history, doc, part, newer>>

\* Mutant: each count is a new row, also when there is one.
CommitSecondCount(r) ==
    LET s == doc[r]
        p == part[r]
        c == [part |-> p, by |-> r, counted |-> view[r].counted,
              variance |-> view[r].counted - view[r].item]
    IN  /\ pc[r] = "count"
        /\ counts' = [counts EXCEPT ![s] = @ \cup {c}]
        /\ snapshot' = [snapshot EXCEPT ![s][p] = view[r].item]
        /\ status' = [status EXCEPT ![s] = IF view[r].status = "INITIATED" THEN "IN_PROGRESS" ELSE @]
        /\ EndTransaction(r)
        /\ UNCHANGED <<goods, adjusted, flagged, history>>

\* The row that was found is overwritten, or a new one inserted.  With several
\* rows the code takes any of them.
CommitCount(r) ==
    LET s == doc[r]
        p == part[r]
        old == view[r].rows
    IN  /\ pc[r] = "count"
        /\ \E who \in IF old = {} THEN {r} ELSE {c.by : c \in old} :
              counts' = [counts EXCEPT ![s] =
                 {c \in @ : ~(c.part = p /\ c.by = who)}
                   \cup {[part |-> p, by |-> who, counted |-> view[r].counted,
                          variance |-> view[r].counted - view[r].item]}]
        /\ snapshot' = [snapshot EXCEPT ![s][p] = view[r].item]
        /\ status' = [status EXCEPT ![s] = IF view[r].status = "INITIATED" THEN "IN_PROGRESS" ELSE @]
        /\ EndTransaction(r)
        /\ UNCHANGED <<goods, adjusted, flagged, history>>

-----------------------------------------------------------------------------
(* complete_audit.                                                         *)

BeginApproval(r, s) == GetSession(r, s, NoPart, "sum")

\* The counts are read, and an entry is written for each variance.
WriteAdjustments(r) ==
    /\ pc[r] = "sum"
    /\ view'  = [view  EXCEPT ![r].rows = counts[doc[r]]]
    /\ newer' = [newer EXCEPT ![r] = Stamped \ {doc[r]}]
    /\ Goto(r, "adjust")
    /\ UNCHANGED <<goods, sessions, history, doc, part>>

\* Fails when the stock sold since the snapshot leaves less than a shortfall.
CommitApproval(r) ==
    LET s == doc[r]
        change == Changes(r)
    IN  /\ pc[r] = "adjust"
        /\ \A p \in Part : stock[p] + change[p] \in 0..MaxUnits
        /\ stock' = [p \in Part |-> stock[p] + change[p]]
        /\ stocked' = stocked \cup Moving(r)
        /\ adjusted' = [adjusted EXCEPT ![s] = [p \in Part |-> @[p] + change[p]]]
        /\ status' = [status EXCEPT ![s] = "COMPLETED"]
        /\ Flag(r)
        /\ EndTransaction(r)
        /\ UNCHANGED <<shelf, snapshot, counts, history>>

\* A refusal, an error, a crash.
Rollback(r) ==
    /\ pc[r] # "idle"
    /\ EndTransaction(r)
    /\ UNCHANGED <<goods, sessions, history>>

Next ==
    \E r \in Req :
        \/ \E p \in Part, d \in {-1, 1} : WriteMovement(r, p, d)
        \/ CommitMovement(r)
        \/ \E s \in Session : StampSession(r, s) \/ BeginApproval(r, s)
        \/ \E parts \in Scopes : CommitSession(r, parts)
        \/ \E s \in Session, p \in Part : BeginCount(r, s, p)
        \/ FindCount(r)
        \/ CommitCount(r)
        \/ WriteAdjustments(r)
        \/ CommitApproval(r)
        \/ Rollback(r)

Spec == Init /\ [][Next]_vars

-----------------------------------------------------------------------------
(* Properties                                                              *)

\* check_recount_required: the flagged parts among those of the snapshot.
RecountRequired(s) == {p \in flagged[s] : snapshot[s][p] # NoItem}

\* A session has one count of a part, the last one, and adds to the stock of
\* the part what that count differs from the snapshot, once, whatever moved
\* meanwhile.  (Two requests that write one session at once can leave two
\* counts of a part, or approve it twice.)
AdjustedOnce ==
    \A s \in Session \ raced, p \in Part :
        LET rows == {c \in counts[s] : c.part = p}
        IN  /\ Cardinality(rows) <= 1
            /\ adjusted[s][p] =
                  IF status[s] # "COMPLETED" THEN 0
                  ELSE MapThenSumSet(LAMBDA c : c.counted - snapshot[s][p], rows)

\* When a session is approved, the books of every part it counted and that is
\* not flagged for a recount are what is on the shelf.  Except for a part that
\* a cycle count left out, and for a movement that was written before the
\* snapshot and committed after: neither the snapshot nor the flags know it.
AuditAligns ==
    [][\A s \in Session \ raced :
          status[s] \in Open /\ status'[s] = "COMPLETED" =>
              \A c \in counts[s] :
                  \/ c.part \in RecountRequired(s) \cup hidden[s] \cup omitted[s]
                  \/ stock'[c.part] = shelf'[c.part]]_vars

=============================================================================
