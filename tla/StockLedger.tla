------------------------------ MODULE StockLedger ------------------------------
(***************************************************************************)
(* Stock of a part at a location, as the concurrent requests of the        *)
(* backend change it.  Each request is one PostgreSQL transaction at READ  *)
(* COMMITTED: it reads committed rows, buffers its own writes, holds the   *)
(* rows it locked or wrote, and either commits everything or rolls back.   *)
(*                                                                         *)
(* Three tables keep the same quantity in three ways:                      *)
(*   stock_status_cache         rows, cache    one row per stock key       *)
(*   inventory_movement_ledger  ledger         the sum of its entries      *)
(*   cost_layers                layers         the sum of remaining units  *)
(***************************************************************************)
EXTENDS Integers, Sequences, FiniteSets

CONSTANTS
    Req,         \* concurrent requests: one session, one transaction each
    NoReq,       \* the owner of a row that nobody locks
    Key,         \* stock keys: (spare_part_id, location_id) pairs
    Jobs,        \* what a request may ask for: non-empty sequences of items
    Reconciles,  \* may a request run the reconciliation service?
    StockBound   \* model bound: how much stock, or drift, a key may have

(***************************************************************************)
(* A job is processed item by item.  The kind of an item says which code   *)
(* path moves the stock:                                                   *)
(*   confirm_sale    lock the cache row, check, consume layers, record;    *)
(*                   also approve_transfer, with a single item             *)
(*   receive_goods   add a layer, record; also return_sale,                *)
(*                   receive_transfer and cancel_transfer                  *)
(*   complete_audit  consume or add layers with no lock, record            *)
(*   adjust_stock    the manual adjustment of the stock router             *)
(*   sum, fix        a cache row the reconciliation compares, or corrects  *)
(***************************************************************************)
LockedKinds == {"confirm_sale", "receive_goods", "complete_audit"}
JobKinds    == LockedKinds \cup {"adjust_stock"}
Kinds       == JobKinds \cup {"sum", "fix"}

Item    == [kind : Kinds, key : Key, qty : Int]
JobItem == {i \in Item : /\ i.kind \in JobKinds
                         /\ i.kind = "confirm_sale"  => i.qty < 0
                         /\ i.kind = "receive_goods" => i.qty > 0
                         /\ i.qty # 0}

ASSUME RequestAssumption == NoReq \notin Req
ASSUME KeyAssumption     == IsFiniteSet(Key)
ASSUME JobAssumption     == Jobs \subseteq Seq(JobItem) \ {<<>>}
ASSUME BoundAssumption   == Reconciles \in BOOLEAN /\ StockBound \in Nat

VARIABLES
    rows,       \* keys that have a committed cache row
    cache,      \* committed current_quantity; 0 where there is no row
    ledger,     \* committed sum of quantity_change
    layers,     \* committed sum of remaining_quantity
    cacheLock,  \* the transaction that locked, wrote or inserted the row
    layerLock,  \* the transaction that locked the non-empty layers
    pc,         \* where each request is
    job,        \* what the request was asked for; <<>> when idle
    todo,       \* the items it still has to process
    seen,       \* current_quantity of the row object in its session
    moved,      \* sum of its own, uncommitted ledger entries
    layered     \* its own, uncommitted change of remaining_quantity

tables == <<rows, cache, ledger, layers>>
locks  == <<cacheLock, layerLock>>
vars   == <<rows, cache, ledger, layers, cacheLock, layerLock,
            pc, job, todo, seen, moved, layered>>

Steps == {"idle", "item", "layers", "movement", "cache", "insert", "overwrite"}

TypeOK ==
    /\ rows \subseteq Key
    /\ cache  \in [Key -> Int]
    /\ ledger \in [Key -> Int]
    /\ layers \in [Key -> Int]
    /\ cacheLock \in [Key -> Req \cup {NoReq}]
    /\ layerLock \in [Key -> Req \cup {NoReq}]
    /\ pc   \in [Req -> Steps]
    /\ job  \in [Req -> Seq(Item)]
    /\ todo \in [Req -> Seq(Item)]
    /\ seen    \in [Req -> [Key -> Int]]
    /\ moved   \in [Req -> [Key -> Int]]
    /\ layered \in [Req -> [Key -> Int]]
    /\ \A r \in Req : pc[r] \notin {"idle", "item"} => todo[r] # <<>>

Zero == [k \in Key |-> 0]

Init ==
    /\ rows = {}
    /\ cache  = Zero
    /\ ledger = Zero
    /\ layers = Zero
    /\ cacheLock = [k \in Key |-> NoReq]
    /\ layerLock = [k \in Key |-> NoReq]
    /\ pc   = [r \in Req |-> "idle"]
    /\ job  = [r \in Req |-> <<>>]
    /\ todo = [r \in Req |-> <<>>]
    /\ seen    = [r \in Req |-> Zero]
    /\ moved   = [r \in Req |-> Zero]
    /\ layered = [r \in Req |-> Zero]

-----------------------------------------------------------------------------
(* The item a request works on, and what it can see of that item's rows.   *)

At(r, step, kinds) ==
    /\ pc[r] = step
    /\ todo[r] # <<>>
    /\ Head(todo[r]).kind \in kinds

KeyOf(r) == Head(todo[r]).key
QtyOf(r) == Head(todo[r]).qty

\* Mutant: the cache row is read without FOR UPDATE.
UnlockedRead(r, k) == TRUE

CacheFree(r, k) == cacheLock[k] \in {NoReq, r}

\* Mutant: the layers are read without FOR UPDATE.
UnlockedLayers(r, k) == TRUE

LayerFree(r, k) == layerLock[k] \in {NoReq, r} \/ layers[k] = 0

\* The cache row as the session sees it: its own object once it holds the row.
RowQty(r, k) == IF cacheLock[k] = r THEN seen[r][k] ELSE cache[k]

\* Units in the layers the session sees: the committed ones and its own.
LayerQty(r, k) == layers[k] + layered[r][k]

\* SELECT ... FOR UPDATE returns no row: none is committed, none is its own.
NoRow(r, k) == k \notin rows /\ cacheLock[k] # r

Goto(r, step) == pc' = [pc EXCEPT ![r] = step]
NextItem(r)   == /\ todo' = [todo EXCEPT ![r] = Tail(@)]
                 /\ Goto(r, "item")

TakeCache(r, k, q) ==
    /\ cacheLock' = [cacheLock EXCEPT ![k] = r]
    /\ seen' = [seen EXCEPT ![r][k] = q]

Move(r, k, q)  == moved'   = [moved   EXCEPT ![r][k] = @ + q]
Layer(r, k, q) == layered' = [layered EXCEPT ![r][k] = @ + q]

\* FOR UPDATE locks the layers the query returns: those with units left.
TakeLayers(r, k) ==
    layerLock' = IF layers[k] = 0 THEN layerLock
                 ELSE [layerLock EXCEPT ![k] = r]

-----------------------------------------------------------------------------
(* Requests start, and end by a commit or a rollback.                      *)

\* StockBound keeps the model finite: no inflow on a key that has this much,
\* no outflow on one that drifted this far below zero.
Bounded(i) ==
    /\ i.qty > 0 => \A t \in {cache, ledger, layers} : t[i.key] < StockBound
    /\ i.qty < 0 => ledger[i.key] > -StockBound

\* A variance is counted units less the units of an earlier snapshot; a
\* request that will complete an audit begins with the snapshot.
Counted(i) == i.kind = "complete_audit" => cache[i.key] + i.qty >= 0

\* Mutant: a request may process its items backwards.
BeginUnordered(r) ==
    /\ pc[r] = "idle"
    /\ \E j \in Jobs :
         /\ \A n \in DOMAIN j : Bounded(j[n]) /\ Counted(j[n])
         /\ job'  = [job  EXCEPT ![r] = j]
         /\ \/ todo' = [todo EXCEPT ![r] = j]
            \/ todo' = [todo EXCEPT ![r] = [n \in DOMAIN j |-> j[Len(j) + 1 - n]]]
    /\ Goto(r, "item")
    /\ UNCHANGED <<tables, locks, seen, moved, layered>>

Begin(r) ==
    /\ pc[r] = "idle"
    /\ \E j \in Jobs :
         /\ \A n \in DOMAIN j : Bounded(j[n]) /\ Counted(j[n])
         /\ job'  = [job  EXCEPT ![r] = j]
         /\ todo' = [todo EXCEPT ![r] = j]
    /\ Goto(r, "item")
    /\ UNCHANGED <<tables, locks, seen, moved, layered>>

\* The reconciliation reads every cache row, in no particular order.
GetAllCacheEntries(r) ==
    /\ Reconciles
    /\ pc[r] = "idle"
    /\ rows # {}
    /\ \E order \in [1 .. Cardinality(rows) -> rows] :
         LET scan == [i \in DOMAIN order |->
                        [kind |-> "sum", key |-> order[i], qty |-> 0]]
         IN  /\ {order[i] : i \in DOMAIN order} = rows
             /\ job'  = [job  EXCEPT ![r] = scan]
             /\ todo' = [todo EXCEPT ![r] = scan]
    /\ seen' = [seen EXCEPT ![r] = cache]
    /\ Goto(r, "item")
    /\ UNCHANGED <<tables, locks, moved, layered>>

\* Mutant: the next request reuses the session with its pending entries.
EndUnexpunged(r) ==
    /\ cacheLock' = [k \in Key |-> IF cacheLock[k] = r THEN NoReq ELSE cacheLock[k]]
    /\ layerLock' = [k \in Key |-> IF layerLock[k] = r THEN NoReq ELSE layerLock[k]]
    /\ job'  = [job  EXCEPT ![r] = <<>>]
    /\ todo' = [todo EXCEPT ![r] = <<>>]
    /\ Goto(r, "idle")
    /\ UNCHANGED <<seen, moved, layered>>

\* The transaction is over: its locks go, its session goes.
EndTransaction(r) ==
    /\ cacheLock' = [k \in Key |-> IF cacheLock[k] = r THEN NoReq ELSE cacheLock[k]]
    /\ layerLock' = [k \in Key |-> IF layerLock[k] = r THEN NoReq ELSE layerLock[k]]
    /\ job'  = [job  EXCEPT ![r] = <<>>]
    /\ todo' = [todo EXCEPT ![r] = <<>>]
    /\ seen'    = [seen    EXCEPT ![r] = Zero]
    /\ moved'   = [moved   EXCEPT ![r] = Zero]
    /\ layered' = [layered EXCEPT ![r] = Zero]
    /\ Goto(r, "idle")

Commit(r) ==
    /\ pc[r] = "item"
    /\ todo[r] = <<>>
    /\ rows'   = rows \cup {k \in Key : cacheLock[k] = r}
    /\ cache'  = [k \in Key |-> RowQty(r, k)]
    /\ ledger' = [k \in Key |-> ledger[k] + moved[r][k]]
    /\ layers' = [k \in Key |-> LayerQty(r, k)]
    /\ EndTransaction(r)

Rollback(r) ==
    /\ pc[r] # "idle"
    /\ EndTransaction(r)
    /\ UNCHANGED tables

-----------------------------------------------------------------------------
(* confirm_sale and approve_transfer                                       *)

\* Mutant: the check does not lock the row.
CheckStock(r) ==
    /\ At(r, "item", {"confirm_sale"})
    /\ ~NoRow(r, KeyOf(r))
    /\ RowQty(r, KeyOf(r)) + QtyOf(r) >= 0
    /\ Goto(r, "layers")
    /\ UNCHANGED <<tables, locks, job, todo, seen, moved, layered>>

\* SELECT the cache row FOR UPDATE, then compare with the quantity asked for.
LockStock(r) ==
    /\ At(r, "item", {"confirm_sale"})
    /\ ~NoRow(r, KeyOf(r))
    /\ CacheFree(r, KeyOf(r))
    /\ RowQty(r, KeyOf(r)) + QtyOf(r) >= 0
    /\ TakeCache(r, KeyOf(r), RowQty(r, KeyOf(r)))
    /\ Goto(r, "layers")
    /\ UNCHANGED <<tables, layerLock, job, todo, moved, layered>>

\* consume_fifo_layers on the locked stock.
ConsumeLayers(r) ==
    /\ At(r, "layers", {"confirm_sale"})
    /\ LayerFree(r, KeyOf(r))
    /\ LayerQty(r, KeyOf(r)) + QtyOf(r) >= 0
    /\ Layer(r, KeyOf(r), QtyOf(r))
    /\ TakeLayers(r, KeyOf(r))
    /\ Goto(r, "movement")
    /\ UNCHANGED <<tables, cacheLock, job, todo, seen, moved>>

-----------------------------------------------------------------------------
(* receive_goods, return_sale, receive_transfer, cancel_transfer, and the  *)
(* items of complete_audit that found stock or miss stock                  *)

\* Mutant: returned stock gets no layer of its own.
AddNoLayer(r) ==
    /\ At(r, "item", {"receive_goods", "complete_audit"})
    /\ QtyOf(r) > 0
    /\ Goto(r, "movement")
    /\ UNCHANGED <<tables, locks, job, todo, seen, moved, layered>>

AddLayer(r) ==
    /\ At(r, "item", {"receive_goods", "complete_audit"})
    /\ QtyOf(r) > 0
    /\ Layer(r, KeyOf(r), QtyOf(r))
    /\ Goto(r, "movement")
    /\ UNCHANGED <<tables, locks, job, todo, seen, moved>>

\* Mutant: the error that is swallowed skips the movement with the layers.
WriteOffUnrecorded(r) ==
    /\ At(r, "item", {"complete_audit"})
    /\ QtyOf(r) < 0
    /\ LayerFree(r, KeyOf(r))
    /\ TakeLayers(r, KeyOf(r))
    /\ LET left == LayerQty(r, KeyOf(r))
       IN  IF left + QtyOf(r) >= 0
           THEN Layer(r, KeyOf(r), QtyOf(r)) /\ Goto(r, "movement") /\ UNCHANGED todo
           ELSE Layer(r, KeyOf(r), -left) /\ NextItem(r)
    /\ UNCHANGED <<tables, cacheLock, job, seen, moved>>

\* Shrinkage takes the layers first and the cache row later; when the layers
\* are short the error is swallowed and whatever they held stays consumed.
WriteOffLayers(r) ==
    /\ At(r, "item", {"complete_audit"})
    /\ QtyOf(r) < 0
    /\ LayerFree(r, KeyOf(r))
    /\ LET left == LayerQty(r, KeyOf(r))
       IN  Layer(r, KeyOf(r), IF left + QtyOf(r) >= 0 THEN QtyOf(r) ELSE -left)
    /\ TakeLayers(r, KeyOf(r))
    /\ Goto(r, "movement")
    /\ UNCHANGED <<tables, cacheLock, job, todo, seen, moved>>

-----------------------------------------------------------------------------
(* record_inventory_movement                                               *)

WriteLedger(r) ==
    /\ At(r, "movement", LockedKinds)
    /\ Move(r, KeyOf(r), QtyOf(r))
    /\ Goto(r, "cache")
    /\ UNCHANGED <<tables, locks, job, todo, seen, layered>>

\* Mutant: no check that the row stays at zero or above.
UpdateUnchecked(r) ==
    /\ At(r, "cache", LockedKinds)
    /\ ~NoRow(r, KeyOf(r))
    /\ CacheFree(r, KeyOf(r))
    /\ TakeCache(r, KeyOf(r), RowQty(r, KeyOf(r)) + QtyOf(r))
    /\ NextItem(r)
    /\ UNCHANGED <<tables, layerLock, job, moved, layered>>

UpdateCacheRow(r) ==
    /\ At(r, "cache", LockedKinds)
    /\ ~NoRow(r, KeyOf(r))
    /\ CacheFree(r, KeyOf(r))
    /\ RowQty(r, KeyOf(r)) + QtyOf(r) >= 0
    /\ TakeCache(r, KeyOf(r), RowQty(r, KeyOf(r)) + QtyOf(r))
    /\ NextItem(r)
    /\ UNCHANGED <<tables, layerLock, job, moved, layered>>

\* The SELECT ... FOR UPDATE found nothing, so there is nothing to lock.
MissCacheRow(r) ==
    /\ At(r, "cache", LockedKinds)
    /\ NoRow(r, KeyOf(r))
    /\ QtyOf(r) > 0
    /\ Goto(r, "insert")
    /\ UNCHANGED <<tables, locks, job, todo, seen, moved, layered>>

\* Mutant: no unique index on the stock key; the later row wins.
InsertDuplicate(r) ==
    /\ At(r, "insert", JobKinds)
    /\ TakeCache(r, KeyOf(r), QtyOf(r))
    /\ NextItem(r)
    /\ UNCHANGED <<tables, layerLock, job, moved, layered>>

\* The INSERT waits while another transaction has inserted the same key; it
\* breaks the unique index if that transaction commits.
InsertCacheRow(r) ==
    /\ At(r, "insert", JobKinds)
    /\ CacheFree(r, KeyOf(r))
    /\ KeyOf(r) \notin rows
    /\ TakeCache(r, KeyOf(r), QtyOf(r))
    /\ NextItem(r)
    /\ UNCHANGED <<tables, layerLock, job, moved, layered>>

-----------------------------------------------------------------------------
(* adjust_stock: the cache row is read with no lock                        *)

ReadStock(r) ==
    /\ At(r, "item", {"adjust_stock"})
    /\ QtyOf(r) < 0 => cache[KeyOf(r)] + QtyOf(r) >= 0
    /\ seen' = [seen EXCEPT ![r][KeyOf(r)] = cache[KeyOf(r)]]
    /\ Move(r, KeyOf(r), QtyOf(r))
    /\ Layer(r, KeyOf(r), IF QtyOf(r) > 0 THEN QtyOf(r) ELSE 0)
    /\ Goto(r, IF KeyOf(r) \in rows THEN "overwrite" ELSE "insert")
    /\ UNCHANGED <<tables, locks, job, todo>>

\* The flush writes the quantity computed from the row as it was read.
OverwriteCacheRow(r) ==
    /\ At(r, "overwrite", {"adjust_stock"})
    /\ CacheFree(r, KeyOf(r))
    /\ TakeCache(r, KeyOf(r), seen[r][KeyOf(r)] + QtyOf(r))
    /\ NextItem(r)
    /\ UNCHANGED <<tables, layerLock, job, moved, layered>>

-----------------------------------------------------------------------------
(* reconcile_stock                                                         *)

\* One SUM over the committed ledger for a row read earlier; a mismatch is
\* corrected after every row has been compared.
SumLedger(r) ==
    /\ At(r, "item", {"sum"})
    /\ todo' = [todo EXCEPT ![r] =
         IF seen[r][KeyOf(r)] = ledger[KeyOf(r)] THEN Tail(@)
         ELSE Append(Tail(@), [kind |-> "fix", key |-> KeyOf(r),
                               qty  |-> ledger[KeyOf(r)]])]
    /\ UNCHANGED <<tables, locks, pc, job, seen, moved, layered>>

CorrectCacheRow(r) ==
    /\ At(r, "item", {"fix"})
    /\ CacheFree(r, KeyOf(r))
    /\ TakeCache(r, KeyOf(r), QtyOf(r))
    /\ NextItem(r)
    /\ UNCHANGED <<tables, layerLock, job, moved, layered>>

-----------------------------------------------------------------------------
(* The errors: each one rolls the whole request back.                      *)

InsufficientStock(r) ==
    /\ At(r, "item", {"confirm_sale"})
    /\ \/ NoRow(r, KeyOf(r))
       \/ CacheFree(r, KeyOf(r)) /\ RowQty(r, KeyOf(r)) + QtyOf(r) < 0

InsufficientCostLayer(r) ==
    /\ At(r, "layers", {"confirm_sale"})
    /\ LayerFree(r, KeyOf(r))
    /\ LayerQty(r, KeyOf(r)) + QtyOf(r) < 0

NegativeStock(r) ==
    /\ At(r, "cache", LockedKinds)
    /\ \/ NoRow(r, KeyOf(r)) /\ QtyOf(r) < 0
       \/ /\ ~NoRow(r, KeyOf(r))
          /\ CacheFree(r, KeyOf(r))
          /\ RowQty(r, KeyOf(r)) + QtyOf(r) < 0

DuplicateCacheRow(r) ==
    /\ At(r, "insert", JobKinds)
    /\ KeyOf(r) \in rows

AdjustmentRejected(r) ==
    /\ At(r, "item", {"adjust_stock"})
    /\ QtyOf(r) < 0 /\ cache[KeyOf(r)] + QtyOf(r) < 0

\* The rows a request waits for, and a cycle of requests that wait for each
\* other: PostgreSQL aborts one of them.
WantsCache(r) ==
    \/ At(r, "item", {"confirm_sale"}) /\ ~NoRow(r, KeyOf(r))
    \/ At(r, "cache", LockedKinds) /\ ~NoRow(r, KeyOf(r))
    \/ At(r, "item", {"fix"})
    \/ At(r, "insert", JobKinds)
    \/ At(r, "overwrite", {"adjust_stock"})

WantsLayers(r) ==
    \/ At(r, "layers", {"confirm_sale"})
    \/ At(r, "item", {"complete_audit"}) /\ QtyOf(r) < 0

WaitsFor(r) ==
    {s \in Req \ {r} :
        \/ WantsCache(r) /\ cacheLock[KeyOf(r)] = s
        \/ WantsLayers(r) /\ layerLock[KeyOf(r)] = s /\ ~LayerFree(r, KeyOf(r))}

\* Mutant: nobody breaks a cycle of waiting requests.
NeverAborted(r) == FALSE

Deadlocked(r) ==
    \E S \in SUBSET Req : r \in S /\ S = UNION {WaitsFor(s) : s \in S}

Fails(r) ==
    \/ InsufficientStock(r)
    \/ InsufficientCostLayer(r)
    \/ NegativeStock(r)
    \/ DuplicateCacheRow(r)
    \/ AdjustmentRejected(r)
    \/ Deadlocked(r)

\* An exception, or PostgreSQL, ends the request.
Raise(r) == Fails(r) /\ Rollback(r)

-----------------------------------------------------------------------------
\* What a running request does on its own.
Step(r) ==
    \/ LockStock(r)
    \/ ConsumeLayers(r)
    \/ AddLayer(r)
    \/ WriteOffLayers(r)
    \/ WriteLedger(r)
    \/ UpdateCacheRow(r)
    \/ MissCacheRow(r)
    \/ InsertCacheRow(r)
    \/ ReadStock(r)
    \/ OverwriteCacheRow(r)
    \/ SumLedger(r)
    \/ CorrectCacheRow(r)
    \/ Raise(r)
    \/ Commit(r)

\* Rollback without a cause named here: a later error of the same request, a
\* lost connection, a crash of the worker.
Next ==
    \E r \in Req : Begin(r) \/ GetAllCacheEntries(r) \/ Step(r) \/ Rollback(r)

Spec == Init /\ [][Next]_vars

\* PostgreSQL queues the waiters of a row, so a request that is granted its
\* row again and again is not passed over for ever.
Fairness == \A r \in Req : SF_vars(Step(r))

FairSpec == Spec /\ Fairness

-----------------------------------------------------------------------------
(* Properties                                                              *)

\* After every commit the cache row of a key holds the sum of its ledger
\* entries: record_inventory_movement reads the row again under its lock, so
\* no concurrent movement is lost (utils/ledger.py).
CacheMatchesLedger == \A k \in Key : cache[k] = ledger[k]

\* No interleaving of sales, receipts and audits sells or writes off a unit
\* that is not there: the movements of a key never sum to less than nothing.
NoOversell == \A k \in Key : ledger[k] >= 0

\* The units that FIFO layers still hold are the units in stock, so whatever
\* can be sold can be costed (sales and receipts only).
LayersMatchCache == \A k \in Key : layers[k] = cache[k]

\* The layers hold every unit in stock, also where an audit writes off more than
\* they held: what it found it consumes, the shortage is swallowed, and the
\* movement must then find as much stock in the row as it writes off, or take
\* the layers back with it.  They may hold units that are gone, never lack one.
LayersCoverStock == \A k \in Key : layers[k] >= cache[k]

\* Whoever consumes layers, with or without the cache row, never takes a unit
\* that another transaction took from the same layers.
LayersNeverNegative == \A k \in Key : layers[k] >= 0

\* A sale whose stock was checked under the row lock finds the layers it
\* needs: consume_fifo_layers does not fail behind a successful check.
CheckedSaleIsCosted == \A r \in Req : ~InsufficientCostLayer(r)

\* "Callers pre-validate under a row lock, so a negative result indicates a
\* logic error": no caller ever reaches the NegativeStockError backstop.
CallersPreValidate == \A r \in Req : ~NegativeStock(r)

\* The request works on key k before it works on key l.
Before(r, k, l) ==
    k # l /\ \E m, n \in DOMAIN job[r] :
                m < n /\ job[r][m].key = k /\ job[r][n].key = l

\* Sales and receipts deadlock only if the orders in which they list their
\* parts contradict each other: with one common order of the parts, no
\* transaction is ever aborted.  (Audits also cross cache rows and layers.)
DeadlockNeedsDisorder ==
    \A r \in Req : Deadlocked(r) =>
        \E S \in (SUBSET Key) \ {{}} :
            \A k \in S : \E l \in S, q \in Req : Before(q, k, l)

\* Each request is applied to the ledger completely, at its commit, or not at
\* all: the concurrent transactions implement AtomicRequests.
Atomic == INSTANCE AtomicRequests WITH stock <- ledger
RequestsAreAtomic == Atomic!Spec

\* A request that runs is eventually answered, by a commit or an error,
\* whatever rows it shares with the others.
EveryRequestEnds == \A r \in Req : pc[r] # "idle" ~> pc[r] = "idle"

-----------------------------------------------------------------------------
(* Why they hold: what a session knows about the rows it works on.         *)

\* No request takes a path other than these.
Uses(kinds) == /\ ~Reconciles
               /\ Jobs \subseteq Seq({i \in JobItem : i.kind \in kinds})

\* A movement that is in the ledger of the session but not yet in its row.
Pending(r, k) ==
    IF pc[r] \in {"cache", "insert"} /\ KeyOf(r) = k THEN QtyOf(r) ELSE 0

\* Units in the session's layers whose movement is not yet in its ledger.
Unrecorded(r, k) ==
    IF pc[r] = "movement" /\ KeyOf(r) = k THEN QtyOf(r) ELSE 0

\* The row a session holds is the committed row plus its own movements; on a
\* row it does not hold it has no movement but the one it is about to apply.
RowView(r, k) ==
    IF cacheLock[k] = r
    THEN seen[r][k] >= 0 /\ seen[r][k] + Pending(r, k) = cache[k] + moved[r][k]
    ELSE moved[r][k] = Pending(r, k)

\* Only an inflow creates a cache row, and only one the session has not got.
InsertsInflow(r) ==
    pc[r] = "insert" => QtyOf(r) > 0 /\ cacheLock[KeyOf(r)] # r

CacheRows == \A k \in Key : cache[k] >= 0 /\ (k \notin rows => cache[k] = 0)

\* The inductive form of CacheMatchesLedger, for Uses(LockedKinds).
LockInvariant ==
    /\ TypeOK
    /\ todo \in [Req -> Seq({i \in JobItem : i.kind \in LockedKinds})]
    /\ CacheRows
    /\ CacheMatchesLedger
    /\ \A r \in Req : InsertsInflow(r)
    /\ \A r \in Req, k \in Key : RowView(r, k)

\* From its check to its movement a sale holds the row it checked.
SaleHoldsRow(r) ==
    /\ pc[r] \in {"layers", "movement", "cache", "insert"}
    /\ Head(todo[r]).kind = "confirm_sale"
    => /\ cacheLock[KeyOf(r)] = r
       /\ pc[r] # "insert"
       /\ seen[r][KeyOf(r)] + QtyOf(r) >= 0

\* A session took no more units from the layers than its movements, and the one
\* it is about to record, take from the stock.
CoverView(r, k) == layered[r][k] >= moved[r][k] + Unrecorded(r, k)

\* The inductive form of LayersCoverStock and CheckedSaleIsCosted, for
\* Uses(LockedKinds).
CoverInvariant ==
    /\ LockInvariant
    /\ LayersCoverStock
    /\ \A r \in Req, k \in Key : CoverView(r, k)
    /\ \A r \in Req : SaleHoldsRow(r)

TradeKinds == {"confirm_sale", "receive_goods"}

\* The layers a session changed are the movements it made, and the one it is
\* about to record.
LayerView(r, k) == layered[r][k] = moved[r][k] + Unrecorded(r, k)

\* The inductive form of LayersMatchCache and CallersPreValidate, for
\* Uses(TradeKinds).
TradeInvariant ==
    /\ LockInvariant
    /\ todo \in [Req -> Seq({i \in JobItem : i.kind \in TradeKinds})]
    /\ LayersMatchCache
    /\ \A r \in Req, k \in Key : LayerView(r, k)
    /\ \A r \in Req : SaleHoldsRow(r)

=============================================================================
