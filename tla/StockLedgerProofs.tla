--------------------------- MODULE StockLedgerProofs ---------------------------
(***************************************************************************)
(* Theorems about StockLedger, for every set of requests, keys and jobs.   *)
(***************************************************************************)
EXTENDS StockLedger, SumTheorems, FiniteSetTheorems, SequenceTheorems, TLAPS

\* The item a request works on is an item, and the rest of its list a list of
\* items: what every step of a running request relies on.
LEMMA WorkedItem ==
    ASSUME TypeOK, NEW r \in Req, todo[r] # <<>>
    PROVE  /\ Head(todo[r]) \in Item
           /\ Head(todo[r]).kind \in Kinds
           /\ KeyOf(r) \in Key
           /\ QtyOf(r) \in Int
           /\ Tail(todo[r]) \in Seq(Item)
<1>1. todo[r] \in Seq(Item)
  BY DEF TypeOK
<1>2. Head(todo[r]) \in Item /\ Tail(todo[r]) \in Seq(Item)
  BY <1>1, HeadTailProperties
<1>. QED
  BY <1>2 DEF Item, KeyOf, QtyOf

\* Ending a transaction keeps the types of everything it resets.
LEMMA EndKeepsTypes ==
    ASSUME TypeOK, NEW r \in Req, EndTransaction(r)
    PROVE  /\ cacheLock' \in [Key -> Req \cup {NoReq}]
           /\ layerLock' \in [Key -> Req \cup {NoReq}]
           /\ pc'   \in [Req -> Steps]
           /\ job'  \in [Req -> Seq(Item)]
           /\ todo' \in [Req -> Seq(Item)]
           /\ seen'    \in [Req -> [Key -> Int]]
           /\ moved'   \in [Req -> [Key -> Int]]
           /\ layered' \in [Req -> [Key -> Int]]
           /\ \A s \in Req : pc'[s] \notin {"idle", "item"} => todo'[s] # <<>>
<1>1. Zero \in [Key -> Int]
  BY DEF Zero
<1>2. <<>> \in Seq(Item)
  BY EmptySeq
<1>. QED
  BY <1>1, <1>2 DEF TypeOK, EndTransaction, Goto, Steps

\* What a write to the cache row, and the end of an item, leave well typed.
LEMMA RowWritten ==
    ASSUME TypeOK, NEW r \in Req, NEW k \in Key, NEW q \in Int, TakeCache(r, k, q)
    PROVE  /\ cacheLock' \in [Key -> Req \cup {NoReq}]
           /\ seen' \in [Req -> [Key -> Int]]
BY DEF TypeOK, TakeCache

\* The same for the end of an item.
LEMMA ItemDone ==
    ASSUME TypeOK, NEW r \in Req, todo[r] # <<>>, NextItem(r)
    PROVE  /\ pc' \in [Req -> Steps]
           /\ todo' \in [Req -> Seq(Item)]
           /\ \A s \in Req : pc'[s] \notin {"idle", "item"} => todo'[s] # <<>>
<1>1. Tail(todo[r]) \in Seq(Item)
  BY WorkedItem
<1>. QED
  BY <1>1 DEF TypeOK, NextItem, Goto, Steps

\* Every variable keeps its type, whatever jobs are submitted.
LEMMA TypeInductive == TypeOK /\ [Next]_vars => TypeOK'
<1> SUFFICES ASSUME TypeOK, [Next]_vars PROVE TypeOK'
  OBVIOUS
<1>1. CASE UNCHANGED vars
  BY <1>1 DEF TypeOK, vars
<1>2. ASSUME NEW r \in Req, Begin(r) PROVE TypeOK'
  <2>1. PICK j \in Jobs : /\ job'  = [job  EXCEPT ![r] = j]
                          /\ todo' = [todo EXCEPT ![r] = j]
    BY <1>2 DEF Begin
  <2>2. j \in Seq(Item)
    <3>1. JobItem \subseteq Item /\ j \in Seq(JobItem)
      BY JobAssumption DEF JobItem
    <3>. QED
      BY <3>1, SeqMonotonic
  <2>. QED
    BY <1>2, <2>1, <2>2 DEF Begin, TypeOK, Goto, tables, locks, Steps
<1>3. ASSUME NEW r \in Req, GetAllCacheEntries(r) PROVE TypeOK'
  <2>1. Cardinality(rows) \in Nat
    BY KeyAssumption, FS_Subset, FS_CardinalityType DEF TypeOK
  <2>2. PICK order \in [1 .. Cardinality(rows) -> rows] :
          LET scan == [i \in DOMAIN order |->
                        [kind |-> "sum", key |-> order[i], qty |-> 0]]
          IN  /\ job'  = [job  EXCEPT ![r] = scan]
              /\ todo' = [todo EXCEPT ![r] = scan]
    BY <1>3 DEF GetAllCacheEntries
  <2> DEFINE scan == [i \in 1 .. Cardinality(rows) |->
                        [kind |-> "sum", key |-> order[i], qty |-> 0]]
  <2>3. \A i \in 1 .. Cardinality(rows) : scan[i] \in Item
    <3>1. \A i \in 1 .. Cardinality(rows) : order[i] \in Key
      BY DEF TypeOK
    <3>2. "sum" \in Kinds
      BY DEF Kinds
    <3>. QED
      BY <3>1, <3>2 DEF Item
  <2>4. scan \in Seq(Item)
    BY <2>1, <2>3
  <2>5. /\ job'  = [job  EXCEPT ![r] = scan]
        /\ todo' = [todo EXCEPT ![r] = scan]
    BY <2>2
  <2>. QED
    BY <1>3, <2>4, <2>5 DEF GetAllCacheEntries, TypeOK, Goto, tables, locks, Steps
<1>4. ASSUME NEW r \in Req, Commit(r) PROVE TypeOK'
  <2>1. /\ rows'   = rows \cup {k \in Key : cacheLock[k] = r}
        /\ cache'  = [k \in Key |-> RowQty(r, k)]
        /\ ledger' = [k \in Key |-> ledger[k] + moved[r][k]]
        /\ layers' = [k \in Key |-> LayerQty(r, k)]
    BY <1>4 DEF Commit
  <2>2. rows' \subseteq Key /\ cache' \in [Key -> Int]
    BY <2>1 DEF TypeOK, RowQty
  <2>3. ledger' \in [Key -> Int] /\ layers' \in [Key -> Int]
    BY <2>1 DEF TypeOK, LayerQty
  <2>. QED
    BY <1>4, <2>2, <2>3, EndKeepsTypes DEF Commit, TypeOK
<1>5. ASSUME NEW r \in Req, Rollback(r) PROVE TypeOK'
  BY <1>5, EndKeepsTypes DEF Rollback, TypeOK, tables
<1>6. ASSUME NEW r \in Req, Raise(r) PROVE TypeOK'
  BY <1>5, <1>6 DEF Raise
<1>7. ASSUME NEW r \in Req, LockStock(r) PROVE TypeOK'
  <2>1. todo[r] # <<>> /\ KeyOf(r) \in Key
    BY <1>7, WorkedItem DEF LockStock, At
  <2>2. PICK q \in Int : TakeCache(r, KeyOf(r), q)
    BY <1>7, <2>1 DEF LockStock, RowQty, TypeOK
  <2>3. /\ Goto(r, "layers")
        /\ UNCHANGED <<tables, layerLock, job, todo, moved, layered>>
    BY <1>7 DEF LockStock
  <2>. QED
    BY <2>1, <2>2, <2>3, RowWritten DEF Goto, tables, TypeOK, Steps
<1>8. ASSUME NEW r \in Req, ConsumeLayers(r) PROVE TypeOK'
  <2>1. todo[r] # <<>> /\ KeyOf(r) \in Key /\ QtyOf(r) \in Int
    BY <1>8, WorkedItem DEF ConsumeLayers, At
  <2>2. layered' \in [Req -> [Key -> Int]]
    BY <1>8, <2>1 DEF ConsumeLayers, Layer, TypeOK
  <2>3. layerLock' \in [Key -> Req \cup {NoReq}]
    BY <1>8, <2>1 DEF ConsumeLayers, TakeLayers, TypeOK
  <2>4. Goto(r, "movement") /\ UNCHANGED <<tables, cacheLock, job, todo, seen, moved>>
    BY <1>8 DEF ConsumeLayers
  <2>. QED
    BY <2>1, <2>2, <2>3, <2>4 DEF Goto, tables, TypeOK, Steps
<1>9. ASSUME NEW r \in Req, AddLayer(r) PROVE TypeOK'
  <2>1. todo[r] # <<>> /\ KeyOf(r) \in Key /\ QtyOf(r) \in Int
    BY <1>9, WorkedItem DEF AddLayer, At
  <2>2. layered' \in [Req -> [Key -> Int]]
    BY <1>9, <2>1 DEF AddLayer, Layer, TypeOK
  <2>3. Goto(r, "movement") /\ UNCHANGED <<tables, locks, job, todo, seen, moved>>
    BY <1>9 DEF AddLayer
  <2>. QED
    BY <2>1, <2>2, <2>3 DEF Goto, tables, locks, TypeOK, Steps
<1>10. ASSUME NEW r \in Req, WriteOffLayers(r) PROVE TypeOK'
  <2>1. PICK q \in Int : Layer(r, KeyOf(r), q)
    BY <1>10, WorkedItem DEF WriteOffLayers, At, LayerQty, TypeOK
  <2>2. layered' \in [Req -> [Key -> Int]]
    BY <1>10, <2>1, WorkedItem DEF WriteOffLayers, At, Layer, TypeOK
  <2>3. todo[r] # <<>> /\ KeyOf(r) \in Key
    BY <1>10, WorkedItem DEF WriteOffLayers, At
  <2>4. layerLock' \in [Key -> Req \cup {NoReq}]
    BY <1>10, <2>3 DEF WriteOffLayers, TakeLayers, TypeOK
  <2>5. Goto(r, "movement") /\ UNCHANGED <<tables, cacheLock, job, todo, seen, moved>>
    BY <1>10 DEF WriteOffLayers
  <2>. QED
    BY <2>2, <2>3, <2>4, <2>5 DEF Goto, tables, TypeOK, Steps
<1>11. ASSUME NEW r \in Req, WriteLedger(r) PROVE TypeOK'
  <2>1. todo[r] # <<>> /\ KeyOf(r) \in Key /\ QtyOf(r) \in Int
    BY <1>11, WorkedItem DEF WriteLedger, At
  <2>2. moved' \in [Req -> [Key -> Int]]
    BY <1>11, <2>1 DEF WriteLedger, Move, TypeOK
  <2>3. Goto(r, "cache") /\ UNCHANGED <<tables, locks, job, todo, seen, layered>>
    BY <1>11 DEF WriteLedger
  <2>. QED
    BY <2>1, <2>2, <2>3 DEF Goto, tables, locks, TypeOK, Steps
<1>12. ASSUME NEW r \in Req, UpdateCacheRow(r) PROVE TypeOK'
  <2>1. todo[r] # <<>> /\ KeyOf(r) \in Key /\ QtyOf(r) \in Int
    BY <1>12, WorkedItem DEF UpdateCacheRow, At
  <2>2. PICK q \in Int : TakeCache(r, KeyOf(r), q)
    BY <1>12, <2>1 DEF UpdateCacheRow, RowQty, TypeOK
  <2>3. NextItem(r) /\ UNCHANGED <<tables, layerLock, job, moved, layered>>
    BY <1>12 DEF UpdateCacheRow
  <2>. QED
    BY <2>1, <2>2, <2>3, RowWritten, ItemDone DEF tables, TypeOK
<1>13. ASSUME NEW r \in Req, MissCacheRow(r) PROVE TypeOK'
  BY <1>13 DEF MissCacheRow, At, Goto, tables, locks, TypeOK, Steps
<1>14. ASSUME NEW r \in Req, InsertCacheRow(r) PROVE TypeOK'
  <2>1. todo[r] # <<>> /\ KeyOf(r) \in Key /\ QtyOf(r) \in Int
    BY <1>14, WorkedItem DEF InsertCacheRow, At
  <2>2. PICK q \in Int : TakeCache(r, KeyOf(r), q)
    BY <1>14, <2>1 DEF InsertCacheRow
  <2>3. NextItem(r) /\ UNCHANGED <<tables, layerLock, job, moved, layered>>
    BY <1>14 DEF InsertCacheRow
  <2>. QED
    BY <2>1, <2>2, <2>3, RowWritten, ItemDone DEF tables, TypeOK
<1>15. ASSUME NEW r \in Req, ReadStock(r) PROVE TypeOK'
  <2>1. PICK q \in Int : Layer(r, KeyOf(r), q)
    <3> DEFINE units == IF QtyOf(r) > 0 THEN QtyOf(r) ELSE 0
    <3>1. units \in Int
      BY <1>15, WorkedItem DEF ReadStock, At
    <3>2. Layer(r, KeyOf(r), units)
      BY <1>15 DEF ReadStock
    <3>. QED
      BY <3>1, <3>2
  <2>2. layered' \in [Req -> [Key -> Int]]
    BY <1>15, <2>1, WorkedItem DEF ReadStock, At, Layer, TypeOK
  <2>3. PICK step \in {"overwrite", "insert"} : Goto(r, step)
    BY <1>15 DEF ReadStock
  <2>4. /\ todo[r] # <<>>
        /\ Move(r, KeyOf(r), QtyOf(r))
        /\ seen' = [seen EXCEPT ![r][KeyOf(r)] = cache[KeyOf(r)]]
        /\ UNCHANGED <<tables, locks, job, todo>>
    BY <1>15 DEF ReadStock, At
  <2>5. KeyOf(r) \in Key /\ QtyOf(r) \in Int
    BY <2>4, WorkedItem
  <2>6. moved' \in [Req -> [Key -> Int]] /\ seen' \in [Req -> [Key -> Int]]
    BY <2>4, <2>5 DEF Move, TypeOK
  <2>. QED
    BY <2>2, <2>3, <2>4, <2>6 DEF Goto, tables, locks, TypeOK, Steps
<1>16. ASSUME NEW r \in Req, OverwriteCacheRow(r) PROVE TypeOK'
  <2>1. todo[r] # <<>> /\ KeyOf(r) \in Key /\ QtyOf(r) \in Int
    BY <1>16, WorkedItem DEF OverwriteCacheRow, At
  <2>2. PICK q \in Int : TakeCache(r, KeyOf(r), q)
    BY <1>16, <2>1 DEF OverwriteCacheRow, TypeOK
  <2>3. NextItem(r) /\ UNCHANGED <<tables, layerLock, job, moved, layered>>
    BY <1>16 DEF OverwriteCacheRow
  <2>. QED
    BY <2>1, <2>2, <2>3, RowWritten, ItemDone DEF tables, TypeOK
<1>17. ASSUME NEW r \in Req, SumLedger(r) PROVE TypeOK'
  <2>1. [kind |-> "fix", key |-> KeyOf(r), qty |-> ledger[KeyOf(r)]] \in Item
    BY <1>17, WorkedItem DEF SumLedger, At, Item, Kinds, TypeOK
  <2>2. todo' \in [Req -> Seq(Item)]
    BY <1>17, <2>1, WorkedItem DEF SumLedger, At, TypeOK
  <2>3. \A s \in Req : pc'[s] \notin {"idle", "item"} => todo'[s] # <<>>
    BY <1>17 DEF SumLedger, At, TypeOK
  <2>. QED
    BY <1>17, <2>2, <2>3 DEF SumLedger, tables, locks, TypeOK
<1>18. ASSUME NEW r \in Req, CorrectCacheRow(r) PROVE TypeOK'
  <2>1. todo[r] # <<>> /\ KeyOf(r) \in Key /\ QtyOf(r) \in Int
    BY <1>18, WorkedItem DEF CorrectCacheRow, At
  <2>2. PICK q \in Int : TakeCache(r, KeyOf(r), q)
    BY <1>18, <2>1 DEF CorrectCacheRow
  <2>3. NextItem(r) /\ UNCHANGED <<tables, layerLock, job, moved, layered>>
    BY <1>18 DEF CorrectCacheRow
  <2>. QED
    BY <2>1, <2>2, <2>3, RowWritten, ItemDone DEF tables, TypeOK
<1>. QED
  BY <1>1, <1>2, <1>3, <1>4, <1>5, <1>6, <1>7, <1>8, <1>9, <1>10, <1>11, <1>12,
     <1>13, <1>14, <1>15, <1>16, <1>17, <1>18 DEF Next, Step

\* The initial tables are empty and no request is running.
LEMMA InitTypeOK == Init => TypeOK
BY EmptySeq DEF Init, TypeOK, Zero, Steps

\* The model is well typed for every set of requests, keys and jobs.
THEOREM TypeCorrect == Spec => []TypeOK
BY InitTypeOK, TypeInductive, PTL DEF Spec

-----------------------------------------------------------------------------
(* The cache equals the ledger while every request locks its rows.         *)

LockedItem == {i \in JobItem : i.kind \in LockedKinds}

\* What is known of the item a disciplined request works on.
LEMMA WorkedLockedItem ==
    ASSUME LockInvariant, NEW r \in Req, todo[r] # <<>>
    PROVE  /\ Head(todo[r]).kind \in LockedKinds
           /\ KeyOf(r) \in Key
           /\ QtyOf(r) \in Int
           /\ Tail(todo[r]) \in Seq(LockedItem)
<1>1. todo[r] \in Seq(LockedItem) /\ TypeOK
  BY DEF LockInvariant, LockedItem
<1>2. Head(todo[r]) \in LockedItem /\ Tail(todo[r]) \in Seq(LockedItem)
  BY <1>1, HeadTailProperties
<1>. QED
  BY <1>1, <1>2, WorkedItem DEF LockedItem

\* A step of another request leaves the view of this one alone, as long as it
\* takes only rows that are free and changes committed rows only where it held
\* the lock.
LEMMA ViewIsStable ==
    ASSUME LockInvariant, NEW s \in Req, NEW k \in Key, NEW r \in Req \ {s},
           pc'[s] = pc[s], todo'[s] = todo[s], moved'[s] = moved[s],
           seen'[s] = seen[s],
           cacheLock'[k] = s <=> cacheLock[k] = s,
           cacheLock[k] = s => cache'[k] = cache[k]
    PROVE  RowView(s, k)'
<1>1. RowView(s, k)
  BY DEF LockInvariant
<1>2. Pending(s, k)' = Pending(s, k)
  BY DEF Pending, KeyOf, QtyOf
<1>3. CASE cacheLock[k] = s
  BY <1>1, <1>2, <1>3 DEF RowView
<1>4. CASE cacheLock[k] # s
  BY <1>1, <1>2, <1>4 DEF RowView
<1>. QED
  BY <1>3, <1>4

\* What the step of one request leaves to the others: their sessions, and the
\* rows they hold.
LeavesOthers(r) ==
    /\ \A s \in Req \ {r} : /\ pc'[s] = pc[s]
                            /\ todo'[s] = todo[s]
                            /\ moved'[s] = moved[s]
                            /\ seen'[s] = seen[s]
    /\ \A k \in Key : \/ cacheLock'[k] = cacheLock[k]
                      \/ {cacheLock[k], cacheLock'[k]} \subseteq {NoReq, r}

\* Nor do the others lose what makes their next insert an inflow.
LEMMA OthersInsertInflow ==
    ASSUME LockInvariant, NEW r \in Req, LeavesOthers(r), NEW s \in Req \ {r}
    PROVE  InsertsInflow(s)'
<1> SUFFICES ASSUME pc[s] = "insert"
             PROVE  QtyOf(s)' > 0 /\ cacheLock'[KeyOf(s)'] # s
  BY DEF InsertsInflow, LeavesOthers
<1>1. QtyOf(s) > 0 /\ cacheLock[KeyOf(s)] # s /\ KeyOf(s) \in Key
  BY WorkedLockedItem DEF LockInvariant, InsertsInflow, TypeOK
<1>2. KeyOf(s)' = KeyOf(s) /\ QtyOf(s)' = QtyOf(s)
  BY DEF LeavesOthers, KeyOf, QtyOf
<1>. QED
  BY <1>1, <1>2, RequestAssumption DEF LeavesOthers

\* A step that leaves the committed tables alone and keeps the view of the
\* request that takes it keeps the invariant.
LEMMA QuietStep ==
    ASSUME LockInvariant, TypeOK', NEW r \in Req,
           UNCHANGED <<rows, cache, ledger>>,
           LeavesOthers(r),
           todo'[r] \in Seq(LockedItem),
           InsertsInflow(r)',
           \A k \in Key : RowView(r, k)'
    PROVE  LockInvariant'
<1>1. \A s \in Req, k \in Key : RowView(s, k)'
  <2> SUFFICES ASSUME NEW s \in Req \ {r}, NEW k \in Key PROVE RowView(s, k)'
    OBVIOUS
  <2>. QED
    BY ViewIsStable, RequestAssumption DEF LeavesOthers
<1>2. todo' \in [Req -> Seq(LockedItem)]
  BY DEF LockInvariant, TypeOK, LockedItem, LeavesOthers
<1>3. \A s \in Req : InsertsInflow(s)'
  BY OthersInsertInflow
<1>. QED
  BY <1>1, <1>2, <1>3 DEF LockInvariant, CacheRows, CacheMatchesLedger, LockedItem

\* A transaction that ends gives back its rows and forgets its movements.
LEMMA EndedView ==
    ASSUME TypeOK, NEW r \in Req, EndTransaction(r), NEW k \in Key
    PROVE  RowView(r, k)'
BY RequestAssumption DEF TypeOK, EndTransaction, Goto, RowView, Pending, Zero, Steps

\* The end of a transaction leaves the others alone.
LEMMA EndLeavesOthers ==
    ASSUME TypeOK, NEW r \in Req, EndTransaction(r)
    PROVE  LeavesOthers(r) /\ todo'[r] \in Seq(LockedItem) /\ pc'[r] = "idle"
BY EmptySeq, RequestAssumption DEF TypeOK, EndTransaction, Goto, LeavesOthers, Steps

\* A rollback keeps the invariant: the committed tables are untouched.
LEMMA RollbackKeepsLockInvariant ==
    ASSUME LockInvariant, TypeOK', NEW r \in Req, Rollback(r)
    PROVE  LockInvariant'
<1>1. TypeOK /\ EndTransaction(r) /\ UNCHANGED <<rows, cache, ledger>>
  BY DEF LockInvariant, Rollback, tables
<1>2. \A k \in Key : RowView(r, k)'
  BY <1>1, EndedView
<1>3. InsertsInflow(r)'
  BY <1>1, EndLeavesOthers DEF InsertsInflow
<1>. QED
  BY <1>1, <1>2, <1>3, EndLeavesOthers, QuietStep

\* What a commit writes over the rows is what it adds to the ledger.
LEMMA CommitWritesMovements ==
    ASSUME LockInvariant, NEW r \in Req, Commit(r), NEW k \in Key
    PROVE  cache'[k] = cache[k] + moved[r][k] /\ cache'[k] >= 0
<1>1. Pending(r, k) = 0 /\ RowView(r, k) /\ moved[r][k] \in Int
      /\ cache[k] \in Int /\ seen[r][k] \in Int
  BY DEF Pending, LockInvariant, TypeOK, Commit
<1>. QED
  BY <1>1 DEF RowView, RowQty, LockInvariant, CacheRows, Commit

\* A commit keeps the invariant: what it writes over a row it holds is the row
\* plus its own movements, which is what it adds to the ledger.
LEMMA CommitKeepsLockInvariant ==
    ASSUME LockInvariant, TypeOK', NEW r \in Req, Commit(r)
    PROVE  LockInvariant'
<1>1. /\ TypeOK
      /\ EndTransaction(r)
      /\ pc[r] = "item"
      /\ rows'   = rows \cup {k \in Key : cacheLock[k] = r}
      /\ cache'  = [k \in Key |-> RowQty(r, k)]
      /\ ledger' = [k \in Key |-> ledger[k] + moved[r][k]]
  BY DEF LockInvariant, Commit
<1>2. \A k \in Key : Pending(r, k) = 0 /\ RowView(r, k) /\ moved[r][k] \in Int
                     /\ cache[k] \in Int /\ seen[r][k] \in Int
  BY <1>1 DEF Pending, LockInvariant, TypeOK
<1>3. \A k \in Key : cache'[k] = cache[k] + moved[r][k] /\ cache'[k] >= 0
  BY CommitWritesMovements
<1>4. CacheMatchesLedger'
  BY <1>1, <1>3 DEF CacheMatchesLedger, LockInvariant
<1>5. CacheRows'
  BY <1>1, <1>2, <1>3 DEF CacheRows, LockInvariant, RowView
<1>6. ASSUME NEW s \in Req, NEW k \in Key PROVE RowView(s, k)'
  <2>1. CASE s = r
    BY <1>1, <2>1, EndedView
  <2>2. CASE s # r
    <3>1. LeavesOthers(r)
      BY <1>1, EndLeavesOthers
    <3>2. cacheLock[k] = s => cache'[k] = cache[k]
      BY <1>1, <2>2 DEF RowQty
    <3>. QED
      BY <2>2, <3>1, <3>2, ViewIsStable, RequestAssumption DEF LeavesOthers
  <2>. QED
    BY <2>1, <2>2
<1>7. \A s \in Req : InsertsInflow(s)'
  BY <1>1, EndLeavesOthers, OthersInsertInflow DEF InsertsInflow
<1>8. todo' \in [Req -> Seq(LockedItem)]
  BY <1>1, EndLeavesOthers DEF LockInvariant, TypeOK, LeavesOthers, LockedItem
<1>. QED
  BY <1>4, <1>5, <1>6, <1>7, <1>8 DEF LockInvariant, LockedItem

\* Nothing a running request does disturbs the invariant.
LEMMA StepKeepsLockInvariant ==
    ASSUME Uses(LockedKinds), LockInvariant, TypeOK', NEW r \in Req, Step(r)
    PROVE  LockInvariant'
<1>0. /\ TypeOK
      /\ \A k \in Key : RowView(r, k)
      /\ todo[r] \in Seq(LockedItem)
  BY DEF LockInvariant, LockedItem
<1>1. CASE LockStock(r)
  <2>1. todo[r] # <<>> /\ KeyOf(r) \in Key /\ QtyOf(r) \in Int
    BY <1>1, WorkedLockedItem DEF LockStock, At
  <2>2. ASSUME NEW k \in Key PROVE RowView(r, k)'
    <3>1. Pending(r, k) = 0 /\ Pending(r, k)' = 0
      BY <1>0, <1>1 DEF LockStock, At, Pending, Goto, TypeOK
    <3>2. /\ cacheLock'[k] = IF k = KeyOf(r) THEN r ELSE cacheLock[k]
          /\ seen'[r][k] = IF k = KeyOf(r) THEN RowQty(r, k) ELSE seen[r][k]
          /\ cache' = cache /\ moved' = moved
      BY <1>0, <1>1, <2>1 DEF LockStock, TakeCache, tables, TypeOK
    <3>3. RowQty(r, k) >= 0 /\ RowQty(r, k) = cache[k] + moved[r][k]
      <4>1. cache[k] \in Int /\ cache[k] >= 0
        BY <1>0 DEF TypeOK, LockInvariant, CacheRows
      <4>2. seen[r][k] \in Int /\ moved[r][k] \in Int
        BY <1>0 DEF TypeOK
      <4>3. RowView(r, k)
        BY <1>0
      <4>. QED
        BY <3>1, <4>1, <4>2, <4>3 DEF RowQty, RowView
    <3>. QED
      BY <1>0, <3>1, <3>2, <3>3 DEF RowView, TypeOK
  <2>3. LeavesOthers(r) /\ UNCHANGED <<rows, cache, ledger, todo>>
    BY <1>0, <1>1, <2>1
    DEF LockStock, TakeCache, CacheFree, Goto, tables, TypeOK, LeavesOthers
  <2>4. InsertsInflow(r)'
    BY <1>0, <1>1 DEF InsertsInflow, LockStock, Goto, TypeOK
  <2>. QED
    BY <1>0, <2>2, <2>3, <2>4, QuietStep
<1>2. CASE ConsumeLayers(r)
  <2>1. todo[r] # <<>> /\ KeyOf(r) \in Key /\ QtyOf(r) \in Int
    BY <1>2, WorkedLockedItem DEF ConsumeLayers, At
  <2>2. \A k \in Key : RowView(r, k)'
    BY <1>0, <1>2, <2>1
    DEF ConsumeLayers, At, RowView, Pending, Goto, TypeOK, tables, KeyOf, QtyOf
  <2>3. LeavesOthers(r) /\ UNCHANGED <<rows, cache, ledger, todo>>
    BY <1>0, <1>2, <2>1 DEF ConsumeLayers, Goto, tables, TypeOK, LeavesOthers
  <2>4. InsertsInflow(r)'
    BY <1>0, <1>2 DEF InsertsInflow, ConsumeLayers, Goto, TypeOK
  <2>. QED
    BY <1>0, <2>2, <2>3, <2>4, QuietStep
<1>3. CASE AddLayer(r)
  <2>2. \A k \in Key : RowView(r, k)'
    BY <1>0, <1>3
    DEF AddLayer, At, RowView, Pending, Goto, TypeOK, tables, locks, KeyOf, QtyOf
  <2>3. LeavesOthers(r) /\ UNCHANGED <<rows, cache, ledger, todo>>
    BY <1>0, <1>3 DEF AddLayer, Goto, tables, locks, TypeOK, LeavesOthers
  <2>4. InsertsInflow(r)'
    BY <1>0, <1>3 DEF InsertsInflow, AddLayer, Goto, TypeOK
  <2>. QED
    BY <1>0, <2>2, <2>3, <2>4, QuietStep
<1>4. CASE WriteOffLayers(r)
  <2>1. /\ pc[r] = "item"
        /\ Goto(r, "movement")
        /\ UNCHANGED <<tables, cacheLock, job, todo, seen, moved>>
    BY <1>4 DEF WriteOffLayers, At
  <2>2. \A k \in Key : RowView(r, k)'
    BY <1>0, <2>1 DEF RowView, Pending, Goto, TypeOK, tables, KeyOf, QtyOf
  <2>3. LeavesOthers(r) /\ UNCHANGED <<rows, cache, ledger, todo>>
    BY <1>0, <2>1 DEF Goto, tables, TypeOK, LeavesOthers
  <2>4. InsertsInflow(r)'
    BY <1>0, <2>1 DEF InsertsInflow, Goto, TypeOK
  <2>. QED
    BY <1>0, <2>2, <2>3, <2>4, QuietStep
<1>5. CASE WriteLedger(r)
  <2>1. todo[r] # <<>> /\ KeyOf(r) \in Key /\ QtyOf(r) \in Int
    BY <1>5, WorkedLockedItem DEF WriteLedger, At
  <2>2. ASSUME NEW k \in Key PROVE RowView(r, k)'
    <3>1. /\ Pending(r, k) = 0
          /\ Pending(r, k)' = IF k = KeyOf(r) THEN QtyOf(r) ELSE 0
      BY <1>0, <1>5 DEF WriteLedger, At, Pending, KeyOf, QtyOf, Goto, TypeOK
    <3>2. /\ moved'[r][k] = moved[r][k] + IF k = KeyOf(r) THEN QtyOf(r) ELSE 0
          /\ cache' = cache /\ seen' = seen /\ cacheLock' = cacheLock
      BY <1>0, <1>5, <2>1 DEF WriteLedger, Move, tables, locks, TypeOK
    <3>3. moved[r][k] \in Int /\ seen[r][k] \in Int /\ cache[k] \in Int
      BY <1>0 DEF TypeOK
    <3>4. CASE k = KeyOf(r)
      BY <1>0, <2>1, <3>1, <3>2, <3>3, <3>4 DEF RowView
    <3>5. CASE k # KeyOf(r)
      BY <1>0, <2>1, <3>1, <3>2, <3>3, <3>5 DEF RowView
    <3>. QED
      BY <3>4, <3>5
  <2>3. LeavesOthers(r) /\ UNCHANGED <<rows, cache, ledger, todo>>
    BY <1>0, <1>5, <2>1
    DEF WriteLedger, Move, Goto, tables, locks, TypeOK, LeavesOthers
  <2>4. InsertsInflow(r)'
    BY <1>0, <1>5 DEF InsertsInflow, WriteLedger, Goto, TypeOK
  <2>. QED
    BY <1>0, <2>2, <2>3, <2>4, QuietStep
<1>6. CASE UpdateCacheRow(r)
  <2>1. /\ todo[r] # <<>> /\ KeyOf(r) \in Key /\ QtyOf(r) \in Int
        /\ Tail(todo[r]) \in Seq(LockedItem)
    BY <1>6, WorkedLockedItem DEF UpdateCacheRow, At
  <2>2. ASSUME NEW k \in Key PROVE RowView(r, k)'
    <3>1. /\ Pending(r, k) = IF k = KeyOf(r) THEN QtyOf(r) ELSE 0
          /\ Pending(r, k)' = 0
      BY <1>0, <1>6 DEF UpdateCacheRow, At, Pending, NextItem, Goto, TypeOK
    <3>2. /\ cacheLock'[k] = IF k = KeyOf(r) THEN r ELSE cacheLock[k]
          /\ seen'[r][k] = IF k = KeyOf(r) THEN RowQty(r, k) + QtyOf(r) ELSE seen[r][k]
          /\ cache' = cache /\ moved' = moved
      BY <1>0, <1>6, <2>1 DEF UpdateCacheRow, TakeCache, tables, TypeOK
    <3>3. k = KeyOf(r) => /\ RowQty(r, k) + QtyOf(r) >= 0
                          /\ RowQty(r, k) + QtyOf(r) = cache[k] + moved[r][k]
      BY <1>0, <1>6, <2>1, <3>1 DEF UpdateCacheRow, CacheFree, RowQty, RowView, TypeOK
    <3>. QED
      BY <1>0, <3>1, <3>2, <3>3 DEF RowView, TypeOK
  <2>3. /\ LeavesOthers(r)
        /\ UNCHANGED <<rows, cache, ledger>>
        /\ todo'[r] \in Seq(LockedItem)
    BY <1>0, <1>6, <2>1
    DEF UpdateCacheRow, TakeCache, CacheFree, NextItem, Goto, tables, TypeOK, LeavesOthers
  <2>4. InsertsInflow(r)'
    BY <1>0, <1>6 DEF InsertsInflow, UpdateCacheRow, NextItem, Goto, TypeOK
  <2>. QED
    BY <1>0, <2>2, <2>3, <2>4, QuietStep
<1>7. CASE MissCacheRow(r)
  <2>2. \A k \in Key : RowView(r, k)'
    BY <1>0, <1>7
    DEF MissCacheRow, At, RowView, Pending, Goto, TypeOK, tables, locks, KeyOf, QtyOf
  <2>3. LeavesOthers(r) /\ UNCHANGED <<rows, cache, ledger, todo>>
    BY <1>0, <1>7 DEF MissCacheRow, Goto, tables, locks, TypeOK, LeavesOthers
  <2>4. InsertsInflow(r)'
    BY <1>0, <1>7 DEF InsertsInflow, MissCacheRow, At, NoRow, Goto, TypeOK, KeyOf, QtyOf, tables, locks
  <2>. QED
    BY <1>0, <2>2, <2>3, <2>4, QuietStep
<1>8. CASE InsertCacheRow(r)
  <2>1. /\ todo[r] # <<>> /\ KeyOf(r) \in Key /\ QtyOf(r) \in Int
        /\ Tail(todo[r]) \in Seq(LockedItem)
    BY <1>8, WorkedLockedItem DEF InsertCacheRow, At
  <2>2. ASSUME NEW k \in Key PROVE RowView(r, k)'
    <3>1. /\ Pending(r, k) = IF k = KeyOf(r) THEN QtyOf(r) ELSE 0
          /\ Pending(r, k)' = 0
      BY <1>0, <1>8 DEF InsertCacheRow, At, Pending, NextItem, Goto, TypeOK
    <3>2. /\ cacheLock'[k] = IF k = KeyOf(r) THEN r ELSE cacheLock[k]
          /\ seen'[r][k] = IF k = KeyOf(r) THEN QtyOf(r) ELSE seen[r][k]
          /\ cache' = cache /\ moved' = moved
      BY <1>0, <1>8, <2>1 DEF InsertCacheRow, TakeCache, tables, TypeOK
    <3>3. QtyOf(r) > 0 /\ cache[KeyOf(r)] = 0 /\ cacheLock[KeyOf(r)] # r
      BY <1>8, <2>1
      DEF InsertCacheRow, At, LockInvariant, CacheRows, InsertsInflow
    <3>4. moved[r][k] \in Int /\ seen[r][k] \in Int
      BY <1>0 DEF TypeOK
    <3>5. CASE k = KeyOf(r)
      BY <1>0, <2>1, <3>1, <3>2, <3>3, <3>4, <3>5 DEF RowView
    <3>6. CASE k # KeyOf(r)
      BY <1>0, <2>1, <3>1, <3>2, <3>4, <3>6 DEF RowView
    <3>. QED
      BY <3>5, <3>6
  <2>3. /\ LeavesOthers(r)
        /\ UNCHANGED <<rows, cache, ledger>>
        /\ todo'[r] \in Seq(LockedItem)
    BY <1>0, <1>8, <2>1
    DEF InsertCacheRow, TakeCache, CacheFree, NextItem, Goto, tables, TypeOK, LeavesOthers
  <2>4. InsertsInflow(r)'
    BY <1>0, <1>8 DEF InsertsInflow, InsertCacheRow, NextItem, Goto, TypeOK
  <2>. QED
    BY <1>0, <2>2, <2>3, <2>4, QuietStep
<1>9. CASE Commit(r)
  BY <1>9, CommitKeepsLockInvariant
<1>10. CASE Raise(r)
  BY <1>10, RollbackKeepsLockInvariant DEF Raise
<1>11. ~ReadStock(r) /\ ~OverwriteCacheRow(r) /\ ~SumLedger(r) /\ ~CorrectCacheRow(r)
  BY WorkedLockedItem
  DEF ReadStock, OverwriteCacheRow, SumLedger, CorrectCacheRow, At, LockedKinds
<1>. QED
  BY <1>1, <1>2, <1>3, <1>4, <1>5, <1>6, <1>7, <1>8, <1>9, <1>10, <1>11 DEF Step

\* A request begins with a job of the disciplined kinds.
LEMMA BeginKeepsLockInvariant ==
    ASSUME Uses(LockedKinds), LockInvariant, TypeOK', NEW r \in Req, Begin(r)
    PROVE  LockInvariant'
<1>1. TypeOK /\ pc[r] = "idle" /\ Goto(r, "item")
      /\ UNCHANGED <<tables, locks, seen, moved>>
  BY DEF Begin, LockInvariant
<1>2. PICK j \in Jobs : todo' = [todo EXCEPT ![r] = j]
  BY DEF Begin
<1>3. todo'[r] \in Seq(LockedItem)
  BY <1>1, <1>2 DEF Uses, LockedItem, TypeOK
<1>4. LeavesOthers(r) /\ UNCHANGED <<rows, cache, ledger>>
  BY <1>1, <1>2 DEF LeavesOthers, Goto, tables, locks, TypeOK
<1>5. InsertsInflow(r)'
  BY <1>1 DEF InsertsInflow, Goto, TypeOK
<1>6. ASSUME NEW k \in Key PROVE RowView(r, k)'
  <2>1. Pending(r, k) = 0 /\ Pending(r, k)' = 0
    BY <1>1 DEF Pending, Goto, TypeOK
  <2>. QED
    BY <1>1, <2>1 DEF RowView, LockInvariant, tables, locks
<1>. QED
  BY <1>3, <1>4, <1>5, <1>6, QuietStep

\* LockInvariant is inductive when every request locks the rows it moves.
LEMMA LockInvariantInductive ==
    ASSUME Uses(LockedKinds)
    PROVE  LockInvariant /\ [Next]_vars => LockInvariant'
<1> SUFFICES ASSUME LockInvariant, [Next]_vars PROVE LockInvariant'
  OBVIOUS
<1>1. TypeOK'
  BY TypeInductive DEF LockInvariant
<1>2. CASE UNCHANGED vars
  BY <1>2
  DEF vars, LockInvariant, TypeOK, CacheRows, CacheMatchesLedger, InsertsInflow, RowView,
      Pending, KeyOf, QtyOf
<1>3. ASSUME NEW r \in Req, Begin(r) PROVE LockInvariant'
  BY <1>1, <1>3, BeginKeepsLockInvariant
<1>4. ASSUME NEW r \in Req, Step(r) PROVE LockInvariant'
  BY <1>1, <1>4, StepKeepsLockInvariant
<1>5. ASSUME NEW r \in Req, Rollback(r) PROVE LockInvariant'
  BY <1>1, <1>5, RollbackKeepsLockInvariant
<1>6. \A r \in Req : ~GetAllCacheEntries(r)
  BY DEF GetAllCacheEntries, Uses
<1>. QED
  BY <1>2, <1>3, <1>4, <1>5, <1>6 DEF Next

LEMMA InitLockInvariant == Init => LockInvariant
<1> SUFFICES ASSUME Init PROVE LockInvariant
  OBVIOUS
<1>1. todo \in [Req -> Seq(LockedItem)]
  BY EmptySeq DEF Init
<1>2. CacheRows /\ CacheMatchesLedger /\ \A r \in Req : InsertsInflow(r)
  BY DEF Init, CacheRows, CacheMatchesLedger, InsertsInflow, Zero
<1>3. \A r \in Req, k \in Key : RowView(r, k)
  BY RequestAssumption DEF Init, RowView, Pending, Zero
<1>. QED
  BY <1>1, <1>2, <1>3, InitTypeOK DEF LockInvariant, LockedItem

\* With every movement recorded through record_inventory_movement, the cache
\* row of a key holds the sum of its ledger entries after every commit: for
\* any number of requests, of keys and of items, in any interleaving.
THEOREM CacheEqualsLedger ==
    ASSUME Uses(LockedKinds)
    PROVE  Spec => []CacheMatchesLedger
<1>1. Init => LockInvariant
  BY InitLockInvariant
<1>2. LockInvariant /\ [Next]_vars => LockInvariant'
  BY LockInvariantInductive
<1>3. LockInvariant => CacheMatchesLedger
  BY DEF LockInvariant
<1>. QED
  BY <1>1, <1>2, <1>3, PTL DEF Spec

\* And no unit is sold, transferred or written off twice.
THEOREM StockIsNeverOversold ==
    ASSUME Uses(LockedKinds)
    PROVE  Spec => []NoOversell
<1>1. LockInvariant => NoOversell
  BY DEF LockInvariant, CacheRows, CacheMatchesLedger, NoOversell, TypeOK
<1>. QED
  BY <1>1, InitLockInvariant, LockInvariantInductive, PTL DEF Spec

-----------------------------------------------------------------------------
(* The layers cover the stock, with the write-offs of audits among it.     *)

\* Whoever does not take the step keeps its view of layers and of its row.
LEMMA OthersKeepCover ==
    ASSUME CoverInvariant, NEW r \in Req, LeavesOthers(r), NEW s \in Req \ {r},
           layered'[s] = layered[s]
    PROVE  /\ \A k \in Key : CoverView(s, k)'
           /\ SaleHoldsRow(s)'
<1>1. /\ pc'[s] = pc[s] /\ todo'[s] = todo[s]
      /\ moved'[s] = moved[s] /\ seen'[s] = seen[s]
  BY DEF LeavesOthers
<1>2. KeyOf(s)' = KeyOf(s) /\ QtyOf(s)' = QtyOf(s)
  BY <1>1 DEF KeyOf, QtyOf
<1>3. \A k \in Key : CoverView(s, k)'
  BY <1>1, <1>2 DEF CoverInvariant, CoverView, Unrecorded
<1>4. SaleHoldsRow(s)'
  <2> SUFFICES ASSUME pc[s] \in {"layers", "movement", "cache", "insert"},
                      Head(todo[s]).kind = "confirm_sale"
               PROVE  /\ cacheLock'[KeyOf(s)] = s
                      /\ pc[s] # "insert"
                      /\ seen[s][KeyOf(s)] + QtyOf(s) >= 0
    BY <1>1, <1>2 DEF SaleHoldsRow
  <2>1. KeyOf(s) \in Key
    BY WorkedLockedItem DEF CoverInvariant, LockInvariant, TypeOK
  <2>. QED
    BY <2>1, RequestAssumption DEF CoverInvariant, SaleHoldsRow, LeavesOthers
<1>. QED
  BY <1>3, <1>4

\* The counterpart of QuietStep for CoverInvariant.
LEMMA QuietCoverStep ==
    ASSUME CoverInvariant, LockInvariant', NEW r \in Req,
           UNCHANGED <<cache, layers>>,
           LeavesOthers(r),
           \A s \in Req \ {r} : layered'[s] = layered[s],
           \A k \in Key : CoverView(r, k)',
           SaleHoldsRow(r)'
    PROVE  CoverInvariant'
<1>1. \A s \in Req : SaleHoldsRow(s)' /\ \A k \in Key : CoverView(s, k)'
  BY OthersKeepCover
<1>. QED
  BY <1>1 DEF CoverInvariant, LayersCoverStock

\* A transaction that ends has changed no layer and checked no row.
LEMMA EndedCover ==
    ASSUME TypeOK, NEW r \in Req, EndTransaction(r)
    PROVE  /\ \A k \in Key : CoverView(r, k)'
           /\ SaleHoldsRow(r)'
           /\ \A s \in Req \ {r} : layered'[s] = layered[s]
<1>1. pc'[r] = "idle"
  BY DEF EndTransaction, Goto, TypeOK
<1>2. SaleHoldsRow(r)'
  BY <1>1 DEF SaleHoldsRow
<1>3. /\ layered'[r] = Zero /\ moved'[r] = Zero
      /\ \A s \in Req \ {r} : layered'[s] = layered[s]
  BY DEF EndTransaction, TypeOK
<1>4. \A k \in Key : CoverView(r, k)'
  BY <1>1, <1>3 DEF CoverView, Unrecorded, Zero
<1>. QED
  BY <1>2, <1>3, <1>4

LEMMA RollbackKeepsCover ==
    ASSUME CoverInvariant, LockInvariant', NEW r \in Req, Rollback(r)
    PROVE  CoverInvariant'
<1>1. TypeOK /\ EndTransaction(r) /\ UNCHANGED <<cache, layers>>
  BY DEF CoverInvariant, LockInvariant, Rollback, tables
<1>. QED
  BY <1>1, EndLeavesOthers, EndedCover, QuietCoverStep

\* A commit takes no more units from the layers than from the row.
LEMMA CommitKeepsCover ==
    ASSUME CoverInvariant, LockInvariant', NEW r \in Req, Commit(r)
    PROVE  CoverInvariant'
<1>1. /\ LockInvariant /\ TypeOK /\ EndTransaction(r) /\ pc[r] = "item"
      /\ layers' = [k \in Key |-> layers[k] + layered[r][k]]
  BY DEF CoverInvariant, LockInvariant, Commit, LayerQty
<1>2. ASSUME NEW k \in Key PROVE layers'[k] >= cache'[k]
  <2>1. layered[r][k] >= moved[r][k] + 0
    BY <1>1 DEF CoverInvariant, CoverView, Unrecorded
  <2>2. /\ moved[r][k] \in Int /\ layered[r][k] \in Int /\ layers[k] \in Int /\ cache[k] \in Int
        /\ layers[k] >= cache[k]
    BY <1>1 DEF TypeOK, CoverInvariant, LayersCoverStock
  <2>. QED
    BY <1>1, <2>1, <2>2, CommitWritesMovements
<1>3. \A s \in Req : SaleHoldsRow(s)' /\ \A k \in Key : CoverView(s, k)'
  BY <1>1, EndLeavesOthers, EndedCover, OthersKeepCover
<1>. QED
  BY <1>2, <1>3 DEF CoverInvariant, LayersCoverStock

\* A sale whose check passed has the units in its row, so it finds them in the
\* layers.
LEMMA SaleIsCosted ==
    ASSUME CoverInvariant, NEW r \in Req
    PROVE  ~InsufficientCostLayer(r)
<1> SUFFICES ASSUME At(r, "layers", {"confirm_sale"})
             PROVE  ~(LayerQty(r, KeyOf(r)) + QtyOf(r) < 0)
  BY DEF InsufficientCostLayer
<1>1. /\ pc[r] = "layers" /\ KeyOf(r) \in Key /\ QtyOf(r) \in Int
      /\ Head(todo[r]).kind = "confirm_sale" /\ LockInvariant /\ TypeOK
  BY WorkedLockedItem DEF At, CoverInvariant, LockInvariant
<1>2. PICK k, q : k = KeyOf(r) /\ q = QtyOf(r)
  OBVIOUS
<1>3. cacheLock[k] = r /\ seen[r][k] + q >= 0
  BY <1>1, <1>2 DEF CoverInvariant, SaleHoldsRow
<1>4. Pending(r, k) = 0 /\ Unrecorded(r, k) = 0
  BY <1>1 DEF Pending, Unrecorded
<1>5. /\ seen[r][k] + 0 = cache[k] + moved[r][k]
      /\ layered[r][k] >= moved[r][k] + 0 /\ layers[k] >= cache[k]
  BY <1>1, <1>2, <1>3, <1>4 DEF RowView, LockInvariant, CoverInvariant, CoverView, LayersCoverStock
<1>6. PICK y, m, l, c, n : /\ y = seen[r][k] /\ m = moved[r][k] /\ l = layered[r][k]
                           /\ c = cache[k] /\ n = layers[k]
  OBVIOUS
<1>7. y \in Int /\ m \in Int /\ l \in Int /\ c \in Int /\ n \in Int /\ q \in Int
  BY <1>1, <1>2, <1>6 DEF TypeOK
<1>8. y + q >= 0 /\ y + 0 = c + m /\ l >= m + 0 /\ n >= c
  BY <1>3, <1>5, <1>6
<1>9. ~((n + l) + q < 0)
  BY ONLY <1>7, <1>8
<1>. QED
  BY <1>2, <1>6, <1>9 DEF LayerQty

\* Nothing a running request does disturbs the cover.
LEMMA StepKeepsCover ==
    ASSUME Uses(LockedKinds), CoverInvariant, LockInvariant', NEW r \in Req, Step(r)
    PROVE  CoverInvariant'
<1>0. /\ TypeOK
      /\ LockInvariant
      /\ todo[r] \in Seq(LockedItem)
      /\ \A k \in Key : CoverView(r, k)
      /\ SaleHoldsRow(r)
  BY DEF CoverInvariant, LockInvariant, LockedItem
<1>1. CASE LockStock(r)
  <2>1. /\ KeyOf(r) \in Key /\ QtyOf(r) \in Int /\ pc[r] = "item"
        /\ RowQty(r, KeyOf(r)) + QtyOf(r) >= 0
        /\ TakeCache(r, KeyOf(r), RowQty(r, KeyOf(r)))
        /\ CacheFree(r, KeyOf(r))
        /\ Goto(r, "layers")
        /\ UNCHANGED <<tables, layerLock, job, todo, moved, layered>>
    BY <1>0, <1>1, WorkedLockedItem DEF LockStock, At
  <2>2. pc'[r] = "layers" /\ KeyOf(r)' = KeyOf(r) /\ QtyOf(r)' = QtyOf(r)
    BY <1>0, <2>1 DEF Goto, TypeOK, KeyOf, QtyOf
  <2>3. /\ cacheLock'[KeyOf(r)] = r
        /\ seen'[r][KeyOf(r)] = RowQty(r, KeyOf(r))
    BY <1>0, <2>1 DEF TakeCache, TypeOK
  <2>4. SaleHoldsRow(r)'
    BY <2>1, <2>2, <2>3 DEF SaleHoldsRow
  <2>5. \A k \in Key : CoverView(r, k)'
    BY <1>0, <2>1, <2>2 DEF CoverView, Unrecorded
  <2>6. LeavesOthers(r) /\ UNCHANGED <<cache, layers, todo, layered>>
    BY <1>0, <2>1 DEF TakeCache, CacheFree, Goto, tables, TypeOK, LeavesOthers
  <2>. QED
    BY <2>4, <2>5, <2>6, QuietCoverStep
<1>2. ASSUME NEW q \in Int, Layer(r, KeyOf(r), q), Goto(r, "movement"), q >= QtyOf(r),
             pc[r] \in {"item", "layers"}, todo[r] # <<>>,
             Head(todo[r]).kind = "confirm_sale" => pc[r] = "layers",
             UNCHANGED <<tables, cacheLock, job, todo, seen, moved>>
      PROVE  CoverInvariant'
  <2>1. KeyOf(r) \in Key /\ QtyOf(r) \in Int
    BY <1>0, <1>2, WorkedLockedItem
  <2>2. pc'[r] = "movement" /\ KeyOf(r)' = KeyOf(r) /\ QtyOf(r)' = QtyOf(r)
    BY <1>0, <1>2 DEF Goto, TypeOK, KeyOf, QtyOf
  <2>3. SaleHoldsRow(r)'
    BY <1>0, <1>2, <2>1, <2>2 DEF SaleHoldsRow
  <2>4. ASSUME NEW k \in Key PROVE CoverView(r, k)'
    <3>1. layered[r][k] >= moved[r][k] + 0 /\ layered[r][k] \in Int /\ moved[r][k] \in Int
      BY <1>0, <1>2 DEF CoverView, Unrecorded, TypeOK
    <3>2. layered'[r][k] = IF k = KeyOf(r) THEN layered[r][k] + q ELSE layered[r][k]
      BY <1>0, <1>2 DEF Layer, TypeOK
    <3>3. Unrecorded(r, k)' = IF k = KeyOf(r) THEN QtyOf(r) ELSE 0
      BY <2>2 DEF Unrecorded
    <3>4. PICK y, m, u : y = layered[r][k] /\ m = moved[r][k] /\ u = QtyOf(r)
      OBVIOUS
    <3>5. y + q >= m + u /\ y >= m + 0
      <4>1. y \in Int /\ m \in Int /\ u \in Int /\ q \in Int /\ y >= m + 0 /\ q >= u
        BY <1>2, <2>1, <3>1, <3>4
      <4>2. QED
        BY ONLY <4>1
    <3>6. QED
      BY <1>2, <3>2, <3>3, <3>4, <3>5 DEF CoverView
  <2>5. LeavesOthers(r) /\ UNCHANGED <<cache, layers, todo>>
        /\ \A s \in Req \ {r} : layered'[s] = layered[s]
    BY <1>0, <1>2 DEF Layer, Goto, tables, TypeOK, LeavesOthers
  <2>. QED
    BY <2>3, <2>4, <2>5, QuietCoverStep
<1>3. CASE ConsumeLayers(r) \/ AddLayer(r)
  <2>1. /\ Layer(r, KeyOf(r), QtyOf(r)) /\ Goto(r, "movement")
        /\ pc[r] \in {"item", "layers"} /\ todo[r] # <<>>
        /\ Head(todo[r]).kind = "confirm_sale" => pc[r] = "layers"
        /\ UNCHANGED <<tables, cacheLock, job, todo, seen, moved>>
    BY <1>3 DEF ConsumeLayers, AddLayer, At, locks
  <2>2. QtyOf(r) \in Int /\ QtyOf(r) >= QtyOf(r)
    BY <1>0, <2>1, WorkedLockedItem
  <2>. QED
    BY <1>2, <2>1, <2>2
<1>4. CASE WriteOffLayers(r)
  <2> DEFINE left == LayerQty(r, KeyOf(r))
             q == IF left + QtyOf(r) >= 0 THEN QtyOf(r) ELSE -left
  <2>1. /\ Layer(r, KeyOf(r), q) /\ Goto(r, "movement")
        /\ pc[r] = "item" /\ todo[r] # <<>>
        /\ Head(todo[r]).kind = "complete_audit"
        /\ UNCHANGED <<tables, cacheLock, job, todo, seen, moved>>
    BY <1>4 DEF WriteOffLayers, At
  <2>2. KeyOf(r) \in Key /\ QtyOf(r) \in Int /\ left \in Int
    BY <1>0, <2>1, WorkedLockedItem DEF LayerQty, TypeOK
  <2> HIDE DEF left
  <2>3. q \in Int /\ q >= QtyOf(r)
    <3>1. PICK u : u = QtyOf(r)
      OBVIOUS
    <3>2. (IF left + u >= 0 THEN u ELSE -left) \in Int /\ (IF left + u >= 0 THEN u ELSE -left) >= u
      BY ONLY <2>2, <3>1
    <3>3. QED
      BY <3>1, <3>2
  <2> HIDE DEF q
  <2>. QED
    BY <1>2, <2>1, <2>3
<1>5. CASE WriteLedger(r)
  <2>1. /\ KeyOf(r) \in Key /\ QtyOf(r) \in Int /\ pc[r] = "movement"
        /\ Move(r, KeyOf(r), QtyOf(r))
        /\ Goto(r, "cache")
        /\ UNCHANGED <<tables, locks, job, todo, seen, layered>>
    BY <1>5, WorkedLockedItem DEF WriteLedger, At, CoverInvariant
  <2>2. pc'[r] = "cache" /\ KeyOf(r)' = KeyOf(r) /\ QtyOf(r)' = QtyOf(r)
    BY <1>0, <2>1 DEF Goto, TypeOK, KeyOf, QtyOf
  <2>3. SaleHoldsRow(r)'
    BY <1>0, <2>1, <2>2 DEF SaleHoldsRow, locks
  <2>4. ASSUME NEW k \in Key PROVE CoverView(r, k)'
    BY <1>0, <2>1, <2>2 DEF CoverView, Unrecorded, Move, TypeOK
  <2>5. LeavesOthers(r) /\ UNCHANGED <<cache, layers, todo, layered>>
    BY <1>0, <2>1 DEF Move, Goto, tables, locks, TypeOK, LeavesOthers
  <2>. QED
    BY <2>3, <2>4, <2>5, QuietCoverStep
<1>6. ASSUME UpdateCacheRow(r) \/ InsertCacheRow(r) PROVE CoverInvariant'
  <2>1. /\ KeyOf(r) \in Key /\ pc[r] \in {"cache", "insert"}
        /\ \E q : TakeCache(r, KeyOf(r), q)
        /\ CacheFree(r, KeyOf(r))
        /\ todo' = [todo EXCEPT ![r] = Tail(@)]
        /\ Goto(r, "item")
        /\ UNCHANGED <<tables, layerLock, job, moved, layered>>
    BY <1>0, <1>6, WorkedLockedItem DEF UpdateCacheRow, InsertCacheRow, At, NextItem
  <2>2. pc'[r] = "item"
    BY <1>0, <2>1 DEF Goto, TypeOK
  <2>3. SaleHoldsRow(r)'
    BY <2>2 DEF SaleHoldsRow
  <2>4. ASSUME NEW k \in Key PROVE CoverView(r, k)'
    BY <1>0, <2>1, <2>2 DEF CoverView, Unrecorded
  <2>5. LeavesOthers(r) /\ UNCHANGED <<cache, layers, layered>>
    BY <1>0, <2>1 DEF TakeCache, CacheFree, Goto, tables, TypeOK, LeavesOthers
  <2>. QED
    BY <2>3, <2>4, <2>5, QuietCoverStep
<1>7. CASE MissCacheRow(r)
  <2>1. /\ KeyOf(r) \in Key /\ pc[r] = "cache" /\ QtyOf(r) > 0
        /\ NoRow(r, KeyOf(r))
        /\ Goto(r, "insert")
        /\ UNCHANGED <<tables, locks, job, todo, seen, moved, layered>>
    BY <1>0, <1>7, WorkedLockedItem DEF MissCacheRow, At
  <2>2. pc'[r] = "insert" /\ Head(todo'[r]) = Head(todo[r])
    BY <1>0, <2>1 DEF Goto, TypeOK
  <2>3. SaleHoldsRow(r)'
    BY <1>0, <2>1, <2>2 DEF SaleHoldsRow, NoRow
  <2>4. ASSUME NEW k \in Key PROVE CoverView(r, k)'
    BY <1>0, <2>1, <2>2 DEF CoverView, Unrecorded
  <2>5. LeavesOthers(r) /\ UNCHANGED <<cache, layers, todo, layered>>
    BY <1>0, <2>1 DEF Goto, tables, locks, TypeOK, LeavesOthers
  <2>. QED
    BY <2>3, <2>4, <2>5, QuietCoverStep
<1>8. CASE Commit(r)
  BY <1>8, CommitKeepsCover
<1>9. CASE Raise(r)
  BY <1>9, RollbackKeepsCover DEF Raise
<1>10. ~ReadStock(r) /\ ~OverwriteCacheRow(r) /\ ~SumLedger(r) /\ ~CorrectCacheRow(r)
  BY <1>0, WorkedLockedItem
  DEF ReadStock, OverwriteCacheRow, SumLedger, CorrectCacheRow, At, LockedKinds
<1>. QED
  BY <1>1, <1>3, <1>4, <1>5, <1>6, <1>7, <1>8, <1>9, <1>10 DEF Step

LEMMA BeginKeepsCover ==
    ASSUME CoverInvariant, LockInvariant', NEW r \in Req, Begin(r)
    PROVE  CoverInvariant'
<1>1. /\ TypeOK /\ pc[r] = "idle" /\ Goto(r, "item")
      /\ UNCHANGED <<tables, locks, seen, moved, layered>>
      /\ \A k \in Key : CoverView(r, k)
  BY DEF Begin, CoverInvariant, LockInvariant
<1>2. PICK j \in Jobs : todo' = [todo EXCEPT ![r] = j]
  BY DEF Begin
<1>3. LeavesOthers(r) /\ UNCHANGED <<cache, layers, layered>>
  BY <1>1, <1>2 DEF LeavesOthers, Goto, tables, locks, TypeOK
<1>4. pc'[r] = "item"
  BY <1>1 DEF Goto, TypeOK
<1>5. SaleHoldsRow(r)' /\ \A k \in Key : CoverView(r, k)'
  BY <1>1, <1>4 DEF SaleHoldsRow, CoverView, Unrecorded
<1>. QED
  BY <1>3, <1>5, QuietCoverStep

\* CoverInvariant is inductive while nobody adjusts or reconciles.
LEMMA CoverInductive ==
    ASSUME Uses(LockedKinds)
    PROVE  CoverInvariant /\ [Next]_vars => CoverInvariant'
<1> SUFFICES ASSUME CoverInvariant, [Next]_vars PROVE CoverInvariant'
  OBVIOUS
<1>1. LockInvariant'
  BY LockInvariantInductive DEF CoverInvariant
<1>2. CASE UNCHANGED vars
  BY <1>1, <1>2
  DEF vars, CoverInvariant, LayersCoverStock, CoverView, Unrecorded, SaleHoldsRow,
      KeyOf, QtyOf
<1>3. ASSUME NEW r \in Req, Begin(r) PROVE CoverInvariant'
  BY <1>1, <1>3, BeginKeepsCover
<1>4. ASSUME NEW r \in Req, Step(r) PROVE CoverInvariant'
  BY <1>1, <1>4, StepKeepsCover
<1>5. ASSUME NEW r \in Req, Rollback(r) PROVE CoverInvariant'
  BY <1>1, <1>5, RollbackKeepsCover
<1>6. \A r \in Req : ~GetAllCacheEntries(r)
  BY DEF GetAllCacheEntries, Uses
<1>. QED
  BY <1>2, <1>3, <1>4, <1>5, <1>6 DEF Next

LEMMA InitCover == Init => CoverInvariant
<1> SUFFICES ASSUME Init PROVE CoverInvariant
  OBVIOUS
<1>1. LayersCoverStock /\ \A r \in Req : SaleHoldsRow(r)
  BY DEF Init, LayersCoverStock, SaleHoldsRow, Zero
<1>2. \A r \in Req, k \in Key : CoverView(r, k)
  BY DEF Init, CoverView, Unrecorded, Zero
<1>. QED
  BY <1>1, <1>2, InitLockInvariant DEF CoverInvariant

\* Every unit in stock keeps a cost layer, for any number of concurrent sales,
\* receipts and audits, whatever shortages the audits swallow.
THEOREM StockIsCovered ==
    ASSUME Uses(LockedKinds)
    PROVE  Spec => []LayersCoverStock
<1>1. CoverInvariant => LayersCoverStock
  BY DEF CoverInvariant
<1>. QED
  BY <1>1, InitCover, CoverInductive, PTL DEF Spec

\* A sale that passed its stock check under the lock never fails for want of
\* cost layers, also beside audits that write layers off.
THEOREM CheckedSalesAreCosted ==
    ASSUME Uses(LockedKinds)
    PROVE  Spec => []CheckedSaleIsCosted
<1>1. CoverInvariant => CheckedSaleIsCosted
  BY SaleIsCosted DEF CheckedSaleIsCosted
<1>. QED
  BY <1>1, InitCover, CoverInductive, PTL DEF Spec

-----------------------------------------------------------------------------
(* The layers equal the stock while only sales and receipts run.           *)

TradeItem == {i \in JobItem : i.kind \in TradeKinds}

LEMMA TradeIsLocked == Uses(TradeKinds) => Uses(LockedKinds)
<1>1. TradeItem \subseteq LockedItem
  BY DEF TradeItem, LockedItem, TradeKinds, LockedKinds
<1>. QED
  BY <1>1, SeqMonotonic DEF Uses, TradeItem, LockedItem

LEMMA WorkedTradeItem ==
    ASSUME TradeInvariant, NEW r \in Req, todo[r] # <<>>
    PROVE  /\ KeyOf(r) \in Key
           /\ QtyOf(r) \in Int
           /\ Head(todo[r]).kind \in TradeKinds
           /\ Head(todo[r]).kind = "receive_goods" => QtyOf(r) > 0
           /\ Tail(todo[r]) \in Seq(TradeItem)
<1>1. todo[r] \in Seq(TradeItem)
  BY DEF TradeInvariant, TradeItem
<1>2. Head(todo[r]) \in TradeItem /\ Tail(todo[r]) \in Seq(TradeItem)
  BY <1>1, HeadTailProperties
<1>. QED
  BY <1>2 DEF TradeItem, JobItem, Item, KeyOf, QtyOf

\* Whoever does not take the step keeps its view of layers and of its row.
LEMMA OthersKeepTradeView ==
    ASSUME TradeInvariant, NEW r \in Req, LeavesOthers(r), NEW s \in Req \ {r},
           layered'[s] = layered[s]
    PROVE  /\ \A k \in Key : LayerView(s, k)'
           /\ SaleHoldsRow(s)'
<1>1. /\ pc'[s] = pc[s] /\ todo'[s] = todo[s]
      /\ moved'[s] = moved[s] /\ seen'[s] = seen[s]
  BY DEF LeavesOthers
<1>2. KeyOf(s)' = KeyOf(s) /\ QtyOf(s)' = QtyOf(s)
  BY <1>1 DEF KeyOf, QtyOf
<1>3. \A k \in Key : LayerView(s, k)'
  BY <1>1, <1>2 DEF TradeInvariant, LayerView, Unrecorded
<1>4. SaleHoldsRow(s)'
  <2> SUFFICES ASSUME pc[s] \in {"layers", "movement", "cache", "insert"},
                      Head(todo[s]).kind = "confirm_sale"
               PROVE  /\ cacheLock'[KeyOf(s)] = s
                      /\ pc[s] # "insert"
                      /\ seen[s][KeyOf(s)] + QtyOf(s) >= 0
    BY <1>1, <1>2 DEF SaleHoldsRow
  <2>1. KeyOf(s) \in Key
    BY WorkedTradeItem DEF TradeInvariant, LockInvariant, TypeOK
  <2>. QED
    BY <2>1, RequestAssumption DEF TradeInvariant, SaleHoldsRow, LeavesOthers
<1>. QED
  BY <1>3, <1>4

\* The counterpart of QuietStep for TradeInvariant.
LEMMA QuietTradeStep ==
    ASSUME TradeInvariant, LockInvariant', NEW r \in Req,
           UNCHANGED <<cache, layers>>,
           LeavesOthers(r),
           \A s \in Req \ {r} : layered'[s] = layered[s],
           todo'[r] \in Seq(TradeItem),
           \A k \in Key : LayerView(r, k)',
           SaleHoldsRow(r)'
    PROVE  TradeInvariant'
<1>1. \A s \in Req : SaleHoldsRow(s)' /\ \A k \in Key : LayerView(s, k)'
  BY OthersKeepTradeView
<1>2. todo' \in [Req -> Seq(TradeItem)]
  BY DEF TradeInvariant, TradeItem, LeavesOthers, LockInvariant, TypeOK
<1>. QED
  BY <1>1, <1>2 DEF TradeInvariant, LayersMatchCache, TradeItem

\* A transaction that ends has changed no layer and checked no row.
LEMMA EndedTradeView ==
    ASSUME TypeOK, NEW r \in Req, EndTransaction(r)
    PROVE  /\ \A k \in Key : LayerView(r, k)'
           /\ SaleHoldsRow(r)'
           /\ todo'[r] \in Seq(TradeItem)
           /\ \A s \in Req \ {r} : layered'[s] = layered[s]
<1>1. pc'[r] = "idle" /\ todo'[r] = <<>>
  BY DEF EndTransaction, Goto, TypeOK
<1>2. SaleHoldsRow(r)' /\ todo'[r] \in Seq(TradeItem)
  BY <1>1, EmptySeq DEF SaleHoldsRow
<1>3. /\ layered'[r] = Zero /\ moved'[r] = Zero
      /\ \A s \in Req \ {r} : layered'[s] = layered[s]
  BY DEF EndTransaction, TypeOK
<1>4. \A k \in Key : LayerView(r, k)'
  BY <1>1, <1>3 DEF LayerView, Unrecorded, Zero
<1>. QED
  BY <1>2, <1>3, <1>4

LEMMA RollbackKeepsTradeInvariant ==
    ASSUME TradeInvariant, LockInvariant', NEW r \in Req, Rollback(r)
    PROVE  TradeInvariant'
<1>1. TypeOK /\ EndTransaction(r) /\ UNCHANGED <<cache, layers>>
  BY DEF TradeInvariant, LockInvariant, Rollback, tables
<1>. QED
  BY <1>1, EndLeavesOthers, EndedTradeView, QuietTradeStep

\* A commit adds the same units to the layers, the row and the ledger.
LEMMA CommitKeepsTradeInvariant ==
    ASSUME TradeInvariant, LockInvariant', NEW r \in Req, Commit(r)
    PROVE  TradeInvariant'
<1>1. /\ LockInvariant /\ TypeOK /\ EndTransaction(r) /\ pc[r] = "item"
      /\ layers' = [k \in Key |-> layers[k] + layered[r][k]]
  BY DEF TradeInvariant, LockInvariant, Commit, LayerQty
<1>2. ASSUME NEW k \in Key PROVE layers'[k] = cache'[k]
  <2>1. layered[r][k] = moved[r][k] + 0
    BY <1>1 DEF TradeInvariant, LayerView, Unrecorded
  <2>2. moved[r][k] \in Int /\ layers[k] = cache[k]
    BY <1>1 DEF TypeOK, TradeInvariant, LayersMatchCache
  <2>. QED
    BY <1>1, <2>1, <2>2, CommitWritesMovements
<1>3. \A s \in Req : SaleHoldsRow(s)' /\ \A k \in Key : LayerView(s, k)'
  BY <1>1, EndLeavesOthers, EndedTradeView, OthersKeepTradeView
<1>4. todo' \in [Req -> Seq(TradeItem)]
  <2>1. todo'[r] \in Seq(TradeItem) /\ \A s \in Req \ {r} : todo'[s] = todo[s]
    BY <1>1, EndLeavesOthers, EndedTradeView DEF LeavesOthers
  <2>2. todo \in [Req -> Seq(TradeItem)]
    BY DEF TradeInvariant, TradeItem
  <2>3. todo' \in [Req -> Seq(Item)]
    BY DEF LockInvariant, TypeOK
  <2>. QED
    BY <2>1, <2>2, <2>3
<1>. QED
  BY <1>2, <1>3, <1>4 DEF TradeInvariant, LayersMatchCache, TradeItem

\* No caller of record_inventory_movement reaches its negative-stock check.
LEMMA CallersCheck ==
    ASSUME TradeInvariant, NEW r \in Req
    PROVE  ~NegativeStock(r)
<1> SUFFICES ASSUME At(r, "cache", LockedKinds)
             PROVE  /\ ~(NoRow(r, KeyOf(r)) /\ QtyOf(r) < 0)
                    /\ ~(RowQty(r, KeyOf(r)) + QtyOf(r) < 0)
  BY DEF NegativeStock
<1>1. /\ pc[r] = "cache" /\ KeyOf(r) \in Key /\ QtyOf(r) \in Int
      /\ Head(todo[r]).kind \in TradeKinds
      /\ Head(todo[r]).kind = "receive_goods" => QtyOf(r) > 0
  BY WorkedTradeItem DEF At
<1>2. CASE Head(todo[r]).kind = "confirm_sale"
  <2>1. cacheLock[KeyOf(r)] = r /\ seen[r][KeyOf(r)] + QtyOf(r) >= 0
    BY <1>1, <1>2 DEF TradeInvariant, SaleHoldsRow
  <2>2. seen[r][KeyOf(r)] \in Int
    BY <1>1 DEF TradeInvariant, LockInvariant, TypeOK
  <2>. QED
    BY <1>1, <2>1, <2>2 DEF NoRow, RowQty
<1>3. CASE Head(todo[r]).kind = "receive_goods"
  <2>1. QtyOf(r) > 0
    BY <1>1, <1>3
  <2>2. RowView(r, KeyOf(r)) /\ cache[KeyOf(r)] >= 0 /\ TypeOK
    BY <1>1 DEF TradeInvariant, LockInvariant, CacheRows
  <2>3. RowQty(r, KeyOf(r)) \in Int /\ RowQty(r, KeyOf(r)) >= 0
    BY <1>1, <2>2 DEF RowQty, RowView, TypeOK
  <2>. QED
    BY <1>1, <2>1, <2>3
<1>. QED
  BY <1>1, <1>2, <1>3 DEF TradeKinds

\* Nothing a running request does disturbs the trade invariant.
LEMMA StepKeepsTradeInvariant ==
    ASSUME TradeInvariant, LockInvariant', NEW r \in Req, Step(r)
    PROVE  TradeInvariant'
<1>0. /\ TypeOK
      /\ LockInvariant
      /\ todo[r] \in Seq(TradeItem)
      /\ \A k \in Key : LayerView(r, k)
      /\ SaleHoldsRow(r)
  BY DEF TradeInvariant, LockInvariant, TradeItem
<1>1. CASE LockStock(r)
  <2>1. /\ KeyOf(r) \in Key /\ QtyOf(r) \in Int /\ pc[r] = "item"
        /\ RowQty(r, KeyOf(r)) + QtyOf(r) >= 0
        /\ TakeCache(r, KeyOf(r), RowQty(r, KeyOf(r)))
        /\ CacheFree(r, KeyOf(r))
        /\ Goto(r, "layers")
        /\ UNCHANGED <<tables, layerLock, job, todo, moved, layered>>
    BY <1>1, WorkedTradeItem DEF LockStock, At
  <2>2. pc'[r] = "layers" /\ KeyOf(r)' = KeyOf(r) /\ QtyOf(r)' = QtyOf(r)
    BY <1>0, <2>1 DEF Goto, TypeOK, KeyOf, QtyOf
  <2>3. /\ cacheLock'[KeyOf(r)] = r
        /\ seen'[r][KeyOf(r)] = RowQty(r, KeyOf(r))
    BY <1>0, <2>1 DEF TakeCache, TypeOK
  <2>4. SaleHoldsRow(r)'
    BY <2>1, <2>2, <2>3 DEF SaleHoldsRow
  <2>5. \A k \in Key : LayerView(r, k)'
    BY <1>0, <2>1, <2>2 DEF LayerView, Unrecorded
  <2>6. LeavesOthers(r) /\ UNCHANGED <<cache, layers, todo, layered>>
    BY <1>0, <2>1 DEF TakeCache, CacheFree, Goto, tables, TypeOK, LeavesOthers
  <2>. QED
    BY <1>0, <2>4, <2>5, <2>6, QuietTradeStep
<1>2. CASE ConsumeLayers(r)
  <2>1. /\ KeyOf(r) \in Key /\ QtyOf(r) \in Int /\ pc[r] = "layers"
        /\ Head(todo[r]).kind = "confirm_sale"
        /\ Layer(r, KeyOf(r), QtyOf(r))
        /\ Goto(r, "movement")
        /\ UNCHANGED <<tables, cacheLock, job, todo, seen, moved>>
    BY <1>2, WorkedTradeItem DEF ConsumeLayers, At
  <2>2. pc'[r] = "movement" /\ KeyOf(r)' = KeyOf(r) /\ QtyOf(r)' = QtyOf(r)
    BY <1>0, <2>1 DEF Goto, TypeOK, KeyOf, QtyOf
  <2>3. SaleHoldsRow(r)'
    BY <1>0, <2>1, <2>2 DEF SaleHoldsRow
  <2>4. ASSUME NEW k \in Key PROVE LayerView(r, k)'
    BY <1>0, <2>1, <2>2 DEF LayerView, Unrecorded, Layer, TypeOK
  <2>5. LeavesOthers(r) /\ UNCHANGED <<cache, layers, todo>>
        /\ \A s \in Req \ {r} : layered'[s] = layered[s]
    BY <1>0, <2>1 DEF Layer, Goto, tables, TypeOK, LeavesOthers
  <2>. QED
    BY <1>0, <2>3, <2>4, <2>5, QuietTradeStep
<1>3. CASE AddLayer(r)
  <2>1. /\ KeyOf(r) \in Key /\ QtyOf(r) \in Int /\ pc[r] = "item"
        /\ Head(todo[r]).kind # "confirm_sale"
        /\ Layer(r, KeyOf(r), QtyOf(r))
        /\ Goto(r, "movement")
        /\ UNCHANGED <<tables, locks, job, todo, seen, moved>>
    BY <1>3, WorkedTradeItem DEF AddLayer, At
  <2>2. pc'[r] = "movement" /\ KeyOf(r)' = KeyOf(r) /\ QtyOf(r)' = QtyOf(r)
    BY <1>0, <2>1 DEF Goto, TypeOK, KeyOf, QtyOf
  <2>3. SaleHoldsRow(r)'
    BY <1>0, <2>1, <2>2 DEF SaleHoldsRow
  <2>4. ASSUME NEW k \in Key PROVE LayerView(r, k)'
    BY <1>0, <2>1, <2>2 DEF LayerView, Unrecorded, Layer, TypeOK
  <2>5. LeavesOthers(r) /\ UNCHANGED <<cache, layers, todo>>
        /\ \A s \in Req \ {r} : layered'[s] = layered[s]
    BY <1>0, <2>1 DEF Layer, Goto, tables, locks, TypeOK, LeavesOthers
  <2>. QED
    BY <1>0, <2>3, <2>4, <2>5, QuietTradeStep
<1>4. CASE WriteLedger(r)
  <2>1. /\ KeyOf(r) \in Key /\ QtyOf(r) \in Int /\ pc[r] = "movement"
        /\ Move(r, KeyOf(r), QtyOf(r))
        /\ Goto(r, "cache")
        /\ UNCHANGED <<tables, locks, job, todo, seen, layered>>
    BY <1>4, WorkedTradeItem DEF WriteLedger, At
  <2>2. pc'[r] = "cache" /\ KeyOf(r)' = KeyOf(r) /\ QtyOf(r)' = QtyOf(r)
    BY <1>0, <2>1 DEF Goto, TypeOK, KeyOf, QtyOf
  <2>3. SaleHoldsRow(r)'
    BY <1>0, <2>1, <2>2 DEF SaleHoldsRow, locks
  <2>4. ASSUME NEW k \in Key PROVE LayerView(r, k)'
    BY <1>0, <2>1, <2>2 DEF LayerView, Unrecorded, Move, TypeOK
  <2>5. LeavesOthers(r) /\ UNCHANGED <<cache, layers, todo, layered>>
    BY <1>0, <2>1 DEF Move, Goto, tables, locks, TypeOK, LeavesOthers
  <2>. QED
    BY <1>0, <2>3, <2>4, <2>5, QuietTradeStep
<1>5. ASSUME UpdateCacheRow(r) \/ InsertCacheRow(r) PROVE TradeInvariant'
  <2>1. /\ KeyOf(r) \in Key /\ pc[r] \in {"cache", "insert"}
        /\ \E q : TakeCache(r, KeyOf(r), q)
        /\ CacheFree(r, KeyOf(r))
        /\ todo' = [todo EXCEPT ![r] = Tail(@)]
        /\ Goto(r, "item")
        /\ UNCHANGED <<tables, layerLock, job, moved, layered>>
        /\ Tail(todo[r]) \in Seq(TradeItem)
    BY <1>5, WorkedTradeItem DEF UpdateCacheRow, InsertCacheRow, At, NextItem
  <2>2. pc'[r] = "item" /\ todo'[r] \in Seq(TradeItem)
    BY <1>0, <2>1 DEF Goto, TypeOK
  <2>3. SaleHoldsRow(r)'
    BY <2>2 DEF SaleHoldsRow
  <2>4. ASSUME NEW k \in Key PROVE LayerView(r, k)'
    BY <1>0, <2>1, <2>2 DEF LayerView, Unrecorded
  <2>5. LeavesOthers(r) /\ UNCHANGED <<cache, layers, layered>>
    BY <1>0, <2>1 DEF TakeCache, CacheFree, Goto, tables, TypeOK, LeavesOthers
  <2>. QED
    BY <2>2, <2>3, <2>4, <2>5, QuietTradeStep
<1>6. CASE MissCacheRow(r)
  <2>1. /\ KeyOf(r) \in Key /\ pc[r] = "cache" /\ QtyOf(r) > 0
        /\ NoRow(r, KeyOf(r))
        /\ Goto(r, "insert")
        /\ UNCHANGED <<tables, locks, job, todo, seen, moved, layered>>
    BY <1>6, WorkedTradeItem DEF MissCacheRow, At
  <2>2. pc'[r] = "insert" /\ Head(todo'[r]) = Head(todo[r])
    BY <1>0, <2>1 DEF Goto, TypeOK
  <2>3. SaleHoldsRow(r)'
    BY <1>0, <2>1, <2>2 DEF SaleHoldsRow, NoRow
  <2>4. ASSUME NEW k \in Key PROVE LayerView(r, k)'
    BY <1>0, <2>1, <2>2 DEF LayerView, Unrecorded
  <2>5. LeavesOthers(r) /\ UNCHANGED <<cache, layers, todo, layered>>
    BY <1>0, <2>1 DEF Goto, tables, locks, TypeOK, LeavesOthers
  <2>. QED
    BY <1>0, <2>3, <2>4, <2>5, QuietTradeStep
<1>7. CASE Commit(r)
  BY <1>7, CommitKeepsTradeInvariant
<1>8. CASE Raise(r)
  BY <1>8, RollbackKeepsTradeInvariant DEF Raise
<1>9. ~WriteOffLayers(r) /\ ~ReadStock(r) /\ ~OverwriteCacheRow(r)
      /\ ~SumLedger(r) /\ ~CorrectCacheRow(r)
  BY WorkedTradeItem
  DEF WriteOffLayers, ReadStock, OverwriteCacheRow, SumLedger, CorrectCacheRow, At,
      TradeKinds
<1>. QED
  BY <1>1, <1>2, <1>3, <1>4, <1>5, <1>6, <1>7, <1>8, <1>9 DEF Step

LEMMA BeginKeepsTradeInvariant ==
    ASSUME Uses(TradeKinds), TradeInvariant, LockInvariant', NEW r \in Req, Begin(r)
    PROVE  TradeInvariant'
<1>1. /\ TypeOK /\ pc[r] = "idle" /\ Goto(r, "item")
      /\ UNCHANGED <<tables, locks, seen, moved, layered>>
      /\ \A k \in Key : LayerView(r, k)
  BY DEF Begin, TradeInvariant, LockInvariant
<1>2. PICK j \in Jobs : todo' = [todo EXCEPT ![r] = j]
  BY DEF Begin
<1>3. todo'[r] \in Seq(TradeItem)
  BY <1>1, <1>2 DEF Uses, TradeItem, TypeOK
<1>4. LeavesOthers(r) /\ UNCHANGED <<cache, layers, layered>>
  BY <1>1, <1>2 DEF LeavesOthers, Goto, tables, locks, TypeOK
<1>5. pc'[r] = "item"
  BY <1>1 DEF Goto, TypeOK
<1>6. SaleHoldsRow(r)' /\ \A k \in Key : LayerView(r, k)'
  BY <1>1, <1>5 DEF SaleHoldsRow, LayerView, Unrecorded
<1>. QED
  BY <1>3, <1>4, <1>6, QuietTradeStep

\* TradeInvariant is inductive while only sales and receipts run.
LEMMA TradeInvariantInductive ==
    ASSUME Uses(TradeKinds)
    PROVE  TradeInvariant /\ [Next]_vars => TradeInvariant'
<1> SUFFICES ASSUME TradeInvariant, [Next]_vars PROVE TradeInvariant'
  OBVIOUS
<1>1. LockInvariant'
  BY TradeIsLocked, LockInvariantInductive DEF TradeInvariant
<1>2. CASE UNCHANGED vars
  BY <1>1, <1>2
  DEF vars, TradeInvariant, LayersMatchCache, LayerView, Unrecorded, SaleHoldsRow,
      KeyOf, QtyOf
<1>3. ASSUME NEW r \in Req, Begin(r) PROVE TradeInvariant'
  BY <1>1, <1>3, BeginKeepsTradeInvariant
<1>4. ASSUME NEW r \in Req, Step(r) PROVE TradeInvariant'
  BY <1>1, <1>4, StepKeepsTradeInvariant
<1>5. ASSUME NEW r \in Req, Rollback(r) PROVE TradeInvariant'
  BY <1>1, <1>5, RollbackKeepsTradeInvariant
<1>6. \A r \in Req : ~GetAllCacheEntries(r)
  BY DEF GetAllCacheEntries, Uses
<1>. QED
  BY <1>2, <1>3, <1>4, <1>5, <1>6 DEF Next

LEMMA InitTradeInvariant == Init => TradeInvariant
<1> SUFFICES ASSUME Init PROVE TradeInvariant
  OBVIOUS
<1>1. todo \in [Req -> Seq(TradeItem)]
  BY EmptySeq DEF Init
<1>2. LayersMatchCache /\ \A r \in Req : SaleHoldsRow(r)
  BY DEF Init, LayersMatchCache, SaleHoldsRow, Zero
<1>3. \A r \in Req, k \in Key : LayerView(r, k)
  BY DEF Init, LayerView, Unrecorded, Zero
<1>. QED
  BY <1>1, <1>2, <1>3, InitLockInvariant DEF TradeInvariant, TradeItem

\* The layers hold exactly the units in stock, for any number of concurrent
\* sales, transfers and receipts.
THEOREM LayersEqualStock ==
    ASSUME Uses(TradeKinds)
    PROVE  Spec => []LayersMatchCache
<1>1. TradeInvariant => LayersMatchCache
  BY DEF TradeInvariant
<1>. QED
  BY <1>1, InitTradeInvariant, TradeInvariantInductive, PTL DEF Spec

\* Sales and receipts never reach the negative-stock check of
\* record_inventory_movement.
THEOREM SalesPreValidate ==
    ASSUME Uses(TradeKinds)
    PROVE  Spec => []CallersPreValidate
<1>1. TradeInvariant => CallersPreValidate
  BY CallersCheck DEF CallersPreValidate
<1>. QED
  BY <1>1, InitTradeInvariant, TradeInvariantInductive, PTL DEF Spec

-----------------------------------------------------------------------------
(* The layers, on every path: adjustments, audits and the reconciliation   *)
(* included.                                                               *)

\* A session that holds the layers of a key has taken no more than they have;
\* one that does not has at most added some.
LayersHeld(r, k) ==
    IF layerLock[k] = r THEN layers[k] + layered[r][k] >= 0 ELSE layered[r][k] >= 0

LayerInvariant ==
    /\ TypeOK
    /\ LayersNeverNegative
    /\ \A r \in Req, k \in Key : LayersHeld(r, k)

\* A step that changes what one session holds of one key's layers, and may
\* lock them if nobody else has.
LEMMA LayerStep ==
    ASSUME LayerInvariant, TypeOK', NEW r \in Req, NEW k \in Key, NEW q \in Int,
           LayerFree(r, k) \/ q >= 0,
           q >= 0 \/ LayerQty(r, k) + q >= 0,
           Layer(r, k, q),
           IF LayerFree(r, k) /\ q < 0 THEN TakeLayers(r, k)
           ELSE (TakeLayers(r, k) /\ LayerFree(r, k)) \/ UNCHANGED layerLock,
           UNCHANGED layers
    PROVE  LayerInvariant'
<1>1. /\ layered[r][k] \in Int /\ layers[k] \in Int /\ layers[k] >= 0
      /\ layerLock \in [Key -> Req \cup {NoReq}]
      /\ \A s \in Req, l \in Key : LayersHeld(s, l) /\ layered[s][l] \in Int
  BY DEF LayerInvariant, TypeOK, LayersNeverNegative
<1>2. \A s \in Req, l \in Key :
          layered'[s][l] = IF s = r /\ l = k THEN layered[r][k] + q ELSE layered[s][l]
  BY DEF Layer, LayerInvariant, TypeOK
<1>3. \A l \in Key : l # k => layerLock'[l] = layerLock[l]
  BY <1>1 DEF TakeLayers
<1>4. \/ layerLock'[k] = layerLock[k]
      \/ layerLock'[k] = r /\ layers[k] # 0 /\ layerLock[k] \in {NoReq, r}
  BY <1>1 DEF TakeLayers, LayerFree
<1>5. layerLock[k] # r /\ layerLock'[k] = layerLock[k] /\ q < 0 => layers[k] = 0
  BY <1>1 DEF TakeLayers, LayerFree
<1>6. ASSUME NEW s \in Req, NEW l \in Key PROVE LayersHeld(s, l)'
  <2>1. CASE l # k \/ s # r
    BY <1>1, <1>2, <1>3, <1>4, <2>1, RequestAssumption DEF LayersHeld
  <2>2. CASE l = k /\ s = r
    BY <1>1, <1>2, <1>4, <1>5, <2>2 DEF LayersHeld, LayerQty
  <2>3. QED
    BY <2>1, <2>2
<1>7. QED
  BY <1>6 DEF LayerInvariant, LayersNeverNegative

\* The end of a request gives its layers back.
LEMMA LayerEnd ==
    ASSUME LayerInvariant, TypeOK', NEW r \in Req, EndTransaction(r),
           \A k \in Key : layers'[k] = layers[k] \/ layers'[k] = LayerQty(r, k)
    PROVE  LayerInvariant'
<1>1. \A s \in Req, k \in Key :
          /\ layered'[s][k] = IF s = r THEN 0 ELSE layered[s][k]
          /\ layerLock'[k] = IF layerLock[k] = r THEN NoReq ELSE layerLock[k]
          /\ layered[s][k] \in Int /\ layers[k] \in Int /\ layers[k] >= 0
  BY DEF EndTransaction, LayerInvariant, LayersNeverNegative, TypeOK, Zero
<1>2. \A k \in Key : layers'[k] >= 0 /\ (layerLock[k] # r => layers'[k] >= layers[k])
  BY <1>1 DEF LayerInvariant, LayersHeld, LayerQty
<1>3. ASSUME NEW s \in Req, NEW k \in Key PROVE LayersHeld(s, k)'
  <2>1. layers'[k] \in Int /\ layers'[k] >= 0 /\ (layerLock[k] # r => layers'[k] >= layers[k])
    BY <1>2 DEF TypeOK
  <2>2. CASE s = r
    BY <1>1, <2>1, <2>2 DEF LayersHeld
  <2>3. CASE s # r
    BY <1>1, <2>1, <2>3, RequestAssumption DEF LayersHeld, LayerInvariant
  <2>4. QED
    BY <2>2, <2>3
<1>4. QED
  BY <1>2, <1>3 DEF LayerInvariant, LayersNeverNegative

LEMMA LayerInvariantInductive == LayerInvariant /\ [Next]_vars => LayerInvariant'
<1> SUFFICES ASSUME LayerInvariant, [Next]_vars PROVE LayerInvariant'
  OBVIOUS
<1>1. TypeOK /\ TypeOK'
  BY TypeInductive DEF LayerInvariant
<1>2. CASE UNCHANGED <<layers, layerLock, layered>>
  BY <1>1, <1>2 DEF LayerInvariant, LayersNeverNegative, LayersHeld
<1>3. ASSUME NEW r \in Req, ConsumeLayers(r) PROVE LayerInvariant'
  <2>1. KeyOf(r) \in Key /\ QtyOf(r) \in Int
    BY <1>1, <1>3, WorkedItem DEF ConsumeLayers, At
  <2>2. QED
    BY <1>1, <1>3, <2>1, LayerStep DEF ConsumeLayers, tables
<1>4. ASSUME NEW r \in Req, AddLayer(r) PROVE LayerInvariant'
  <2>1. KeyOf(r) \in Key /\ QtyOf(r) \in Int
    BY <1>1, <1>4, WorkedItem DEF AddLayer, At
  <2>2. QED
    BY <1>1, <1>4, <2>1, LayerStep DEF AddLayer, tables, locks
<1>5. ASSUME NEW r \in Req, WriteOffLayers(r) PROVE LayerInvariant'
  <2> DEFINE left == LayerQty(r, KeyOf(r))
             q == IF left + QtyOf(r) >= 0 THEN QtyOf(r) ELSE -left
  <2>1. KeyOf(r) \in Key /\ QtyOf(r) \in Int
    BY <1>1, <1>5, WorkedItem DEF WriteOffLayers, At
  <2>2. left \in Int
    BY <1>1, <2>1 DEF LayerQty, TypeOK
  <2>3. q \in Int /\ left + q >= 0
    BY <2>1, <2>2
  <2>4. /\ LayerFree(r, KeyOf(r)) /\ Layer(r, KeyOf(r), q) /\ TakeLayers(r, KeyOf(r))
        /\ UNCHANGED layers
    BY <1>5 DEF WriteOffLayers, tables
  <2> HIDE DEF q
  <2>5. QED
    BY <1>1, <2>1, <2>3, <2>4, LayerStep
<1>6. ASSUME NEW r \in Req, ReadStock(r) PROVE LayerInvariant'
  <2> DEFINE q == IF QtyOf(r) > 0 THEN QtyOf(r) ELSE 0
  <2>1. KeyOf(r) \in Key /\ QtyOf(r) \in Int
    BY <1>1, <1>6, WorkedItem DEF ReadStock, At
  <2>2. q \in Int /\ q >= 0
    BY <2>1
  <2>3. Layer(r, KeyOf(r), q) /\ UNCHANGED <<layers, layerLock>>
    BY <1>6 DEF ReadStock, tables, locks
  <2> HIDE DEF q
  <2>4. QED
    BY <1>1, <2>1, <2>2, <2>3, LayerStep
<1>7. ASSUME NEW r \in Req, Commit(r) PROVE LayerInvariant'
  BY <1>1, <1>7, LayerEnd DEF Commit
<1>8. ASSUME NEW r \in Req, Rollback(r) PROVE LayerInvariant'
  BY <1>1, <1>8, LayerEnd DEF Rollback, tables
<1>9. ASSUME NEW r \in Req,
             \/ Begin(r) \/ GetAllCacheEntries(r)
             \/ LockStock(r) \/ WriteLedger(r) \/ UpdateCacheRow(r) \/ MissCacheRow(r)
             \/ InsertCacheRow(r) \/ OverwriteCacheRow(r)
             \/ SumLedger(r) \/ CorrectCacheRow(r)
      PROVE  LayerInvariant'
  BY <1>2, <1>9
  DEF Begin, GetAllCacheEntries, LockStock, WriteLedger, UpdateCacheRow, MissCacheRow,
      InsertCacheRow, OverwriteCacheRow, SumLedger, CorrectCacheRow, tables, locks
<1>10. CASE UNCHANGED vars
  BY <1>2, <1>10 DEF vars
<1>. QED
  BY <1>3, <1>4, <1>5, <1>6, <1>7, <1>8, <1>9, <1>10 DEF Next, Step, Raise

LEMMA InitLayerInvariant == Init => LayerInvariant
BY InitTypeOK DEF Init, LayerInvariant, LayersNeverNegative, LayersHeld, Zero

\* No two requests take one unit of a layer, on whatever path they come and
\* whether or not they hold the cache row.
THEOREM LayersAreTakenOnce == Spec => []LayersNeverNegative
<1>1. LayerInvariant => LayersNeverNegative
  BY DEF LayerInvariant
<1>. QED
  BY <1>1, InitLayerInvariant, LayerInvariantInductive, PTL DEF Spec

-----------------------------------------------------------------------------
(* Requests are atomic: what a session recorded is what it has worked off. *)

\* What each item of a list adds to the stock of a key.
OfKey(items, k) == [n \in DOMAIN items |-> IF items[n].key = k THEN items[n].qty ELSE 0]

\* The items a request is done with, and those it has recorded.
Done(r)     == Len(job[r]) - Len(todo[r])
Recorded(r) == IF pc[r] \in {"cache", "insert", "overwrite"} THEN Done(r) + 1 ELSE Done(r)

\* A request works its job off, item by item.
Works(r) ==
    /\ job[r] \in Seq(JobItem) \ {<<>>}
    /\ Len(todo[r]) <= Len(job[r])
    /\ \A n \in DOMAIN todo[r] : todo[r][n] = job[r][Done(r) + n]
    /\ \A k \in Key : moved[r][k] = SumOver(OfKey(job[r], k), 1 .. Recorded(r))

\* The reconciliation compares rows and corrects them, and moves nothing.
Compares(r) ==
    /\ pc[r] = "item"
    /\ job[r] # <<>>
    /\ \A n \in DOMAIN job[r] : job[r][n].qty = 0
    /\ \A n \in DOMAIN todo[r] : todo[r][n].kind \in {"sum", "fix"}
    /\ moved[r] = Zero

\* Nothing is left of a request that ended.
Rests(r) == job[r] = <<>> /\ todo[r] = <<>> /\ moved[r] = Zero

\* What the proof of RequestsAreAtomic carries.
JobState(r) == IF pc[r] = "idle" THEN Rests(r) ELSE Works(r) \/ Compares(r)
JobInvariant ==
    /\ TypeOK
    /\ \A r \in Req : JobState(r)

\* A list of items adds nothing but integers to the stock of a key.
LEMMA OfKeyTypes ==
    ASSUME NEW items \in Seq(Item), NEW k
    PROVE  /\ DOMAIN items = 1 .. Len(items) /\ Len(items) \in Nat
           /\ DOMAIN items \in SUBSET Int /\ IsFiniteSet(DOMAIN items)
           /\ \A n \in DOMAIN items : items[n].qty \in Int /\ OfKey(items, k)[n] \in Int
<1>1. DOMAIN items = 1 .. Len(items) /\ Len(items) \in Nat
  OBVIOUS
<1>2. IsFiniteSet(DOMAIN items)
  BY <1>1, FS_Interval
<1>3. \A n \in DOMAIN items : items[n] \in Item
  BY <1>1
<1>4. \A n \in DOMAIN items : items[n].qty \in Int
  BY <1>3 DEF Item
<1>5. QED
  BY <1>1, <1>2, <1>4 DEF OfKey

\* What the fold of Net chooses.
NetSummed(items, k, h) ==
    h = [S \in SUBSET (DOMAIN items) |->
            IF S = {} THEN 0
            ELSE IF items[Top(S)].key = k THEN h[S \ {Top(S)}] + items[Top(S)].qty
            ELSE h[S \ {Top(S)}]]

\* Net is a fold.
LEMMA NetUnfolds ==
    \A items, k : Atomic!Net(items, k) = (CHOOSE h : NetSummed(items, k, h))[DOMAIN items]
BY DEF Atomic!Net, Atomic!FoldLeft, Atomic!MapThenFoldSet, Atomic!Max, NetSummed, Top

\* Net is the sum of what the items add.
LEMMA NetFolded ==
    ASSUME NEW items \in Seq(Item), NEW k
    PROVE  Atomic!Net(items, k) = SumOver(OfKey(items, k), DOMAIN items)
<1> DEFINE f == OfKey(items, k)
           D == DOMAIN items
           g == [S \in SUBSET D |-> SumOver(f, S)]
<1>1. D \in SUBSET Int /\ IsFiniteSet(D) /\ \A i \in D : f[i] \in Int
  BY OfKeyTypes DEF OfKey
<1>2. \A S \in SUBSET D : S # {} => Top(S) \in S /\ S \ {Top(S)} \in SUBSET D
  BY <1>1, TopIn, FS_Subset
<1>3. \A S \in SUBSET D : S # {} =>
         f[Top(S)] = IF items[Top(S)].key = k THEN items[Top(S)].qty ELSE 0
  BY <1>2 DEF OfKey
<1>4. ASSUME NEW S \in SUBSET D PROVE SumOver(f, S) \in Int
  <2>1. IsFiniteSet(S) /\ \A i \in S : f[i] \in Int
    BY <1>1, FS_Subset
  <2> HIDE DEF f, D
  <2>2. QED
    BY <2>1, SumType
<1>5. \A S \in SUBSET D : SumOver(f, S) = IF S = {} THEN 0 ELSE SumOver(f, S \ {Top(S)}) + f[Top(S)]
  <2> HIDE DEF f, D
  <2> QED
    BY <1>1, SumFromTop
<1>6. ASSUME NEW S \in SUBSET D
      PROVE  g[S] = IF S = {} THEN 0
                    ELSE IF items[Top(S)].key = k THEN g[S \ {Top(S)}] + items[Top(S)].qty
                    ELSE g[S \ {Top(S)}]
  <2> HIDE DEF f, D
  <2>1. CASE S = {}
    BY <1>5, <2>1
  <2>2. CASE S # {}
    <3>1. PICK R : R = S \ {Top(S)}
      OBVIOUS
    <3>2. R \in SUBSET D /\ g[S] = SumOver(f, S) /\ g[R] = SumOver(f, R)
      BY <1>2, <2>2, <3>1
    <3>3. SumOver(f, S) = SumOver(f, R) + f[Top(S)] /\ SumOver(f, R) \in Int
      BY <1>4, <1>5, <2>2, <3>1, <3>2
    <3>4. QED
      BY <1>3, <2>2, <3>1, <3>2, <3>3
  <2>3. QED
    BY <2>1, <2>2
<1>7. NetSummed(items, k, g)
  <2>1. g = [S \in SUBSET D |-> IF S = {} THEN 0
                    ELSE IF items[Top(S)].key = k THEN g[S \ {Top(S)}] + items[Top(S)].qty
                    ELSE g[S \ {Top(S)}]]
    BY <1>6
  <2>2. QED
    BY <2>1 DEF NetSummed
<1>8. PICK h : h = CHOOSE i : NetSummed(items, k, i)
  OBVIOUS
<1>9. NetSummed(items, k, h)
  <2> HIDE DEF g
  <2> QED
    BY <1>7, <1>8
<1>10. ASSUME NEW S \in SUBSET D
       PROVE  h[S] = IF S = {} THEN 0 ELSE h[S \ {Top(S)}] + f[Top(S)]
  <2> DEFINE T == {U \in SUBSET D : h[U] \in Int}
  <2>1. \A U \in SUBSET D : h[U] = IF U = {} THEN 0
                    ELSE IF items[Top(U)].key = k THEN h[U \ {Top(U)}] + items[Top(U)].qty
                    ELSE h[U \ {Top(U)}]
    BY <1>9 DEF NetSummed
  <2>2. \A U \in SUBSET D : U # {} => items[Top(U)].qty \in Int
    BY <1>2, OfKeyTypes
  <2> HIDE DEF f, D
  <2>3. ASSUME NEW U \in SUBSET D, \A x \in U : U \ {x} \in T PROVE U \in T
    <3>1. CASE U = {}
      <4>1. h[U] = 0
        BY <2>1, <3>1
      <4>2. h[U] \in Int
        BY <4>1
      <4>3. QED
        BY <4>2
    <3>2. CASE U # {}
      <4>1. PICK m, p : m = h[U \ {Top(U)}] /\ p = items[Top(U)].qty
        OBVIOUS
      <4>2. U \ {Top(U)} \in T
        BY <1>2, <2>3, <3>2
      <4>3. m \in Int /\ p \in Int
        BY <2>2, <3>2, <4>1, <4>2
      <4>4. h[U] = IF items[Top(U)].key = k THEN m + p ELSE m
        BY <2>1, <3>2, <4>1
      <4>5. h[U] \in Int
        BY ONLY <4>3, <4>4
      <4>6. QED
        BY <4>5
    <3>3. QED
      BY <3>1, <3>2
  <2> HIDE DEF T
  <2>4. \A U \in SUBSET D : U \in T
    BY <1>1, <2>3, SubsetInduction
  <2>5. CASE S = {}
    BY <2>1, <2>5
  <2>6. CASE S # {}
    <3>1. PICK m, p : m = h[S \ {Top(S)}] /\ p = f[Top(S)]
      OBVIOUS
    <3>2. m \in Int
      BY <1>2, <2>4, <2>6, <3>1 DEF T
    <3>3. h[S] = IF items[Top(S)].key = k THEN m + items[Top(S)].qty ELSE m
      BY <2>1, <2>6, <3>1
    <3>4. p = IF items[Top(S)].key = k THEN items[Top(S)].qty ELSE 0
      BY <1>3, <2>6, <3>1
    <3>5. h[S] = m + p
      <4>1. CASE items[Top(S)].key = k
        BY <3>3, <3>4, <4>1
      <4>2. CASE items[Top(S)].key # k
        <5>1. h[S] = m /\ p = 0
          BY <3>3, <3>4, <4>2
        <5>2. QED
          BY ONLY <3>2, <5>1
      <4>3. QED
        BY <4>1, <4>2
    <3>6. QED
      BY <2>6, <3>1, <3>5
  <2>7. QED
    BY <2>5, <2>6
<1>11. h[D] = SumOver(f, D)
  <2> HIDE DEF f, D
  <2> QED
    BY <1>1, <1>10, TopSums
<1>12. QED
  BY <1>8, <1>11, NetUnfolds

\* Nothing recorded is nothing, and one more item is one more.
LEMMA NothingRecorded == \A f : SumOver(f, {}) = 0
BY FS_EmptySet, SumType

LEMMA OneMore ==
    ASSUME NEW items \in Seq(Item), NEW k, NEW n \in Nat, n + 1 \in DOMAIN items
    PROVE  /\ SumOver(OfKey(items, k), 1 .. n + 1) =
                 SumOver(OfKey(items, k), 1 .. n)
                 + (IF items[n + 1].key = k THEN items[n + 1].qty ELSE 0)
           /\ SumOver(OfKey(items, k), 1 .. n) \in Int
<1> DEFINE f == OfKey(items, k)
<1>1. \A i \in 1 .. n + 1 : f[i] \in Int /\ i \in DOMAIN items
  <2>1. n + 1 <= Len(items) /\ DOMAIN items = 1 .. Len(items) /\ Len(items) \in Nat
    BY OfKeyTypes
  <2>2. \A i \in 1 .. n + 1 : i \in DOMAIN items
    BY <2>1
  <2>3. QED
    BY <2>2, OfKeyTypes
<1>2. f[n + 1] = (IF items[n + 1].key = k THEN items[n + 1].qty ELSE 0)
  BY DEF OfKey
<1>3. IsFiniteSet(1 .. n + 1) /\ IsFiniteSet(1 .. n) /\ n + 1 \in 1 .. n + 1 /\ (1 .. n + 1) \ {n + 1} = 1 .. n
  <2>1. IsFiniteSet(1 .. n + 1) /\ IsFiniteSet(1 .. n)
    BY FS_Interval
  <2>2. \A i \in Int : i \in 1 .. n <=> i \in 1 .. n + 1 /\ i # n + 1
    OBVIOUS
  <2>3. (1 .. n + 1) \ {n + 1} = 1 .. n
    BY <2>2
  <2>4. QED
    BY <2>1, <2>3
<1>4. \A i \in 1 .. n : f[i] \in Int
  BY <1>1
<1> HIDE DEF f
<1>5. SumOver(f, 1 .. n + 1) = f[n + 1] + SumOver(f, 1 .. n)
  BY <1>1, <1>3, SumRemove
<1>6. SumOver(f, 1 .. n) \in Int
  BY <1>3, <1>4, SumType
<1>7. PICK v, w : v = f[n + 1] /\ w = SumOver(f, 1 .. n)
  OBVIOUS
<1>8. v + w = w + v
  BY <1>1, <1>3, <1>6, <1>7
<1>9. QED
  BY <1>2, <1>5, <1>6, <1>7, <1>8 DEF f

\* The item at the head of the list is the next of the job.
LEMMA NextOfJob ==
    ASSUME JobInvariant, NEW r \in Req, Works(r), todo[r] # <<>>
    PROVE  /\ Done(r) \in Nat /\ Done(r) + 1 \in DOMAIN job[r]
           /\ Head(todo[r]) = job[r][Done(r) + 1] /\ Head(todo[r]) \in JobItem
           /\ job[r] \in Seq(Item) /\ job[r] \in Seq(JobItem)
           /\ Len(Tail(todo[r])) = Len(todo[r]) - 1
           /\ \A n \in DOMAIN Tail(todo[r]) : Tail(todo[r])[n] = todo[r][n + 1] /\ n + 1 \in DOMAIN todo[r]
<1>1. /\ todo[r] \in Seq(Item) /\ job[r] \in Seq(JobItem) /\ job[r] \in Seq(Item)
      /\ Len(todo[r]) <= Len(job[r])
      /\ \A n \in DOMAIN todo[r] : todo[r][n] = job[r][Done(r) + n]
  BY DEF Works, JobInvariant, TypeOK
<1>2. /\ Len(todo[r]) \in Nat \ {0} /\ Len(job[r]) \in Nat /\ 1 \in DOMAIN todo[r]
      /\ Head(todo[r]) = todo[r][1]
      /\ DOMAIN job[r] = 1 .. Len(job[r])
  BY <1>1
<1>a. PICK a, b : a = Len(job[r]) /\ b = Len(todo[r])
  OBVIOUS
<1>b. a - b \in Nat /\ a - b + 1 \in 1 .. a
  <2>1. a \in Nat /\ b \in Nat /\ b # 0 /\ b <= a
    BY <1>1, <1>2, <1>a
  <2>2. QED
    BY ONLY <2>1
<1>3. Done(r) \in Nat /\ Done(r) + 1 \in DOMAIN job[r]
  BY <1>2, <1>a, <1>b DEF Done
<1>4. Head(todo[r]) = job[r][Done(r) + 1]
  BY <1>1, <1>2
<1>5. job[r][Done(r) + 1] \in JobItem
  BY <1>1, <1>2, <1>3
<1>6. /\ Len(Tail(todo[r])) = Len(todo[r]) - 1
      /\ \A n \in DOMAIN Tail(todo[r]) : Tail(todo[r])[n] = todo[r][n + 1] /\ n + 1 \in DOMAIN todo[r]
  BY <1>1, <1>2
<1>7. QED
  BY <1>1, <1>3, <1>4, <1>5, <1>6

\* Who is at an item of a job works on that job.
LEMMA WorksAt ==
    ASSUME JobInvariant, NEW r \in Req, NEW step \in Steps, NEW kinds \in SUBSET JobKinds,
           At(r, step, kinds), step # "idle"
    PROVE  Works(r)
<1>1. JobState(r) /\ pc[r] # "idle" /\ todo[r] # <<>> /\ todo[r] \in Seq(Item)
  BY DEF JobInvariant, TypeOK, At
<1>2. Head(todo[r]) = todo[r][1] /\ 1 \in DOMAIN todo[r]
  BY <1>1
<1>3. Head(todo[r]).kind \notin {"sum", "fix"}
  BY DEF At, JobKinds, LockedKinds
<1>4. ~Compares(r)
  BY <1>2, <1>3 DEF Compares
<1>5. QED
  BY <1>1, <1>4 DEF JobState

\* A request that another one's step leaves alone is where it was.
LEMMA StateKept ==
    ASSUME NEW q \in Req, JobState(q),
           pc'[q] = pc[q], job'[q] = job[q], todo'[q] = todo[q], moved'[q] = moved[q]
    PROVE  JobState(q)'
BY DEF JobState, Rests, Works, Compares, Done, Recorded

\* What the step of one request leaves to the others.
OnlyOf(r) ==
    \A q \in Req \ {r} :
        pc'[q] = pc[q] /\ job'[q] = job[q] /\ todo'[q] = todo[q] /\ moved'[q] = moved[q]

\* A step of one request disturbs the job of no other.
LEMMA OthersKept ==
    ASSUME JobInvariant, NEW r \in Req, OnlyOf(r), JobState(r)'
    PROVE  \A q \in Req : JobState(q)'
BY StateKept DEF OnlyOf, JobInvariant

\* The end of a transaction leaves nothing of it.
LEMMA EndedState ==
    ASSUME JobInvariant, NEW r \in Req, EndTransaction(r)
    PROVE  JobState(r)' /\ OnlyOf(r)
BY DEF EndTransaction, Goto, JobInvariant, TypeOK, JobState, Rests, OnlyOf

\* A step of an item that neither records it nor ends it.
LEMMA StateWithin ==
    ASSUME JobInvariant, NEW r \in Req, Works(r),
           UNCHANGED <<job, todo, moved>>, NEW step \in Steps, step # "idle", Goto(r, step),
           pc[r] \in {"cache", "insert", "overwrite"} <=> step \in {"cache", "insert", "overwrite"}
    PROVE  JobState(r)' /\ OnlyOf(r)
<1>1. pc'[r] = step /\ \A q \in Req \ {r} : pc'[q] = pc[q]
  BY DEF Goto, JobInvariant, TypeOK
<1>2. Works(r)'
  BY <1>1 DEF Works, Recorded, Done
<1>3. QED
  BY <1>1, <1>2 DEF JobState, OnlyOf

\* A step that records the item.
LEMMA StateRecords ==
    ASSUME JobInvariant, NEW r \in Req, Works(r), todo[r] # <<>>,
           UNCHANGED <<job, todo>>, NEW step \in {"cache", "insert", "overwrite"}, Goto(r, step),
           pc[r] \notin {"cache", "insert", "overwrite"},
           Move(r, KeyOf(r), QtyOf(r))
    PROVE  JobState(r)' /\ OnlyOf(r)
<1>1. /\ pc'[r] = step
      /\ \A q \in Req \ {r} : pc'[q] = pc[q] /\ moved'[q] = moved[q]
      /\ \A k \in Key : moved'[r][k] = moved[r][k] + (IF KeyOf(r) = k THEN QtyOf(r) ELSE 0)
                        /\ moved[r][k] \in Int
  BY DEF Goto, Move, JobInvariant, TypeOK
<1>2. Recorded(r)' = Done(r) + 1 /\ Recorded(r) = Done(r) /\ Done(r)' = Done(r)
  BY <1>1 DEF Recorded, Done
<1>3. /\ Done(r) \in Nat /\ Done(r) + 1 \in DOMAIN job[r] /\ job[r] \in Seq(Item)
      /\ KeyOf(r) = job[r][Done(r) + 1].key /\ QtyOf(r) = job[r][Done(r) + 1].qty
  BY NextOfJob DEF KeyOf, QtyOf
<1>4. \A k \in Key : moved[r][k] = SumOver(OfKey(job[r], k), 1 .. Done(r))
  BY <1>2 DEF Works
<1>5. \A k \in Key : moved'[r][k] = SumOver(OfKey(job[r], k), 1 .. Done(r) + 1)
  BY <1>1, <1>3, <1>4, OneMore
<1>6. Works(r)'
  BY <1>2, <1>5 DEF Works
<1>7. QED
  BY <1>1, <1>6 DEF JobState, OnlyOf

\* A step that ends the item.
LEMMA StateEnds ==
    ASSUME JobInvariant, NEW r \in Req, Works(r), todo[r] # <<>>,
           UNCHANGED <<job, moved>>, NextItem(r), pc[r] \in {"cache", "insert", "overwrite"}
    PROVE  JobState(r)' /\ OnlyOf(r)
<1>1. /\ pc'[r] = "item" /\ todo'[r] = Tail(todo[r])
      /\ \A q \in Req \ {r} : pc'[q] = pc[q] /\ todo'[q] = todo[q]
  BY DEF NextItem, Goto, JobInvariant, TypeOK
<1>2. /\ Len(Tail(todo[r])) = Len(todo[r]) - 1
      /\ \A n \in DOMAIN Tail(todo[r]) : Tail(todo[r])[n] = todo[r][n + 1] /\ n + 1 \in DOMAIN todo[r]
  BY NextOfJob
<1>3. /\ Len(todo[r]) \in Nat /\ Len(job[r]) \in Nat /\ Len(todo[r]) <= Len(job[r])
      /\ DOMAIN Tail(todo[r]) \subseteq Int
      /\ \A n \in DOMAIN todo[r] : todo[r][n] = job[r][Done(r) + n]
  BY DEF Works, JobInvariant, TypeOK
<1>4. Done(r)' = Done(r) + 1 /\ Len(todo'[r]) <= Len(job[r]) /\ Done(r) \in Int
  <2>1. PICK a, b : a = Len(job[r]) /\ b = Len(todo[r])
    OBVIOUS
  <2>2. a - (b - 1) = (a - b) + 1 /\ b - 1 <= a /\ a - b \in Int
    BY <1>3, <2>1
  <2>3. Len(job'[r]) = a /\ Len(todo'[r]) = b - 1
    BY <1>1, <1>2, <2>1
  <2>4. QED
    BY <2>1, <2>2, <2>3 DEF Done
<1>5. Recorded(r)' = Recorded(r)
  BY <1>1, <1>4 DEF Recorded
<1>6. \A n \in DOMAIN todo'[r] : todo'[r][n] = job[r][(Done(r) + 1) + n]
  <2>1. ASSUME NEW n \in DOMAIN Tail(todo[r]) PROVE Tail(todo[r])[n] = job[r][(Done(r) + 1) + n]
    <3>1. n \in Int /\ Done(r) + (n + 1) = (Done(r) + 1) + n
      BY <1>3, <1>4
    <3>2. QED
      BY <1>2, <1>3, <3>1
  <2>2. QED
    BY <1>1, <2>1
<1>7. Works(r)'
  BY <1>4, <1>5, <1>6 DEF Works
<1>8. QED
  BY <1>1, <1>7 DEF JobState, OnlyOf

\* A job begins with all its items to do.
LEMMA StateBegins ==
    ASSUME JobInvariant, NEW r \in Req, Begin(r)
    PROVE  JobState(r)' /\ OnlyOf(r)
<1>1. PICK j \in Jobs : job' = [job EXCEPT ![r] = j] /\ todo' = [todo EXCEPT ![r] = j]
  BY DEF Begin
<1>2. /\ job'[r] = j /\ todo'[r] = j /\ pc'[r] = "item" /\ moved' = moved
      /\ \A q \in Req \ {r} : pc'[q] = pc[q] /\ job'[q] = job[q] /\ todo'[q] = todo[q]
  BY <1>1 DEF Begin, Goto, JobInvariant, TypeOK
<1>3. moved[r] = Zero
  BY DEF Begin, JobInvariant, JobState, Rests
<1>4. j \in Seq(JobItem) \ {<<>>} /\ Len(j) \in Nat /\ DOMAIN j \subseteq Int
  BY JobAssumption
<1>5. Done(r)' = 0 /\ Recorded(r)' = 0
  BY <1>2, <1>4 DEF Done, Recorded
<1>6. \A k \in Key : moved'[r][k] = SumOver(OfKey(j, k), 1 .. 0)
  <2>1. 1 .. 0 = {}
    OBVIOUS
  <2>2. QED
    BY <1>2, <1>3, <2>1, NothingRecorded DEF Zero
<1>7. Works(r)'
  BY <1>2, <1>4, <1>5, <1>6 DEF Works
<1>8. QED
  BY <1>2, <1>7 DEF JobState, OnlyOf

\* The reconciliation begins with the rows to compare.
LEMMA StateCompares ==
    ASSUME JobInvariant, NEW r \in Req, GetAllCacheEntries(r)
    PROVE  JobState(r)' /\ OnlyOf(r)
<1>0. Cardinality(rows) \in Nat /\ Cardinality(rows) # 0
  <2>1. IsFiniteSet(rows) /\ rows # {}
    BY KeyAssumption, FS_Subset DEF GetAllCacheEntries, JobInvariant, TypeOK
  <2>2. QED
    BY <2>1, FS_CardinalityType, FS_EmptySet
<1>1. PICK order \in [1 .. Cardinality(rows) -> rows] :
        LET scan == [i \in DOMAIN order |-> [kind |-> "sum", key |-> order[i], qty |-> 0]]
        IN  job' = [job EXCEPT ![r] = scan] /\ todo' = [todo EXCEPT ![r] = scan]
  BY DEF GetAllCacheEntries
<1> DEFINE scan == [i \in 1 .. Cardinality(rows) |-> [kind |-> "sum", key |-> order[i], qty |-> 0]]
<1>2. /\ job'[r] = scan /\ todo'[r] = scan /\ pc'[r] = "item" /\ moved' = moved
      /\ \A q \in Req \ {r} : pc'[q] = pc[q] /\ job'[q] = job[q] /\ todo'[q] = todo[q]
  BY <1>1 DEF GetAllCacheEntries, Goto, JobInvariant, TypeOK
<1>3. moved[r] = Zero
  BY DEF GetAllCacheEntries, JobInvariant, JobState, Rests
<1>4. /\ \A n \in DOMAIN scan : scan[n].qty = 0 /\ scan[n].kind \in {"sum", "fix"}
      /\ 1 \in DOMAIN scan
  BY <1>0
<1>5. scan # <<>>
  BY <1>4
<1> HIDE DEF scan
<1>6. Compares(r)'
  BY <1>2, <1>3, <1>4, <1>5 DEF Compares
<1>7. QED
  BY <1>2, <1>6 DEF JobState, OnlyOf

\* It goes on comparing and correcting.
LEMMA StateComparesOn ==
    ASSUME JobInvariant, NEW r \in Req, SumLedger(r) \/ CorrectCacheRow(r)
    PROVE  JobState(r)' /\ OnlyOf(r)
<1>1. /\ pc[r] = "item" /\ todo[r] # <<>> /\ todo[r] \in Seq(Item)
      /\ Head(todo[r]).kind \in {"sum", "fix"} /\ JobState(r)
  BY DEF SumLedger, CorrectCacheRow, At, JobInvariant, TypeOK
<1>2. ~Works(r)
  <2>1. ASSUME Works(r) PROVE Head(todo[r]) \in JobItem
    BY <1>1, <2>1, NextOfJob
  <2>2. QED
    BY <1>1, <2>1 DEF JobItem, JobKinds, LockedKinds
<1>3. Compares(r)
  BY <1>1, <1>2 DEF JobState
<1> DEFINE fix == [kind |-> "fix", key |-> KeyOf(r), qty |-> ledger[KeyOf(r)]]
<1>4. /\ pc' [r] = "item" /\ job' = job /\ moved' = moved
      /\ todo'[r] \in {Tail(todo[r]), Append(Tail(todo[r]), fix)}
      /\ \A q \in Req \ {r} : pc'[q] = pc[q] /\ todo'[q] = todo[q]
  BY <1>1 DEF SumLedger, CorrectCacheRow, NextItem, Goto, JobInvariant, TypeOK
<1>5. \A n \in DOMAIN Tail(todo[r]) : Tail(todo[r])[n].kind \in {"sum", "fix"}
  <2>1. \A n \in DOMAIN Tail(todo[r]) : Tail(todo[r])[n] = todo[r][n + 1] /\ n + 1 \in DOMAIN todo[r]
    BY <1>1
  <2>2. QED
    BY <1>3, <2>1 DEF Compares
<1>6. \A n \in DOMAIN Append(Tail(todo[r]), fix) : Append(Tail(todo[r]), fix)[n].kind \in {"sum", "fix"}
  <2>1. Tail(todo[r]) \in Seq(Item) /\ fix.kind = "fix"
    BY <1>1
  <2> PICK t, x : t = Tail(todo[r]) /\ x = fix
    OBVIOUS
  <2> HIDE DEF fix
  <2>2. \A n \in DOMAIN Append(t, x) : IF n = Len(t) + 1 THEN Append(t, x)[n] = x
                                       ELSE Append(t, x)[n] = t[n] /\ n \in DOMAIN t
    BY <2>1
  <2>3. QED
    BY <1>5, <2>1, <2>2
<1>7. \A n \in DOMAIN todo'[r] : todo'[r][n].kind \in {"sum", "fix"}
  BY <1>4, <1>5, <1>6
<1>8. Compares(r)'
  BY <1>3, <1>4, <1>7 DEF Compares
<1>9. QED
  BY <1>4, <1>8 DEF JobState, OnlyOf

\* Every step keeps the state of every job.
LEMMA JobInductive == JobInvariant /\ [Next]_vars => JobInvariant'
<1> SUFFICES ASSUME JobInvariant, [Next]_vars PROVE JobInvariant'
  OBVIOUS
<1>a. TypeOK /\ TypeOK'
  BY TypeInductive DEF JobInvariant
<1> SUFFICES \A q \in Req : JobState(q)'
  BY <1>a DEF JobInvariant
<1> USE DEF tables, locks
<1>1. CASE UNCHANGED vars
  BY <1>1, StateKept DEF vars, JobInvariant
<1>2. ASSUME NEW r \in Req, Begin(r) \/ GetAllCacheEntries(r) PROVE \A q \in Req : JobState(q)'
  BY <1>2, StateBegins, StateCompares, OthersKept
<1>3. ASSUME NEW r \in Req, Commit(r) \/ Rollback(r) \/ Raise(r) PROVE \A q \in Req : JobState(q)'
  BY <1>3, EndedState, OthersKept DEF Commit, Rollback, Raise
<1>4. ASSUME NEW r \in Req, SumLedger(r) \/ CorrectCacheRow(r) PROVE \A q \in Req : JobState(q)'
  BY <1>4, StateComparesOn, OthersKept
<1>5. ASSUME NEW r \in Req,
             \/ LockStock(r) \/ ConsumeLayers(r) \/ AddLayer(r) \/ WriteOffLayers(r)
             \/ MissCacheRow(r)
      PROVE  \A q \in Req : JobState(q)'
  <2>1. PICK step \in {"layers", "movement", "insert"} :
           /\ Goto(r, step) /\ UNCHANGED <<job, todo, moved>>
           /\ step = "insert" <=> pc[r] = "cache"
           /\ pc[r] \in {"item", "layers", "cache"}
    BY <1>5 DEF LockStock, ConsumeLayers, AddLayer, WriteOffLayers, MissCacheRow, At
  <2>2. PICK from \in Steps \ {"idle"}, kinds \in SUBSET JobKinds : At(r, from, kinds)
    BY <1>5 DEF LockStock, ConsumeLayers, AddLayer, WriteOffLayers, MissCacheRow, Steps, JobKinds, LockedKinds
  <2>3. Works(r)
    BY <2>2, WorksAt
  <2>4. step \in Steps
    BY DEF Steps
  <2>5. JobState(r)' /\ OnlyOf(r)
    BY <2>1, <2>3, <2>4, StateWithin
  <2>6. QED
    BY <2>5, OthersKept
<1>6. ASSUME NEW r \in Req, WriteLedger(r) \/ ReadStock(r) PROVE \A q \in Req : JobState(q)'
  <2>1. PICK step \in {"cache", "insert", "overwrite"} :
           /\ Goto(r, step) /\ UNCHANGED <<job, todo>> /\ Move(r, KeyOf(r), QtyOf(r))
           /\ pc[r] \in {"item", "movement"} /\ todo[r] # <<>>
    BY <1>6 DEF WriteLedger, ReadStock, At
  <2>2. PICK from \in Steps \ {"idle"}, kinds \in SUBSET JobKinds : At(r, from, kinds)
    BY <1>6 DEF WriteLedger, ReadStock, Steps, JobKinds, LockedKinds
  <2>3. Works(r)
    BY <2>2, WorksAt
  <2>4. JobState(r)' /\ OnlyOf(r)
    BY <2>1, <2>3, StateRecords
  <2>5. QED
    BY <2>4, OthersKept
<1>7. ASSUME NEW r \in Req, UpdateCacheRow(r) \/ InsertCacheRow(r) \/ OverwriteCacheRow(r)
      PROVE  \A q \in Req : JobState(q)'
  <2>1. /\ NextItem(r) /\ UNCHANGED <<job, moved>>
        /\ pc[r] \in {"cache", "insert", "overwrite"} /\ todo[r] # <<>>
    BY <1>7 DEF UpdateCacheRow, InsertCacheRow, OverwriteCacheRow, At
  <2>2. PICK from \in Steps \ {"idle"}, kinds \in SUBSET JobKinds : At(r, from, kinds)
    BY <1>7 DEF UpdateCacheRow, InsertCacheRow, OverwriteCacheRow, Steps, JobKinds, LockedKinds
  <2>3. Works(r)
    BY <2>2, WorksAt
  <2>4. JobState(r)' /\ OnlyOf(r)
    BY <2>1, <2>3, StateEnds
  <2>5. QED
    BY <2>4, OthersKept
<1>8. QED
  BY <1>1, <1>2, <1>3, <1>4, <1>5, <1>6, <1>7 DEF Next, Step

\* Nobody has a job at first.
LEMMA InitJobInvariant == Init => JobInvariant
BY InitTypeOK DEF Init, JobInvariant, JobState, Rests

\* What a request that worked its job off has recorded is what its items add.
LEMMA JobRecorded ==
    ASSUME JobInvariant, NEW r \in Req, Commit(r)
    PROVE  job[r] # <<>> /\ \A k \in Key : moved[r][k] = Atomic!Net(job[r], k)
<1>1. pc[r] = "item" /\ todo[r] = <<>> /\ JobState(r) /\ job[r] \in Seq(Item)
  BY DEF Commit, JobInvariant, TypeOK
<1>2. DOMAIN job[r] = 1 .. Len(job[r]) /\ Len(job[r]) \in Nat
  BY <1>1
<1>3. CASE Works(r)
  <2>1. Recorded(r) = Len(job[r])
    BY <1>1, <1>2 DEF Recorded, Done
  <2>2. \A k \in Key : moved[r][k] = SumOver(OfKey(job[r], k), DOMAIN job[r])
    BY <1>2, <1>3, <2>1 DEF Works
  <2>3. QED
    BY <1>1, <1>3, <2>2, NetFolded DEF Works
<1>4. CASE Compares(r)
  <2>1. \A k : \A n \in DOMAIN job[r] : OfKey(job[r], k)[n] = 0
    BY <1>4 DEF Compares, OfKey
  <2>2. \A k : SumOver(OfKey(job[r], k), DOMAIN job[r]) = 0
    <3>1. IsFiniteSet(DOMAIN job[r])
      BY <1>2, FS_Interval
    <3>2. QED
      BY <2>1, <3>1, SumType
  <2>3. \A k \in Key : moved[r][k] = 0
    BY <1>4 DEF Compares, Zero
  <2>4. QED
    BY <1>1, <1>4, <2>2, <2>3, NetFolded DEF Compares
<1>5. QED
  BY <1>1, <1>3, <1>4 DEF JobState

\* A commit applies the job, a rollback refuses it, and nothing else is seen of a
\* request than that it was submitted.
LEMMA StepIsAtomic == JobInvariant /\ [Next]_vars => [Atomic!Next]_(Atomic!vars)
<1> SUFFICES ASSUME JobInvariant, [Next]_vars PROVE Atomic!Next \/ UNCHANGED Atomic!vars
  OBVIOUS
<1>a. TypeOK /\ TypeOK' /\ \A r \in Req : JobState(r)
  BY TypeInductive DEF JobInvariant
<1> USE DEF tables, locks
<1>1. CASE UNCHANGED vars
  BY <1>1 DEF vars, Atomic!vars
<1>2. ASSUME NEW r \in Req, Begin(r) \/ GetAllCacheEntries(r) PROVE Atomic!Next
  <2>1. job[r] = <<>> /\ UNCHANGED ledger
    BY <1>2, <1>a DEF Begin, GetAllCacheEntries, JobState, Rests
  <2>2. job'[r] # <<>> /\ pc'[r] = "item"
    <3>1. JobState(r)' /\ pc'[r] = "item"
      BY <1>2, <1>a, StateBegins, StateCompares DEF Begin, GetAllCacheEntries, Goto, TypeOK
    <3>2. QED
      BY <3>1 DEF JobState, Works, Compares
  <2>3. job' = [job EXCEPT ![r] = job'[r]]
    BY <1>2, <1>a DEF Begin, GetAllCacheEntries, TypeOK
  <2>4. job'[r] \in Seq(Item)
    BY <1>a DEF TypeOK
  <2>5. Atomic!Submit(r)
    BY <2>1, <2>2, <2>3, <2>4 DEF Atomic!Submit
  <2>6. QED
    BY <2>5 DEF Atomic!Next
<1>3. ASSUME NEW r \in Req, Commit(r) PROVE Atomic!Next
  <2>1. job[r] # <<>> /\ \A k \in Key : moved[r][k] = Atomic!Net(job[r], k)
    BY <1>3, JobRecorded
  <2>2. /\ job' = [job EXCEPT ![r] = <<>>]
        /\ ledger' = [k \in Key |-> ledger[k] + moved[r][k]]
    BY <1>3 DEF Commit, EndTransaction
  <2>3. Atomic!Apply(r)
    BY <2>1, <2>2 DEF Atomic!Apply, Atomic!Finish
  <2>4. QED
    BY <2>3 DEF Atomic!Next
<1>4. ASSUME NEW r \in Req, Rollback(r) \/ Raise(r) PROVE Atomic!Next
  <2>1. /\ job' = [job EXCEPT ![r] = <<>>] /\ UNCHANGED ledger /\ pc[r] # "idle"
    BY <1>4 DEF Rollback, Raise, EndTransaction
  <2>2. job[r] # <<>>
    BY <1>a, <2>1 DEF JobState, Works, Compares
  <2>3. Atomic!Refuse(r)
    BY <2>1, <2>2 DEF Atomic!Refuse, Atomic!Finish
  <2>4. QED
    BY <2>3 DEF Atomic!Next
<1>5. ASSUME NEW r \in Req,
             \/ LockStock(r) \/ ConsumeLayers(r) \/ AddLayer(r) \/ WriteOffLayers(r)
             \/ WriteLedger(r) \/ UpdateCacheRow(r) \/ MissCacheRow(r) \/ InsertCacheRow(r)
             \/ ReadStock(r) \/ OverwriteCacheRow(r) \/ SumLedger(r) \/ CorrectCacheRow(r)
      PROVE  UNCHANGED Atomic!vars
  BY <1>5 DEF LockStock, ConsumeLayers, AddLayer, WriteOffLayers, WriteLedger, UpdateCacheRow,
     MissCacheRow, InsertCacheRow, ReadStock, OverwriteCacheRow, SumLedger, CorrectCacheRow, Atomic!vars
<1>6. QED
  BY <1>1, <1>2, <1>3, <1>4, <1>5 DEF Next, Step

\* However requests interleave, wait, fail and are killed, each one is applied to
\* the ledger completely, in the one step of its commit, or not at all; the manual
\* adjustment and the reconciliation included (app/utils/ledger.py,
\* and the commits of the routers and services that call it).
THEOREM RequestsCommitWhole == Spec => RequestsAreAtomic
<1>1. Init => Atomic!Init
  BY DEF Init, Atomic!Init, Zero
<1>2. QED
  BY <1>1, InitJobInvariant, JobInductive, StepIsAtomic, PTL
     DEF Spec, RequestsAreAtomic, Atomic!Spec

-----------------------------------------------------------------------------
(* Sales and receipts deadlock only if their orders contradict each other. *)

\* A request holds the row of no key but those of the items it worked on.
HoldsWorked(r) ==
    \A k \in Key : cacheLock[k] = r =>
        /\ pc[r] # "idle"
        /\ \E m \in DOMAIN job[r] : m <= Done(r) + 1 /\ job[r][m].key = k

\* Whoever holds a key's layers holds its row.
LayersBehindRow(k) == layerLock[k] # NoReq => layerLock[k] = cacheLock[k]

\* What the proof of DeadlockNeedsDisorder carries.
DisorderInvariant ==
    /\ TradeInvariant
    /\ JobInvariant
    /\ \A r \in Req : HoldsWorked(r)
    /\ \A k \in Key : LayersBehindRow(k)

\* A request that takes no row keeps those it worked on.
LEMMA WorkedKept ==
    ASSUME JobInvariant, NEW q \in Req, HoldsWorked(q),
           pc[q] # "idle" => pc'[q] # "idle" /\ job'[q] = job[q] /\ Done(q)' >= Done(q) /\ Done(q)' \in Int,
           \A k \in Key : cacheLock'[k] = q => cacheLock[k] = q
    PROVE  HoldsWorked(q)'
<1>1. Done(q) \in Int /\ DOMAIN job[q] \subseteq Int
  <2>1. job[q] \in Seq(Item) /\ todo[q] \in Seq(Item)
    BY DEF JobInvariant, TypeOK
  <2>2. QED
    BY <2>1 DEF Done
<1>2. ASSUME NEW k \in Key, cacheLock'[k] = q
      PROVE  pc'[q] # "idle" /\ \E m \in DOMAIN job'[q] : m <= Done(q)' + 1 /\ job'[q][m].key = k
  <2>1. pc[q] # "idle"
    BY <1>2 DEF HoldsWorked
  <2>2. PICK m \in DOMAIN job[q] : m <= Done(q) + 1 /\ job[q][m].key = k
    BY <1>2 DEF HoldsWorked
  <2>3. m <= Done(q)' + 1
    <3>1. PICK a, b : a = Done(q) /\ b = Done(q)'
      OBVIOUS
    <3>2. m \in Int /\ a \in Int /\ b \in Int /\ a <= b /\ m <= a + 1
      BY <1>1, <2>1, <2>2, <3>1
    <3>3. m <= b + 1
      BY ONLY <3>2
    <3>4. QED
      BY <3>1, <3>3
  <2>4. QED
    BY <2>1, <2>2, <2>3
<1>3. QED
  BY <1>2 DEF HoldsWorked

\* Whoever takes the row of its item worked on that item.
LEMMA WorkedTaken ==
    ASSUME JobInvariant, NEW r \in Req, HoldsWorked(r), Works(r), todo[r] # <<>>,
           pc'[r] # "idle", job'[r] = job[r], Done(r)' >= Done(r), Done(r)' \in Int,
           \A k \in Key : cacheLock'[k] = r => cacheLock[k] = r \/ k = KeyOf(r)
    PROVE  HoldsWorked(r)'
<1>1. Done(r) \in Nat /\ Done(r) + 1 \in DOMAIN job[r] /\ KeyOf(r) = job[r][Done(r) + 1].key
      /\ job[r] \in Seq(Item)
  BY NextOfJob DEF KeyOf
<1>2. ASSUME NEW k \in Key, cacheLock'[k] = r
      PROVE  \E m \in DOMAIN job[r] : m <= Done(r)' + 1 /\ job[r][m].key = k
  <2>1. PICK m \in DOMAIN job[r] : m <= Done(r) + 1 /\ job[r][m].key = k
    <3>1. CASE cacheLock[k] = r
      BY <3>1 DEF HoldsWorked
    <3>2. CASE k = KeyOf(r)
      BY <1>1, <3>2
    <3>3. QED
      BY <1>2, <3>1, <3>2
  <2>2. PICK a, b : a = Done(r) /\ b = Done(r)'
    OBVIOUS
  <2>3. m \in Int /\ a \in Int /\ b \in Int /\ a <= b /\ m <= a + 1
    BY <1>1, <2>1, <2>2
  <2>4. m <= b + 1
    BY ONLY <2>3
  <2>5. QED
    BY <2>1, <2>2, <2>4
<1>3. QED
  BY <1>2 DEF HoldsWorked

\* One more item is done.
LEMMA OneMoreDone ==
    ASSUME JobInvariant, NEW r \in Req, todo[r] # <<>>, NextItem(r), job' = job
    PROVE  Done(r)' = Done(r) + 1 /\ Done(r) \in Int /\ pc'[r] = "item"
<1>1. /\ todo[r] \in Seq(Item) /\ job[r] \in Seq(Item) /\ todo'[r] = Tail(todo[r]) /\ pc'[r] = "item"
  BY DEF NextItem, Goto, JobInvariant, TypeOK
<1>2. PICK a, b : a = Len(job[r]) /\ b = Len(todo[r])
  OBVIOUS
<1>3. a \in Nat /\ b \in Nat /\ Len(Tail(todo[r])) = b - 1
  BY <1>1, <1>2
<1>4. a - (b - 1) = (a - b) + 1 /\ a - b \in Int
  BY <1>3
<1>5. QED
  BY <1>1, <1>2, <1>3, <1>4 DEF Done

\* The steps of sales and receipts that take or release rows.
LEMMA DisorderStep ==
    ASSUME DisorderInvariant, NEW r \in Req, OnlyOf(r), HoldsWorked(r)',
           \A k \in Key : \/ cacheLock'[k] = cacheLock[k]
                          \/ {cacheLock[k], cacheLock'[k]} \subseteq {NoReq, r},
           \A k \in Key : LayersBehindRow(k)'
    PROVE  (\A q \in Req : HoldsWorked(q)') /\ \A k \in Key : LayersBehindRow(k)'
<1>1. ASSUME NEW q \in Req \ {r} PROVE HoldsWorked(q)'
  <2>1. pc'[q] = pc[q] /\ job'[q] = job[q] /\ todo'[q] = todo[q]
    BY DEF OnlyOf
  <2>2. Done(q)' = Done(q) /\ Done(q) \in Int
    <3>1. job[q] \in Seq(Item) /\ todo[q] \in Seq(Item)
      BY DEF DisorderInvariant, JobInvariant, TypeOK
    <3>2. QED
      BY <2>1, <3>1 DEF Done
  <2>3. \A k \in Key : cacheLock'[k] = q => cacheLock[k] = q
    BY RequestAssumption
  <2>4. HoldsWorked(q) /\ JobInvariant
    BY DEF DisorderInvariant
  <2>5. QED
    BY <2>1, <2>2, <2>3, <2>4, WorkedKept
<1>2. QED
  BY <1>1

\* While only sales and receipts run, every step keeps both.
LEMMA DisorderInductive ==
    ASSUME Uses(TradeKinds)
    PROVE  DisorderInvariant /\ [Next]_vars => DisorderInvariant'
<1> SUFFICES ASSUME DisorderInvariant, [Next]_vars PROVE DisorderInvariant'
  OBVIOUS
<1>a. TradeInvariant' /\ JobInvariant'
  BY TradeInvariantInductive, JobInductive DEF DisorderInvariant
<1>b. /\ TradeInvariant /\ JobInvariant /\ TypeOK /\ (\A q \in Req : HoldsWorked(q))
      /\ \A k \in Key : LayersBehindRow(k)
  BY DEF DisorderInvariant, JobInvariant
<1> DEFINE Keeps == (\A q \in Req : HoldsWorked(q)') /\ \A k \in Key : LayersBehindRow(k)'
<1> SUFFICES Keeps
  BY <1>a DEF DisorderInvariant
<1> USE DEF tables, locks
<1>c. \A q \in Req : Done(q) \in Int
  <2>1. \A q \in Req : job[q] \in Seq(Item) /\ todo[q] \in Seq(Item)
    BY <1>b DEF TypeOK
  <2>2. QED
    BY <2>1 DEF Done
<1>1. CASE UNCHANGED vars
  BY <1>1, <1>b DEF vars, HoldsWorked, Done, LayersBehindRow
<1>2. ASSUME NEW r \in Req, Begin(r) PROVE Keeps
  <2>1. UNCHANGED locks /\ pc[r] = "idle" /\ OnlyOf(r)
    BY <1>2, <1>b, StateBegins DEF Begin
  <2>2. \A k \in Key : cacheLock[k] # r
    BY <1>b, <2>1 DEF HoldsWorked
  <2>3. HoldsWorked(r)' /\ \A k \in Key : LayersBehindRow(k)'
    BY <1>b, <2>1, <2>2 DEF HoldsWorked, LayersBehindRow
  <2>4. QED
    BY <2>1, <2>3, DisorderStep
<1>3. ASSUME NEW r \in Req, Commit(r) \/ Rollback(r) \/ Raise(r) PROVE Keeps
  <2>1. EndTransaction(r)
    BY <1>3 DEF Commit, Rollback, Raise
  <2>2. /\ cacheLock' = [k \in Key |-> IF cacheLock[k] = r THEN NoReq ELSE cacheLock[k]]
        /\ layerLock' = [k \in Key |-> IF layerLock[k] = r THEN NoReq ELSE layerLock[k]]
    BY <2>1 DEF EndTransaction
  <2>3. \A k \in Key : cacheLock'[k] # r
    BY <2>2, RequestAssumption
  <2>4. HoldsWorked(r)' /\ \A k \in Key : LayersBehindRow(k)'
    BY <1>b, <2>2, <2>3 DEF HoldsWorked, LayersBehindRow
  <2>5. OnlyOf(r)
    BY <1>b, <2>1, EndedState
  <2>6. QED
    BY <2>2, <2>4, <2>5, DisorderStep
<1>4. ASSUME NEW r \in Req, LockStock(r) PROVE Keeps
  <2>1. /\ todo[r] # <<>> /\ KeyOf(r) \in Key /\ CacheFree(r, KeyOf(r))
        /\ cacheLock' = [cacheLock EXCEPT ![KeyOf(r)] = r]
        /\ UNCHANGED <<layerLock, job, todo, moved>> /\ Goto(r, "layers")
        /\ At(r, "item", {"confirm_sale"})
    BY <1>4, <1>b, WorkedTradeItem DEF LockStock, TakeCache, At
  <2>2. Works(r)
    BY <1>b, <2>1, WorksAt DEF Steps, JobKinds, LockedKinds
  <2>3. OnlyOf(r) /\ pc'[r] = "layers" /\ Done(r)' = Done(r)
    BY <1>b, <2>1 DEF Goto, TypeOK, OnlyOf, Done
  <2>4. \A k \in Key : cacheLock'[k] = IF k = KeyOf(r) THEN r ELSE cacheLock[k]
    BY <1>b, <2>1 DEF TypeOK
  <2>5. HoldsWorked(r)'
    BY <1>b, <1>c, <2>1, <2>2, <2>3, <2>4, WorkedTaken
  <2>6. \A k \in Key : LayersBehindRow(k)'
    BY <1>b, <2>1, <2>4 DEF LayersBehindRow, CacheFree
  <2>7. QED
    BY <2>1, <2>3, <2>4, <2>5, <2>6, DisorderStep DEF CacheFree
<1>5. ASSUME NEW r \in Req, UpdateCacheRow(r) \/ InsertCacheRow(r) PROVE Keeps
  <2>1. /\ todo[r] # <<>> /\ KeyOf(r) \in Key /\ CacheFree(r, KeyOf(r))
        /\ cacheLock' = [cacheLock EXCEPT ![KeyOf(r)] = r]
        /\ UNCHANGED <<layerLock, job, moved>> /\ NextItem(r)
        /\ At(r, "cache", LockedKinds) \/ At(r, "insert", JobKinds)
    BY <1>5, <1>b, WorkedTradeItem DEF UpdateCacheRow, InsertCacheRow, TakeCache, At
  <2>2. Works(r)
    BY <1>b, <2>1, WorksAt DEF Steps, JobKinds
  <2>3. /\ Done(r)' = Done(r) + 1 /\ pc'[r] = "item" /\ job'[r] = job[r]
        /\ Done(r)' >= Done(r) /\ Done(r)' \in Int
    BY <1>b, <1>c, <2>1, OneMoreDone
  <2>4. \A k \in Key : cacheLock'[k] = IF k = KeyOf(r) THEN r ELSE cacheLock[k]
    BY <1>b, <2>1 DEF TypeOK
  <2>5. HoldsWorked(r)'
    BY <1>b, <2>1, <2>2, <2>3, <2>4, WorkedTaken
  <2>6. \A k \in Key : LayersBehindRow(k)'
    BY <1>b, <2>1, <2>4 DEF LayersBehindRow, CacheFree
  <2>7. OnlyOf(r)
    BY <1>b, <2>1 DEF NextItem, Goto, TypeOK, OnlyOf
  <2>8. QED
    BY <2>1, <2>4, <2>5, <2>6, <2>7, DisorderStep DEF CacheFree
<1>6. ASSUME NEW r \in Req,
             ConsumeLayers(r) \/ AddLayer(r) \/ WriteLedger(r) \/ MissCacheRow(r)
      PROVE  Keeps
  <2>1. /\ UNCHANGED <<cacheLock, job, todo>> /\ pc[r] # "idle" /\ pc'[r] # "idle"
        /\ \A q \in Req \ {r} : pc'[q] = pc[q] /\ moved'[q] = moved[q]
    BY <1>6, <1>b DEF ConsumeLayers, AddLayer, WriteLedger, MissCacheRow, At, Goto, Move, TypeOK
  <2>2. OnlyOf(r) /\ Done(r)' = Done(r)
    BY <2>1 DEF OnlyOf, Done
  <2>3. HoldsWorked(r)'
    BY <1>b, <1>c, <2>1, <2>2, WorkedKept
  <2>4. \A k \in Key : LayersBehindRow(k)'
    <3>1. CASE ConsumeLayers(r)
      <4>1. cacheLock[KeyOf(r)] = r
        BY <1>b, <3>1 DEF TradeInvariant, SaleHoldsRow, ConsumeLayers, At
      <4>2. layerLock' \in {layerLock, [layerLock EXCEPT ![KeyOf(r)] = r]}
        BY <3>1 DEF ConsumeLayers, TakeLayers
      <4>3. QED
        BY <1>b, <2>1, <4>1, <4>2 DEF LayersBehindRow, TypeOK
    <3>2. CASE AddLayer(r) \/ WriteLedger(r) \/ MissCacheRow(r)
      BY <1>b, <2>1, <3>2 DEF AddLayer, WriteLedger, MissCacheRow, LayersBehindRow
    <3>3. QED
      BY <1>6, <3>1, <3>2
  <2>5. QED
    BY <2>1, <2>2, <2>3, <2>4, DisorderStep
<1>7. \A r \in Req : /\ ~GetAllCacheEntries(r) /\ ~ReadStock(r) /\ ~OverwriteCacheRow(r)
                     /\ ~SumLedger(r) /\ ~CorrectCacheRow(r) /\ ~WriteOffLayers(r)
  <2>1. \A r \in Req : todo[r] # <<>> => Head(todo[r]).kind \in {"confirm_sale", "receive_goods"}
    BY <1>b, WorkedTradeItem DEF TradeKinds
  <2>2. QED
    BY <2>1 DEF GetAllCacheEntries, Uses, ReadStock, OverwriteCacheRow, SumLedger, CorrectCacheRow,
       WriteOffLayers, At
<1>8. QED
  BY <1>1, <1>2, <1>3, <1>4, <1>5, <1>6, <1>7 DEF Next, Step

\* At first no row is held.
LEMMA InitDisorder == Init => DisorderInvariant
BY InitTradeInvariant, InitJobInvariant, RequestAssumption
   DEF Init, DisorderInvariant, HoldsWorked, LayersBehindRow

\* Whoever is waited for, and waits, has a key that it worked on before the one
\* it waits for.
LEMMA WaitsInOrder ==
    ASSUME DisorderInvariant, NEW s \in Req, NEW q \in WaitsFor(s)
    PROVE  /\ q \in Req /\ KeyOf(s) \in Key /\ cacheLock[KeyOf(s)] = q /\ q # s
           /\ \A k \in Key : cacheLock[k] = s => Before(s, k, KeyOf(s))
<1>a. TradeInvariant /\ JobInvariant /\ HoldsWorked(s) /\ \A k \in Key : LayersBehindRow(k)
  BY DEF DisorderInvariant
<1>1. q \in Req /\ q # s /\ todo[s] # <<>> /\ KeyOf(s) \in Key
      /\ Head(todo[s]).kind \in {"confirm_sale", "receive_goods"}
  <2>1. q \in Req /\ q # s /\ todo[s] # <<>>
    BY DEF WaitsFor, WantsCache, WantsLayers, At
  <2>2. QED
    BY <1>a, <2>1, WorkedTradeItem DEF TradeKinds
<1>2. cacheLock[KeyOf(s)] = q
  <2>1. CASE WantsLayers(s) /\ layerLock[KeyOf(s)] = q
    <3>1. q # NoReq
      BY <1>1, RequestAssumption
    <3>2. QED
      BY <1>1, <1>a, <2>1, <3>1 DEF LayersBehindRow
  <2>2. QED
    BY <2>1 DEF WaitsFor
<1>3. PICK step \in Steps \ {"idle"} : At(s, step, {"confirm_sale", "receive_goods"})
  <2>1. pc[s] # "idle" /\ pc[s] \in Steps
    BY <1>a DEF WaitsFor, WantsCache, WantsLayers, At, JobInvariant, TypeOK
  <2>2. QED
    BY <1>1, <2>1 DEF At
<1>4. Works(s)
  BY <1>a, <1>3, WorksAt DEF JobKinds, LockedKinds
<1>5. Done(s) \in Nat /\ Done(s) + 1 \in DOMAIN job[s] /\ KeyOf(s) = job[s][Done(s) + 1].key
      /\ job[s] \in Seq(Item)
  BY <1>a, <1>1, <1>4, NextOfJob DEF KeyOf
<1>6. ASSUME NEW k \in Key, cacheLock[k] = s PROVE Before(s, k, KeyOf(s))
  <2>1. k # KeyOf(s)
    BY <1>1, <1>2, <1>6
  <2>2. PICK m \in DOMAIN job[s] : m <= Done(s) + 1 /\ job[s][m].key = k
    BY <1>6, <1>a DEF HoldsWorked
  <2>3. m # Done(s) + 1
    BY <1>5, <2>1, <2>2
  <2>4. m < Done(s) + 1
    BY <1>5, <2>2, <2>3
  <2>5. QED
    BY <1>5, <2>1, <2>2, <2>4 DEF Before
<1>7. QED
  BY <1>1, <1>2, <1>6

\* In a finite set each of whose members comes after another there are some each
\* of which comes before another of them.
LEMMA NoBottomNoTop ==
    ASSUME NEW T, IsFiniteSet(T), T # {}, NEW R,
           \A k \in T : \E j \in T : <<j, k>> \in R
    PROVE  \E S \in (SUBSET T) \ {{}} : \A k \in S : \E l \in S : <<k, l>> \in R
<1> SUFFICES ASSUME ~ \E S \in (SUBSET T) \ {{}} : \A k \in S : \E l \in S : <<k, l>> \in R
             PROVE  FALSE
  OBVIOUS
<1> DEFINE X == {U \in SUBSET T : U = {} \/ \E k \in U : \A j \in U : <<j, k>> \notin R}
<1>1. ASSUME NEW U \in SUBSET T, \A x \in U : U \ {x} \in X PROVE U \in X
  <2>1. SUFFICES ASSUME U # {}, \A k \in U : \E j \in U : <<j, k>> \in R PROVE FALSE
    OBVIOUS
  <2>2. PICK k \in U : \A l \in U : <<k, l>> \notin R
    BY <2>1
  <2>3. \A i \in U : \E j \in U \ {k} : <<j, i>> \in R
    BY <2>1, <2>2
  <2>4. U \ {k} # {} /\ U \ {k} \in X
    BY <1>1, <2>2, <2>3
  <2>5. QED
    BY <2>3, <2>4
<1> HIDE DEF X
<1>2. \A U \in SUBSET T : U \in X
  BY <1>1, SubsetInduction
<1>3. QED
  BY <1>2 DEF X

\* Sales and receipts deadlock only if the orders in which they list their parts
\* contradict each other: with one common order of the parts no transaction is
\* ever aborted (app/services/sales_service.py and app/services/purchase_service.py
\* take the rows in the order of the lines).
THEOREM DeadlocksNeedDisorder ==
    ASSUME Uses(TradeKinds)
    PROVE  Spec => []DeadlockNeedsDisorder
<1>1. ASSUME DisorderInvariant PROVE DeadlockNeedsDisorder
  <2> SUFFICES ASSUME NEW r \in Req, Deadlocked(r)
               PROVE  \E S \in (SUBSET Key) \ {{}} :
                         \A k \in S : \E l \in S, q \in Req : Before(q, k, l)
    BY DEF DeadlockNeedsDisorder
  <2>1. PICK D \in SUBSET Req : r \in D /\ D = UNION {WaitsFor(s) : s \in D}
    BY DEF Deadlocked
  <2> DEFINE T == {k \in Key : \E s \in D : KeyOf(s) = k /\ WaitsFor(s) # {}}
             R == {p \in Key \X Key : \E q \in Req : Before(q, p[1], p[2])}
  <2>2. IsFiniteSet(T)
    BY KeyAssumption, FS_Subset
  <2>3. ASSUME NEW q \in D PROVE \E k \in T : cacheLock[k] = q
    <3>1. PICK s \in D : q \in WaitsFor(s)
      BY <2>1
    <3>2. KeyOf(s) \in Key /\ cacheLock[KeyOf(s)] = q
      BY <1>1, <3>1, WaitsInOrder
    <3>3. QED
      BY <3>1, <3>2
  <2>4. ASSUME NEW k \in T PROVE \E j \in T : <<j, k>> \in R
    <3>1. PICK s \in D : KeyOf(s) = k /\ WaitsFor(s) # {}
      OBVIOUS
    <3>2. PICK j \in T : cacheLock[j] = s
      BY <2>3
    <3>3. Before(s, j, k)
      BY <1>1, <3>1, <3>2, WaitsInOrder
    <3>4. <<j, k>> \in R
      BY <3>3
    <3>5. QED
      BY <3>4
  <2>5. T # {}
    BY <2>1, <2>3
  <2>6. T \subseteq Key /\ \A j, k : <<j, k>> \in R => \E q \in Req : Before(q, j, k)
    OBVIOUS
  <2> HIDE DEF T, R
  <2>7. PICK S \in (SUBSET T) \ {{}} : \A k \in S : \E l \in S : <<k, l>> \in R
    BY <2>2, <2>4, <2>5, NoBottomNoTop
  <2>8. QED
    BY <2>6, <2>7
<1>2. QED
  BY <1>1, InitDisorder, DisorderInductive, PTL DEF Spec

=============================================================================
