----------------------------- MODULE TransferProofs -----------------------------
(***************************************************************************)
(* Theorems about Transfers, for every set of requests, transfers and      *)
(* locations, while no two requests work on the same transfer.             *)
(***************************************************************************)
EXTENDS Transfers, TLAPS

\* What is known of the transfer a running request works on.
LEMMA WorkedTransfer ==
    ASSUME TransferInvariant, NEW r \in Req, pc[r] # "idle"
    PROVE  /\ doc[r] \in Transfer
           /\ Allowed(op[r], status[doc[r]])
           /\ read[r].status = status[doc[r]]
           /\ read[r].consumed = consumed[doc[r]]
           /\ Quantity[doc[r]] \in Nat \ {0}
           /\ Source[doc[r]] \in Location
           /\ Destination[doc[r]] \in Location
           /\ Source[doc[r]] # Destination[doc[r]]
BY RouteAssumption, QuantityAssumption DEF TransferInvariant, TypeOK, ReadIsCurrent

\* Ending a transaction keeps the types of everything it resets.
LEMMA EndKeepsTypes ==
    ASSUME TypeOK, NEW r \in Req, EndTransaction(r)
    PROVE  /\ stockLock' \in [Location -> Req \cup {NoReq}]
           /\ rowLock' \in [Transfer -> Req \cup {NoReq}]
           /\ pc' \in [Req -> {"idle", "stock", "row", "commit"}]
           /\ op' \in [Req -> Ops]
           /\ doc' \in [Req -> Transfer \cup {NoTransfer}]
           /\ read' \in [Req -> Object]
           /\ \A s \in Req : pc'[s] # "idle" => doc'[s] \in Transfer
BY DEF TypeOK, EndTransaction, Goto, Ops, Object, NoObject, Status

\* The units a request moves are an integer, at a location.
LEMMA UnitsType ==
    ASSUME TypeOK, NEW r \in Req, pc[r] # "idle"
    PROVE  Units(r) \in Int /\ Place(r) \in Location
<1>1. doc[r] \in Transfer /\ read[r].consumed \in Nat
  BY DEF TypeOK, Object
<1>. QED
  BY <1>1, RouteAssumption, QuantityAssumption DEF Units, Place

LEMMA TypeInductive == TypeOK /\ [Next]_vars => TypeOK'
<1> SUFFICES ASSUME TypeOK, [Next]_vars PROVE TypeOK'
  OBVIOUS
<1>1. CASE UNCHANGED vars
  BY <1>1 DEF TypeOK, vars
<1>2. ASSUME NEW r \in Req, NEW o \in Ops, NEW t \in Transfer, GetTransfer(r, o, t)
      PROVE  TypeOK'
  <2>1. [status |-> status[t], consumed |-> consumed[t]] \in Object
    BY DEF TypeOK, Object
  <2>2. PICK step \in {"stock", "row"} : Goto(r, step)
    BY <1>2 DEF GetTransfer
  <2>. QED
    BY <1>2, <2>1, <2>2 DEF GetTransfer, TypeOK, Goto, tables
<1>3. ASSUME NEW r \in Req, MoveStock(r) PROVE TypeOK'
  BY <1>3 DEF MoveStock, TypeOK, Goto, tables
<1>4. ASSUME NEW r \in Req, UpdateTransfer(r) PROVE TypeOK'
  BY <1>4 DEF UpdateTransfer, TypeOK, Goto, tables
<1>5. ASSUME NEW r \in Req, Commit(r) PROVE TypeOK'
  <2>1. doc[r] \in Transfer /\ Quantity[doc[r]] \in Nat /\ op[r] \in Ops
    BY <1>5, QuantityAssumption DEF TypeOK, Commit
  <2>2. NewStatus(op[r]) \in Status
    BY <2>1 DEF NewStatus, Ops, Status
  <2>3. status' \in [Transfer -> Status] /\ consumed' \in [Transfer -> Nat]
    BY <1>5, <2>1, <2>2 DEF Commit, TypeOK
  <2>4. Units(r) \in Int /\ Place(r) \in Location
    BY <1>5, UnitsType DEF Commit
  <2>5. stock' \in [Location -> Int] /\ booked' \in [Transfer -> [Location -> Int]]
    BY <1>5, <2>1, <2>4 DEF Commit, TypeOK
  <2>. QED
    BY <1>5, <2>3, <2>5, EndKeepsTypes DEF Commit, TypeOK
<1>6. ASSUME NEW r \in Req, Rollback(r) PROVE TypeOK'
  BY <1>6, EndKeepsTypes DEF Rollback, TypeOK, tables
<1>. QED
  BY <1>1, <1>2, <1>3, <1>4, <1>5, <1>6 DEF Next

LEMMA InitTypeOK == Init => TypeOK
BY QuantityAssumption DEF Init, TypeOK, Status, Ops, Object, NoObject

\* The model is well typed for every constant, races included.
THEOREM TypeCorrect == Spec => []TypeOK
BY InitTypeOK, TypeInductive, PTL DEF Spec

-----------------------------------------------------------------------------
(* The stock of a location.                                                *)

\* A request other than r keeps the stock it holds when r ends.
LEMMA EndKeepsHolds ==
    ASSUME StockInvariant, NEW r \in Req, EndTransaction(r),
           \A l \in Location : stockLock[l] # r => stock'[l] = stock[l]
    PROVE  \A s \in Req : HoldsStock(s)'
<1> SUFFICES ASSUME NEW s \in Req, pc'[s] \in {"row", "commit"}, Moves(s)'
             PROVE  stockLock'[Place(s)'] = s /\ stock'[Place(s)'] + Units(s)' >= 0
  BY DEF HoldsStock
<1>1. s # r
  BY DEF EndTransaction, Goto, StockInvariant, TypeOK
<1>2. /\ pc'[s] = pc[s] /\ op'[s] = op[s] /\ doc'[s] = doc[s] /\ read'[s] = read[s]
  BY <1>1 DEF EndTransaction, Goto, StockInvariant, TypeOK
<1>3. Moves(s) /\ Place(s)' = Place(s) /\ Units(s)' = Units(s)
  BY <1>2 DEF Moves, Place, Units
<1>4. Place(s) \in Location
  BY <1>2, UnitsType DEF StockInvariant
<1>5. stockLock[Place(s)] = s /\ stock[Place(s)] + Units(s) >= 0
  BY <1>2, <1>3 DEF StockInvariant, HoldsStock
<1>. QED
  BY <1>1, <1>3, <1>4, <1>5 DEF EndTransaction

LEMMA StockInvariantInductive == StockInvariant /\ [Next]_vars => StockInvariant'
<1> SUFFICES ASSUME StockInvariant, [Next]_vars PROVE StockInvariant'
  OBVIOUS
<1>. TypeOK /\ TypeOK'
  BY TypeInductive DEF StockInvariant
<1>1. CASE UNCHANGED vars
  BY <1>1 DEF vars, tables, StockInvariant, NeverOverdrawn, HoldsStock, Moves, Place, Units
<1>2. ASSUME NEW r \in Req, NEW o \in Ops, NEW t \in Transfer, GetTransfer(r, o, t)
      PROVE  StockInvariant'
  <2>1. \A s \in Req \ {r} : /\ pc'[s] = pc[s] /\ op'[s] = op[s]
                              /\ doc'[s] = doc[s] /\ read'[s] = read[s]
    BY <1>2 DEF GetTransfer, Goto, TypeOK
  <2>2. pc'[r] \in {"row", "commit"} => ~Moves(r)'
    BY <1>2 DEF GetTransfer, Goto, TypeOK, Moves
  <2>3. ASSUME NEW s \in Req \ {r} PROVE HoldsStock(s)'
    BY <1>2, <2>1, <2>3 DEF GetTransfer, tables, StockInvariant, HoldsStock, Moves, Place, Units
  <2>4. HoldsStock(r)'
    BY <2>2 DEF HoldsStock
  <2>. QED
    BY <1>2, <2>3, <2>4 DEF GetTransfer, tables, StockInvariant, NeverOverdrawn
<1>3. ASSUME NEW r \in Req, MoveStock(r) PROVE StockInvariant'
  <2>1. Place(r) \in Location
    BY <1>3, UnitsType DEF MoveStock
  <2>2. /\ UNCHANGED <<stock, read, op, doc>>
        /\ \A s \in Req \ {r} : pc'[s] = pc[s]
        /\ stockLock[Place(r)] = NoReq /\ stock[Place(r)] + Units(r) >= 0
        /\ stockLock' = [stockLock EXCEPT ![Place(r)] = r]
    BY <1>3 DEF MoveStock, Goto, TypeOK, tables
  <2>3. \A s \in Req : Moves(s)' = Moves(s) /\ Place(s)' = Place(s) /\ Units(s)' = Units(s)
    BY <2>2 DEF Moves, Place, Units
  <2>4. HoldsStock(r)'
    BY <2>1, <2>2, <2>3 DEF HoldsStock, TypeOK
  <2>5. ASSUME NEW s \in Req \ {r} PROVE HoldsStock(s)'
    <3>1. pc[s] # "idle" => Place(s) \in Location
      BY UnitsType
    <3>. QED
      BY <2>2, <2>3, <3>1, NobodyAssumption DEF HoldsStock, StockInvariant, TypeOK
  <2>. QED
    BY <2>2, <2>4, <2>5 DEF StockInvariant, NeverOverdrawn
<1>4. ASSUME NEW r \in Req, UpdateTransfer(r) PROVE StockInvariant'
  BY <1>4
  DEF UpdateTransfer, Goto, TypeOK, tables, StockInvariant, NeverOverdrawn, HoldsStock,
      Moves, Place, Units
<1>5. ASSUME NEW r \in Req, Commit(r) PROVE StockInvariant'
  <2>1. Units(r) \in Int /\ Place(r) \in Location /\ EndTransaction(r)
    BY <1>5, UnitsType DEF Commit
  <2>2. CASE Moves(r)
    <3>1. stock' = [stock EXCEPT ![Place(r)] = @ + Units(r)]
      BY <1>5, <2>2 DEF Commit
    <3>2. stockLock[Place(r)] = r /\ stock[Place(r)] + Units(r) >= 0
      BY <1>5, <2>2 DEF Commit, StockInvariant, HoldsStock
    <3>3. NeverOverdrawn'
      BY <2>1, <3>1, <3>2 DEF StockInvariant, NeverOverdrawn, TypeOK
    <3>4. \A l \in Location : stockLock[l] # r => stock'[l] = stock[l]
      BY <2>1, <3>1, <3>2 DEF TypeOK
    <3>. QED
      BY <2>1, <3>3, <3>4, EndKeepsHolds DEF StockInvariant
  <2>3. CASE ~Moves(r)
    BY <1>5, <2>1, <2>3, EndKeepsHolds DEF Commit, StockInvariant, NeverOverdrawn
  <2>. QED
    BY <2>2, <2>3
<1>6. ASSUME NEW r \in Req, Rollback(r) PROVE StockInvariant'
  BY <1>6, EndKeepsHolds DEF Rollback, tables, StockInvariant, NeverOverdrawn
<1>. QED
  BY <1>1, <1>2, <1>3, <1>4, <1>5, <1>6 DEF Next

\* However the requests for one transfer race, no approval takes more than the
\* source has: the stock is checked under the lock it is moved under.
THEOREM StockIsNeverOverdrawn == Spec => []NeverOverdrawn
<1>1. Init => StockInvariant
  BY InitTypeOK, QuantityAssumption DEF Init, StockInvariant, NeverOverdrawn, HoldsStock
<1>2. StockInvariant => NeverOverdrawn
  BY DEF StockInvariant
<1>. QED
  BY <1>1, <1>2, StockInvariantInductive, PTL DEF Spec

-----------------------------------------------------------------------------
(* A commit is a step of the lifecycle.                                    *)

\* The four commits: what each does to the state and the books.
LEMMA CommitIsStep ==
    ASSUME TransferInvariant, NEW r \in Req, Commit(r)
    PROVE  Lifecycle!Next
<1> DEFINE t == doc[r]
<1>1. /\ t \in Transfer
      /\ Allowed(op[r], status[t])
      /\ read[r].status = status[t]
      /\ read[r].consumed = consumed[t]
      /\ Quantity[t] \in Nat
  BY WorkedTransfer DEF Commit
<1>2. status' = [status EXCEPT ![t] = NewStatus(op[r])]
  BY DEF Commit
<1>3. Moves(r) => booked' = [booked EXCEPT ![t][Place(r)] = @ + Units(r)]
  BY DEF Commit
<1>4. ~Moves(r) => UNCHANGED booked
  BY DEF Commit
<1>5. status[t] = "IN_TRANSIT" => consumed[t] = Quantity[t]
  BY <1>1 DEF TransferInvariant
<1>6. CASE op[r] = "create"
  BY <1>1, <1>2, <1>4, <1>6
  DEF Allowed, NewStatus, Moves, MovesStock, Lifecycle!Next, Lifecycle!Create, Lifecycle!Become
<1>7. CASE op[r] = "approve"
  BY <1>1, <1>2, <1>3, <1>7
  DEF Allowed, NewStatus, Moves, MovesStock, Place, Units, Lifecycle!Next,
      Lifecycle!Approve, Lifecycle!Become, Lifecycle!Book
<1>8. CASE op[r] = "receive"
  BY <1>1, <1>2, <1>3, <1>5, <1>8
  DEF Allowed, NewStatus, Moves, MovesStock, Place, Units, Lifecycle!Next,
      Lifecycle!Receive, Lifecycle!Become, Lifecycle!Book
<1>9. CASE op[r] = "cancel"
  <2>1. status[t] \in {"PENDING", "IN_TRANSIT"}
    BY <1>1, <1>9 DEF Allowed, TransferInvariant, TypeOK, Status
  <2>2. CASE status[t] = "PENDING"
    BY <1>1, <1>2, <1>4, <1>9, <2>2
    DEF NewStatus, Moves, MovesStock, Lifecycle!Next, Lifecycle!Cancel, Lifecycle!Become
  <2>3. CASE status[t] = "IN_TRANSIT"
    BY <1>1, <1>2, <1>3, <1>5, <1>9, <2>3
    DEF NewStatus, Moves, MovesStock, Place, Units, Lifecycle!Next, Lifecycle!Cancel,
        Lifecycle!Become, Lifecycle!Book
  <2>. QED
    BY <2>1, <2>2, <2>3
<1>. QED
  BY <1>1, <1>6, <1>7, <1>8, <1>9 DEF Allowed

\* The books of the lifecycle stand for its states.
LEMMA StepKeepsBooks ==
    ASSUME TypeOK, TransferBooked, Lifecycle!Next
    PROVE  TransferBooked'
<1>1. PICK t \in Transfer : \/ Lifecycle!Create(t) \/ Lifecycle!Approve(t)
                            \/ Lifecycle!Receive(t) \/ Lifecycle!Cancel(t)
  BY DEF Lifecycle!Next
<1>2. /\ Source[t] \in Location /\ Destination[t] \in Location
      /\ Source[t] # Destination[t] /\ Quantity[t] \in Nat
  BY RouteAssumption, QuantityAssumption
<1>3. booked[t] = Books(t, status[t])
  BY DEF TransferBooked
<1>4. \A s \in Transfer \ {t} : status'[s] = status[s] /\ booked'[s] = booked[s]
  BY <1>1
  DEF Lifecycle!Create, Lifecycle!Approve, Lifecycle!Receive, Lifecycle!Cancel,
      Lifecycle!Become, Lifecycle!Book, TypeOK
<1>5. booked'[t] = Books(t, status'[t])
  <2>1. CASE Lifecycle!Create(t)
    BY <1>3, <2>1 DEF Lifecycle!Create, Lifecycle!Become, Books, TypeOK
  <2>2. CASE Lifecycle!Approve(t)
    BY <1>2, <1>3, <2>2 DEF Lifecycle!Approve, Lifecycle!Become, Lifecycle!Book, Books, TypeOK
  <2>3. CASE Lifecycle!Receive(t)
    BY <1>2, <1>3, <2>3 DEF Lifecycle!Receive, Lifecycle!Become, Lifecycle!Book, Books, TypeOK
  <2>4. CASE Lifecycle!Cancel(t)
    <3>1. status'[t] = "CANCELLED" /\ Books(t, status'[t]) = [l \in Location |-> 0]
      BY <2>4 DEF Lifecycle!Cancel, Lifecycle!Become, Books, TypeOK
    <3>2. CASE status[t] = "PENDING" /\ UNCHANGED booked
      BY <1>3, <3>1, <3>2 DEF Books
    <3>3. CASE status[t] = "IN_TRANSIT" /\ Lifecycle!Book(t, Source[t], Quantity[t])
      <4>1. booked[t] = [l \in Location |-> IF l = Source[t] THEN -Quantity[t] ELSE 0]
        BY <1>3, <3>3 DEF Books
      <4>2. booked'[t] = [booked[t] EXCEPT ![Source[t]] = @ + Quantity[t]]
        BY <3>3 DEF Lifecycle!Book, TypeOK
      <4>. QED
        BY <1>2, <3>1, <4>1, <4>2
    <3>. QED
      BY <2>4, <3>2, <3>3 DEF Lifecycle!Cancel
  <2>. QED
    BY <1>1, <2>1, <2>2, <2>3, <2>4
<1>. QED
  BY <1>3, <1>4, <1>5 DEF TransferBooked, Books

-----------------------------------------------------------------------------
(* The invariant.                                                          *)

\* A step that leaves the tables alone and reads nothing keeps it.
LEMMA QuietStep ==
    ASSUME TransferInvariant, TypeOK', UNCHANGED <<tables, op, doc, read>>,
           \A s \in Req : (pc'[s] = "idle") <=> (pc[s] = "idle")
    PROVE  TransferInvariant'
BY DEF TransferInvariant, TransferBooked, Books, ReadIsCurrent, tables

\* What ending a transaction leaves of the sessions.
LEMMA EndOfSession ==
    ASSUME TypeOK, NEW r \in Req, EndTransaction(r)
    PROVE  /\ pc'[r] = "idle" /\ doc'[r] = NoTransfer
           /\ \A s \in Req \ {r} : /\ pc'[s] = pc[s] /\ op'[s] = op[s]
                                  /\ doc'[s] = doc[s] /\ read'[s] = read[s]
BY DEF TypeOK, EndTransaction, Goto

LEMMA TransferInvariantInductive ==
    ASSUME OneAtATime
    PROVE  TransferInvariant /\ [Next]_vars => TransferInvariant'
<1> SUFFICES ASSUME TransferInvariant, [Next]_vars PROVE TransferInvariant'
  OBVIOUS
<1>. TypeOK /\ TypeOK'
  BY TypeInductive DEF TransferInvariant
<1>1. CASE UNCHANGED vars
  BY <1>1, QuietStep DEF vars, tables
<1>2. ASSUME NEW r \in Req, NEW o \in Ops, NEW t \in Transfer, GetTransfer(r, o, t)
      PROVE  TransferInvariant'
  <2>1. UNCHANGED tables /\ TransferBooked'
    BY <1>2 DEF GetTransfer, TransferInvariant, TransferBooked, Books, tables
  <2>2. /\ op'[r] = o /\ doc'[r] = t /\ pc'[r] # "idle"
        /\ read'[r] = [status |-> status[t], consumed |-> consumed[t]]
        /\ Allowed(o, status[t])
    BY <1>2 DEF GetTransfer, Goto, TypeOK
  <2>3. \A s \in Req \ {r} : /\ pc'[s] = pc[s] /\ op'[s] = op[s] /\ doc'[s] # t
                              /\ doc'[s] = doc[s] /\ read'[s] = read[s]
    BY <1>2 DEF GetTransfer, Goto, TypeOK
  <2>4. \A s \in Req : ReadIsCurrent(s)' /\ (pc'[s] = "idle" => doc'[s] = NoTransfer)
    BY <2>1, <2>2, <2>3 DEF TransferInvariant, ReadIsCurrent, tables, Allowed
  <2>5. \A q, s \in Req : q # s /\ doc'[q] = doc'[s] => doc'[q] = NoTransfer
    BY <2>2, <2>3 DEF TransferInvariant
  <2>6. \A s \in Transfer : status'[s] = "IN_TRANSIT" => consumed'[s] = Quantity[s]
    BY <2>1 DEF TransferInvariant, tables
  <2>. QED
    BY <2>1, <2>4, <2>5, <2>6 DEF TransferInvariant
<1>3. ASSUME NEW r \in Req, MoveStock(r) PROVE TransferInvariant'
  BY <1>3, QuietStep DEF MoveStock, Goto, TypeOK
<1>4. ASSUME NEW r \in Req, UpdateTransfer(r) PROVE TransferInvariant'
  BY <1>4, QuietStep DEF UpdateTransfer, Goto, TypeOK
<1>5. ASSUME NEW r \in Req, Commit(r) PROVE TransferInvariant'
  <2> DEFINE t == doc[r]
  <2>1. TransferBooked'
    BY <1>5, CommitIsStep, StepKeepsBooks DEF TransferInvariant
  <2>2. /\ t \in Transfer /\ Allowed(op[r], status[t])
        /\ EndTransaction(r)
        /\ status' = [status EXCEPT ![t] = NewStatus(op[r])]
        /\ consumed' = IF op[r] = "approve"
                       THEN [consumed EXCEPT ![t] = Quantity[t]] ELSE consumed
    BY <1>5, WorkedTransfer DEF Commit
  <2>3. \A s \in Transfer \ {t} : status'[s] = status[s] /\ consumed'[s] = consumed[s]
    BY <2>2 DEF TypeOK
  <2>4. status'[t] = "IN_TRANSIT" => op[r] = "approve"
    BY <2>2 DEF TypeOK, Allowed, NewStatus
  <2>5. \A s \in Transfer : status'[s] = "IN_TRANSIT" => consumed'[s] = Quantity[s]
    BY <2>2, <2>3, <2>4 DEF TransferInvariant, TypeOK
  <2>6. \A s \in Req \ {r} : pc[s] # "idle" => doc[s] \in Transfer \ {t}
    BY <2>2, NobodyAssumption DEF TransferInvariant, TypeOK
  <2>7. \A s \in Req : ReadIsCurrent(s)' /\ (pc'[s] = "idle" => doc'[s] = NoTransfer)
    BY <2>2, <2>3, <2>6, EndOfSession DEF TransferInvariant, ReadIsCurrent, Allowed
  <2>8. \A q, s \in Req : q # s /\ doc'[q] = doc'[s] => doc'[q] = NoTransfer
    BY <2>2, EndOfSession DEF TransferInvariant
  <2>. QED
    BY <2>1, <2>5, <2>7, <2>8 DEF TransferInvariant
<1>6. ASSUME NEW r \in Req, Rollback(r) PROVE TransferInvariant'
  <2>1. EndTransaction(r) /\ UNCHANGED tables
    BY <1>6 DEF Rollback
  <2>2. TransferBooked'
        /\ \A s \in Transfer : status'[s] = "IN_TRANSIT" => consumed'[s] = Quantity[s]
    BY <2>1 DEF TransferInvariant, TransferBooked, Books, tables
  <2>3. \A s \in Req : ReadIsCurrent(s)' /\ (pc'[s] = "idle" => doc'[s] = NoTransfer)
    BY <2>1, EndOfSession DEF TransferInvariant, ReadIsCurrent, Allowed, tables
  <2>4. \A q, s \in Req : q # s /\ doc'[q] = doc'[s] => doc'[q] = NoTransfer
    BY <2>1, EndOfSession DEF TransferInvariant
  <2>. QED
    BY <2>2, <2>3, <2>4 DEF TransferInvariant
<1>. QED
  BY <1>1, <1>2, <1>3, <1>4, <1>5, <1>6 DEF Next

LEMMA InitTransferInvariant == Init => TransferInvariant
<1> SUFFICES ASSUME Init PROVE TransferInvariant
  OBVIOUS
<1>1. TypeOK
  BY InitTypeOK
<1>2. TransferBooked
  BY DEF Init, TransferBooked, Books
<1>. QED
  BY <1>1, <1>2 DEF Init, TransferInvariant, ReadIsCurrent

\* While requests for one transfer come one after the other, the ledger holds
\* of every transfer exactly the movements its status stands for, although
\* requests for different transfers interleave and any of them may fail.
THEOREM TransfersAreBooked ==
    ASSUME OneAtATime
    PROVE  Spec => []TransferBooked
<1>1. TransferInvariant => TransferBooked
  BY DEF TransferInvariant
<1>. QED
  BY <1>1, InitTransferInvariant, TransferInvariantInductive, PTL DEF Spec

-----------------------------------------------------------------------------
(* The refinement.                                                         *)

LEMMA StepIsStep ==
    ASSUME TransferInvariant, [Next]_vars
    PROVE  [Lifecycle!Next]_(Lifecycle!vars)
<1>1. ASSUME NEW r \in Req, Commit(r) PROVE Lifecycle!Next
  BY <1>1, CommitIsStep
<1>2. CASE UNCHANGED <<status, booked>>
  BY <1>2 DEF Lifecycle!vars
<1>. QED
  BY <1>1, <1>2 DEF Next, vars, tables, GetTransfer, MoveStock, UpdateTransfer, Rollback

\* Under the same assumption the requests implement the lifecycle: commits are
\* its steps, and everything before a commit is invisible.
THEOREM TransfersImplementLifecycle ==
    ASSUME OneAtATime
    PROVE  Spec => ImplementsLifecycle
<1>1. Init => Lifecycle!Init
  BY DEF Init, Lifecycle!Init
<1>2. TransferInvariant /\ [Next]_vars => [Lifecycle!Next]_(Lifecycle!vars)
  BY StepIsStep
<1>. QED
  BY <1>1, <1>2, InitTransferInvariant, TransferInvariantInductive, PTL
  DEF Spec, ImplementsLifecycle, Lifecycle!Spec

=============================================================================
