------------------------------- MODULE Transfers -------------------------------
(***************************************************************************)
(* Inter-location transfers, as concurrent requests create, approve,       *)
(* receive and cancel them.  A request is one PostgreSQL transaction at    *)
(* READ COMMITTED.  It reads the transfer with no lock, locks and moves the *)
(* stock of one location, overwrites the transfer, and commits.            *)
(*                                                                         *)
(* Every location has a cache row for the part (how a first row is made is *)
(* StockLedger's), and the layers hold what the row says (its theorem      *)
(* LayersEqualStock), so that units stand for both.                        *)
(***************************************************************************)
EXTENDS Integers, FiniteSets, FiniteSetsExt

CONSTANTS
    Req, NoReq,    \* concurrent requests, and nobody
    Transfer,      \* transfers of one part that may be requested
    NoTransfer,    \* what an idle request works on
    Location,
    Source,        \* [Transfer -> Location]
    Destination,   \* [Transfer -> Location]
    Quantity,      \* [Transfer -> Nat \ {0}]
    OnHand,        \* [Location -> Nat], the stock at the start
    OneAtATime     \* do requests for one transfer come one after the other?

ASSUME NobodyAssumption == NoReq \notin Req /\ NoTransfer \notin Transfer
ASSUME RouteAssumption ==
    /\ Source \in [Transfer -> Location]
    /\ Destination \in [Transfer -> Location]
    /\ \A t \in Transfer : Source[t] # Destination[t]
ASSUME QuantityAssumption ==
    /\ Quantity \in [Transfer -> Nat \ {0}]
    /\ OnHand \in [Location -> Nat]
    /\ OneAtATime \in BOOLEAN

VARIABLES
    stock,      \* committed current_quantity of the part at each location
    status,     \* committed status; NONE before the transfer is requested
    consumed,   \* committed consumed_layer_details, in units
    booked,     \* booked[t][l]: sum of the ledger entries t has at l
    stockLock,  \* the transaction that holds the cache row
    rowLock,    \* the transaction that has overwritten the transfer
    pc,         \* where each request is
    op,         \* which operation it performs
    doc,        \* on which transfer
    read        \* status and details of the transfer in its session

tables == <<stock, status, consumed, booked>>
vars   == <<stock, status, consumed, booked, stockLock, rowLock, pc, op, doc, read>>

Status == {"NONE", "PENDING", "IN_TRANSIT", "RECEIVED", "CANCELLED"}
Ops    == {"create", "approve", "receive", "cancel"}
Object == [status : Status, consumed : Nat]

NoObject == [status |-> "NONE", consumed |-> 0]

TypeOK ==
    /\ stock \in [Location -> Int]
    /\ status \in [Transfer -> Status]
    /\ consumed \in [Transfer -> Nat]
    /\ booked \in [Transfer -> [Location -> Int]]
    /\ stockLock \in [Location -> Req \cup {NoReq}]
    /\ rowLock \in [Transfer -> Req \cup {NoReq}]
    /\ pc \in [Req -> {"idle", "stock", "row", "commit"}]
    /\ op \in [Req -> Ops]
    /\ doc \in [Req -> Transfer \cup {NoTransfer}]
    /\ read \in [Req -> Object]
    /\ \A r \in Req : pc[r] # "idle" => doc[r] \in Transfer

Init ==
    /\ stock = OnHand
    /\ status = [t \in Transfer |-> "NONE"]
    /\ consumed = [t \in Transfer |-> 0]
    /\ booked = [t \in Transfer |-> [l \in Location |-> 0]]
    /\ stockLock = [l \in Location |-> NoReq]
    /\ rowLock = [t \in Transfer |-> NoReq]
    /\ pc = [r \in Req |-> "idle"]
    /\ op = [r \in Req |-> "create"]
    /\ doc = [r \in Req |-> NoTransfer]
    /\ read = [r \in Req |-> NoObject]

-----------------------------------------------------------------------------
(* What an operation requires of the transfer it read, and does with it.   *)

\* Mutant: a transfer is received whatever its state.
AnyReceived(o, s) ==
    \/ o = "create"  /\ s = "NONE"
    \/ o = "approve" /\ s = "PENDING"
    \/ o = "receive" /\ s # "NONE"
    \/ o = "cancel"  /\ s \notin {"NONE", "RECEIVED", "CANCELLED"}

Allowed(o, s) ==
    \/ o = "create"  /\ s = "NONE"
    \/ o = "approve" /\ s = "PENDING"
    \/ o = "receive" /\ s = "IN_TRANSIT"
    \/ o = "cancel"  /\ s \notin {"NONE", "RECEIVED", "CANCELLED"}

NewStatus(o) ==
    CASE o = "create"  -> "PENDING"
      [] o = "approve" -> "IN_TRANSIT"
      [] o = "receive" -> "RECEIVED"
      [] o = "cancel"  -> "CANCELLED"

\* Only a cancellation of what is in transit gives units back.
MovesStock(o, s) ==
    \/ o \in {"approve", "receive"}
    \/ o = "cancel" /\ s = "IN_TRANSIT"

Moves(r) == MovesStock(op[r], read[r].status)
Place(r) == IF op[r] = "receive" THEN Destination[doc[r]] ELSE Source[doc[r]]

\* Mutant: a cancellation gives back nothing.
UnitsKept(r) == IF op[r] = "approve" THEN -Quantity[doc[r]]
                ELSE IF op[r] = "receive" THEN read[r].consumed ELSE 0

Units(r) == IF op[r] = "approve" THEN -Quantity[doc[r]] ELSE read[r].consumed

Goto(r, step) == pc' = [pc EXCEPT ![r] = step]

\* The transfer is read with no lock; an operation its state does not allow
\* is refused and leaves nothing behind.  create_transfer checks the stock of
\* the source, with no lock and no reservation.
GetTransfer(r, o, t) ==
    /\ pc[r] = "idle"
    /\ Allowed(o, status[t])
    /\ o = "create" => stock[Source[t]] >= Quantity[t]
    /\ OneAtATime \/ o = "create" => \A s \in Req : doc[s] # t
    /\ op'   = [op   EXCEPT ![r] = o]
    /\ doc'  = [doc  EXCEPT ![r] = t]
    /\ read' = [read EXCEPT ![r] = [status |-> status[t], consumed |-> consumed[t]]]
    /\ Goto(r, IF MovesStock(o, status[t]) THEN "stock" ELSE "row")
    /\ UNCHANGED <<tables, stockLock, rowLock>>

\* Lock the cache row, check it for an approval, consume or add the layers,
\* record the movement.
MoveStock(r) ==
    /\ pc[r] = "stock"
    /\ stockLock[Place(r)] = NoReq
    /\ stock[Place(r)] + Units(r) >= 0
    /\ stockLock' = [stockLock EXCEPT ![Place(r)] = r]
    /\ Goto(r, "row")
    /\ UNCHANGED <<tables, rowLock, op, doc, read>>

\* The last flush inserts the transfer or overwrites its status.
UpdateTransfer(r) ==
    /\ pc[r] = "row"
    /\ rowLock[doc[r]] = NoReq
    /\ rowLock' = [rowLock EXCEPT ![doc[r]] = r]
    /\ Goto(r, "commit")
    /\ UNCHANGED <<tables, stockLock, op, doc, read>>

EndTransaction(r) ==
    /\ stockLock' = [l \in Location |-> IF stockLock[l] = r THEN NoReq ELSE stockLock[l]]
    /\ rowLock'   = [t \in Transfer |-> IF rowLock[t] = r THEN NoReq ELSE rowLock[t]]
    /\ op'   = [op   EXCEPT ![r] = "create"]
    /\ doc'  = [doc  EXCEPT ![r] = NoTransfer]
    /\ read' = [read EXCEPT ![r] = NoObject]
    /\ Goto(r, "idle")

Commit(r) ==
    /\ pc[r] = "commit"
    /\ status' = [status EXCEPT ![doc[r]] = NewStatus(op[r])]
    /\ consumed' = IF op[r] = "approve"
                   THEN [consumed EXCEPT ![doc[r]] = Quantity[doc[r]]]
                   ELSE consumed
    /\ IF Moves(r)
       THEN /\ stock'  = [stock  EXCEPT ![Place(r)] = @ + Units(r)]
            /\ booked' = [booked EXCEPT ![doc[r]][Place(r)] = @ + Units(r)]
       ELSE UNCHANGED <<stock, booked>>
    /\ EndTransaction(r)

\* Insufficient stock, any other error, a lost connection, a crash.
Rollback(r) ==
    /\ pc[r] # "idle"
    /\ EndTransaction(r)
    /\ UNCHANGED tables

Next ==
    \E r \in Req :
        \/ \E o \in Ops, t \in Transfer : GetTransfer(r, o, t)
        \/ MoveStock(r)
        \/ UpdateTransfer(r)
        \/ Commit(r)
        \/ Rollback(r)

Spec == Init /\ [][Next]_vars

-----------------------------------------------------------------------------
(* Properties                                                              *)

\* What the ledger holds for a transfer in a state: units leave the source
\* once, arrive once, or come back once.
Books(t, s) ==
    [l \in Location |->
        IF s \in {"IN_TRANSIT", "RECEIVED"} /\ l = Source[t] THEN -Quantity[t]
        ELSE IF s = "RECEIVED" /\ l = Destination[t] THEN Quantity[t]
        ELSE 0]

\* The ledger entries of a transfer are those its status stands for: the
\* source gave its quantity, the destination got it, and a cancelled transfer
\* moved nothing in the end.
TransferBooked == \A t \in Transfer : booked[t] = Books(t, status[t])

\* Approvals that compete for the stock of one location never take more than
\* it has, whatever else goes wrong with the transfers themselves.
NeverOverdrawn == \A l \in Location : stock[l] >= 0

-----------------------------------------------------------------------------
(* Why they hold: the first part always, the second while OneAtATime.      *)

\* From its check to its commit a request holds the stock it moves.
HoldsStock(r) ==
    pc[r] \in {"row", "commit"} /\ Moves(r) =>
        /\ stockLock[Place(r)] = r
        /\ stock[Place(r)] + Units(r) >= 0

StockInvariant ==
    /\ TypeOK
    /\ NeverOverdrawn
    /\ \A r \in Req : HoldsStock(r)

\* What the session read is still what the tables hold.
ReadIsCurrent(r) ==
    pc[r] # "idle" =>
        /\ Allowed(op[r], status[doc[r]])
        /\ read[r] = [status |-> status[doc[r]], consumed |-> consumed[doc[r]]]

TransferInvariant ==
    /\ TypeOK
    /\ TransferBooked
    /\ \A t \in Transfer : status[t] = "IN_TRANSIT" => consumed[t] = Quantity[t]
    /\ \A r \in Req : ReadIsCurrent(r) /\ (pc[r] = "idle" => doc[r] = NoTransfer)
    /\ \A r, s \in Req : r # s /\ doc[r] = doc[s] => doc[r] = NoTransfer

Lifecycle == INSTANCE TransferLifecycle

\* Each operation on a transfer is one atomic change of its state and of its
\* books, although it reads, moves and overwrites in separate statements.
ImplementsLifecycle == Lifecycle!Spec

=============================================================================
