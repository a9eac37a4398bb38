-------------------------------- MODULE Invoices --------------------------------
(***************************************************************************)
(* The documents of one sale.  Its invoice is rendered and stored once per *)
(* format, or stored anew when the user asks for that; a credit note is    *)
(* computed on demand from what came back.                                 *)
(*                                                                         *)
(* Neither takes a lock: an invoice is looked up and inserted without an   *)
(* index on sale and format, and a credit note reads the lines of the sale *)
(* and the return movements in two statements.  Requests on the sale       *)
(* itself hold its row (see Sales) and are one step here.                  *)
(***************************************************************************)
EXTENDS Integers, FiniteSets, FiniteSetsExt

CONSTANTS
    Req,
    Line,
    Part,
    External,   \* stands for the part of an externally sourced line
    Quantity,   \* units sold on each line
    Value,      \* of a unit of each line: line_total / quantity
    Format,
    NoFormat

VARIABLES
    part,       \* of each line
    status,
    external,   \* external_returned_quantity of each line
    moved,      \* units of each part in the RETURN movements of the sale
    rows,       \* stored invoices of each format
    pc, format, \* of each request; overwrite while it may replace an invoice
    overwrite,
    view,       \* the external units a credit note read
    note,       \* its total
    \* history
    refunded,   \* value of all that came back
    least, most,\* refunded, when the credit note read first and last
    raced       \* formats that two requests rendered at a time

sale     == <<part, status, external, moved>>
requests == <<pc, format, overwrite, view, note>>
history  == <<refunded, least, most, raced>>
vars     == <<sale, rows, requests, history>>

Sum(f) == MapThenSumSet(LAMBDA l : f[l], Line)
Zero   == [l \in Line |-> 0]
UnitsSold == Sum(Quantity)

TypeOK ==
    /\ part \in [Line -> Part \cup {External}]
    /\ status \in {"DRAFT", "CONFIRMED", "RETURNED"}
    /\ external \in [Line -> 0..UnitsSold]
    /\ moved \in [Part -> 0..UnitsSold]
    /\ rows \in [Format -> Nat]
    /\ pc \in [Req -> {"ready", "found", "rendered", "read", "written"}]
    /\ format \in [Req -> Format \cup {NoFormat}]
    /\ overwrite \in [Req -> BOOLEAN]
    /\ view \in [Req -> [Line -> 0..UnitsSold]]
    /\ refunded \in Nat
    /\ \A f \in {note, least, most} : f \in [Req -> Nat]
    /\ raced \subseteq Format

Init ==
    /\ part \in [Line -> Part \cup {External}]
    /\ status = "DRAFT"
    /\ external = Zero
    /\ moved = [p \in Part |-> 0]
    /\ rows = [f \in Format |-> 0]
    /\ pc = [r \in Req |-> "ready"]
    /\ format = [r \in Req |-> NoFormat]
    /\ overwrite = [r \in Req |-> FALSE]
    /\ view = [r \in Req |-> Zero]
    /\ note = [r \in Req |-> 0]
    /\ refunded = 0
    /\ least = note /\ most = note
    /\ raced = {}

-----------------------------------------------------------------------------
(* The sale                                                                *)

ConfirmSale ==
    /\ status = "DRAFT"
    /\ status' = "CONFIRMED"
    /\ UNCHANGED <<part, external, moved, rows, requests, history>>

\* What came back of a line, or of its part.
Returned(l) == IF part[l] = External THEN external[l] ELSE moved[part[l]]

\* Each line is compared with what came back before this request.
Returnable(g) ==
    /\ g # Zero
    /\ \A l \in Line : g[l] = 0 \/ g[l] <= Quantity[l] - Returned(l)

MovedOf(p, g) == MapThenSumSet(LAMBDA l : IF part[l] = p THEN g[l] ELSE 0, Line)
AllReturned(g) ==
    Sum(external) + MapThenSumSet(LAMBDA p : moved[p], Part) + Sum(g) >= Sum(Quantity)

ReturnSale(g) ==
    /\ status = "CONFIRMED" /\ Returnable(g)
    /\ external' = [l \in Line |-> external[l] + IF part[l] = External THEN g[l] ELSE 0]
    /\ moved' = [p \in Part |-> moved[p] + MovedOf(p, g)]
    /\ status' = IF AllReturned(g) THEN "RETURNED" ELSE status
    /\ refunded' = refunded + MapThenSumSet(LAMBDA l : g[l] * Value[l], Line)
    /\ UNCHANGED <<part, rows, requests, least, most, raced>>

-----------------------------------------------------------------------------
(* Invoices                                                                *)

\* The requests that go on to store an invoice.
Rendering(f) == {r \in Req : format[r] = f /\ pc[r] = "rendered"}

Render(f) == raced' = IF Rendering(f) = {} THEN raced ELSE raced \cup {f}

\* generate_invoice_pdf loads a confirmed sale, with the company's details.
BeginGenerate(r, f, replace) ==
    /\ pc[r] = "ready" /\ status = "CONFIRMED"
    /\ pc' = [pc EXCEPT ![r] = IF replace THEN "rendered" ELSE "found"]
    /\ format' = [format EXCEPT ![r] = f]
    /\ overwrite' = [overwrite EXCEPT ![r] = replace]
    /\ IF replace THEN Render(f) ELSE UNCHANGED raced
    /\ UNCHANGED <<sale, rows, view, note, refunded, least, most>>

\* Mutant: the invoices of the sale are not looked up.
ExistingUnread(f) == 0

Existing(f) == rows[f]

EndRequest(r) ==
    /\ pc' = [pc EXCEPT ![r] = "ready"]
    /\ format' = [format EXCEPT ![r] = NoFormat]
    /\ overwrite' = [overwrite EXCEPT ![r] = FALSE]
    /\ view' = [view EXCEPT ![r] = Zero]
    /\ note'  = [note  EXCEPT ![r] = 0]
    /\ least' = [least EXCEPT ![r] = 0]
    /\ most'  = [most  EXCEPT ![r] = 0]

\* The format has no invoice: it is rendered.
FindNoInvoice(r) ==
    /\ pc[r] = "found" /\ Existing(format[r]) = 0
    /\ pc' = [pc EXCEPT ![r] = "rendered"]
    /\ Render(format[r])
    /\ UNCHANGED <<sale, rows, format, overwrite, view, note, refunded, least, most>>

\* One is refused with 409; with two of them, that or a request to replace one
\* fails, as does each one that reads the invoice of the sale.
Refuse(r) ==
    /\ \/ pc[r] = "found" /\ Existing(format[r]) > 0
       \/ pc[r] = "rendered" /\ overwrite[r] /\ rows[format[r]] > 1
    /\ EndRequest(r)
    /\ UNCHANGED <<sale, rows, refunded, raced>>

\* The document is inserted, or written over the one there is, and committed.
StoreInvoice(r) ==
    /\ pc[r] = "rendered"
    /\ IF overwrite[r]
       THEN rows[format[r]] <= 1 /\ rows' = [rows EXCEPT ![format[r]] = 1]
       ELSE rows' = [rows EXCEPT ![format[r]] = @ + 1]
    /\ EndRequest(r)
    /\ UNCHANGED <<sale, refunded, raced>>

-----------------------------------------------------------------------------
(* Credit notes                                                            *)

\* generate_credit_note loads the sale with its lines ...
BeginNote(r) ==
    /\ pc[r] = "ready"
    /\ pc' = [pc EXCEPT ![r] = "read"]
    /\ view'  = [view  EXCEPT ![r] = external]
    /\ least' = [least EXCEPT ![r] = refunded]
    /\ UNCHANGED <<sale, rows, format, overwrite, note, refunded, most, raced>>

\* Mutant: external lines are left out.
UnitsOfParts(r, l) == IF part[l] = External THEN 0 ELSE moved[part[l]]

Units(r, l) == IF part[l] = External THEN view[r][l] ELSE moved[part[l]]

\* ... and then the movements, and adds up the lines.
WriteNote(r) ==
    /\ pc[r] = "read"
    /\ IF (\A p \in Part : moved[p] = 0) /\ view[r] = Zero
       THEN EndRequest(r)
       ELSE /\ pc'   = [pc   EXCEPT ![r] = "written"]
            /\ note' = [note EXCEPT ![r] = MapThenSumSet(LAMBDA l : Units(r, l) * Value[l], Line)]
            /\ most' = [most EXCEPT ![r] = refunded]
            /\ UNCHANGED <<format, overwrite, view, least>>
    /\ UNCHANGED <<sale, rows, refunded, raced>>

SendNote(r) ==
    /\ pc[r] = "written"
    /\ EndRequest(r)
    /\ UNCHANGED <<sale, rows, refunded, raced>>

-----------------------------------------------------------------------------

Next ==
    \/ ConfirmSale
    \/ \E g \in [Line -> 0..UnitsSold] : ReturnSale(g)
    \/ \E r \in Req :
          \/ \E f \in Format, replace \in BOOLEAN : BeginGenerate(r, f, replace)
          \/ FindNoInvoice(r) \/ Refuse(r) \/ StoreInvoice(r)
          \/ BeginNote(r) \/ WriteNote(r) \/ SendNote(r)

Spec == Init /\ [][Next]_vars

-----------------------------------------------------------------------------
(* Properties                                                              *)

\* A sale has one stored invoice of a format (generate_invoice_pdf), so that
\* scalar_one_or_none finds it, unless two requests were between the look-up and
\* the insert at a time.  Those two may store one each, and no more than that
\* ever comes of it: whoever looks later finds one, however often he retries.
OneInvoice ==
    \A f \in Format : rows[f] <= IF f \in raced THEN Cardinality(Req) ELSE 1

\* The credit note of a sale with no part on two lines is for what the returns
\* gave back (generate_credit_note, return_sale): at least what came back before
\* the sale was read and at most what came back before the movements were, and
\* so exactly that when no return is committed in between.
NoteMatchesRefunds ==
    (\A k, l \in Line : k # l => part[k] # part[l] \/ part[k] = External) =>
        \A r \in Req : pc[r] = "written" => least[r] <= note[r] /\ note[r] <= most[r]

=============================================================================
