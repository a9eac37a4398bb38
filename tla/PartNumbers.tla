------------------------------- MODULE PartNumbers -------------------------------
(***************************************************************************)
(* What a spare part is found by: its part number and its barcode.         *)
(* Requests that create, renumber, label or delete a part check first that *)
(* the number and the barcode are free, and write later; the index on the  *)
(* parts that are not deleted has the last word.                           *)
(*                                                                         *)
(* A request's checks are one step.  What it is going to write are the     *)
(* columns that differ from the row it read.                               *)
(***************************************************************************)
EXTENDS Integers

CONSTANTS
    Req, Part, NoPart,
    Number, NoNumber,
    Barcode, NoBarcode,
    Category

VARIABLES
    row,        \* the committed row of each part
    active,     \* categories that are not deleted
    pc, doc,    \* where a request is, and the part it writes
    change      \* the columns it writes

vars == <<row, active, pc, doc, change>>

Live    == "live"
Columns == {"state", "number", "barcode"}
Rows    == [state : {"none", Live, "deleted"}, number : Number \cup {NoNumber},
            barcode : Barcode \cup {NoBarcode}]
NoRow   == [state |-> "none", number |-> NoNumber, barcode |-> NoBarcode]
NoChange == [c \in {} |-> NoNumber]

Overlay(f, g) == [c \in DOMAIN g |-> IF c \in DOMAIN f THEN f[c] ELSE g[c]]

TypeOK ==
    /\ row \in [Part -> Rows]
    /\ active \subseteq Category
    /\ pc \in [Req -> {"idle", "checked", "flushed"}]
    /\ doc \in [Req -> Part \cup {NoPart}]
    /\ \A r \in Req :
          /\ DOMAIN change[r] \subseteq Columns
          /\ doc[r] # NoPart => Overlay(change[r], row[doc[r]]) \in Rows

Init ==
    /\ row = [p \in Part |-> NoRow]
    /\ active \in SUBSET Category
    /\ pc = [r \in Req |-> "idle"]
    /\ doc = [r \in Req |-> NoPart]
    /\ change = [r \in Req |-> NoChange]

-----------------------------------------------------------------------------
(* Checks                                                                  *)

LiveParts == {p \in Part : row[p].state = Live}

\* lookup_by_barcode: the parts that have a barcode; it answers with one.
Found(b) == {p \in LiveParts : row[p].barcode = b}

\* _validate_unique_part_number, _validate_unique_barcode, _barcode_exists.
NumberFree(n)     == \A p \in LiveParts : row[p].number # n
BarcodeFree(p, b) == b = NoBarcode \/ \A o \in LiveParts \ {p} : row[o].barcode # b

\* Mutant: the UPDATE has every column.
WriteAll(new, old) == new

\* The columns of a row that differ from another.
Differ(new, old) == [c \in {c \in Columns : new[c] # old[c]} |-> new[c]]

Begin(r, p, new) ==
    /\ pc[r] = "idle"
    /\ pc'     = [pc     EXCEPT ![r] = "checked"]
    /\ doc'    = [doc    EXCEPT ![r] = p]
    /\ change' = [change EXCEPT ![r] = Differ(new, row[p])]
    /\ UNCHANGED <<row, active>>

\* create_spare_part, in a category that is there.
Creatable(p, n, b) ==
    /\ row[p] = NoRow /\ \A q \in Req : doc[q] # p
    /\ NumberFree(n) /\ BarcodeFree(p, b)
    /\ active # {}

\* update_spare_part.
Renumberable(p, n, b) ==
    /\ p \in LiveParts
    /\ n # row[p].number => NumberFree(n)
    /\ b # row[p].barcode => BarcodeFree(p, b)

\* assign_manufacturer_barcode.
Labelable(p, b) == p \in LiveParts /\ BarcodeFree(p, b)

BeginCreate(r, p, n, b) ==
    /\ Creatable(p, n, b)
    /\ Begin(r, p, [state |-> Live, number |-> n, barcode |-> b])

BeginUpdate(r, p, n, b) ==
    /\ Renumberable(p, n, b)
    /\ Begin(r, p, [row[p] EXCEPT !.number = n, !.barcode = b])

BeginAssign(r, p, b) ==
    /\ Labelable(p, b)
    /\ Begin(r, p, [row[p] EXCEPT !.barcode = b])

\* generate_barcode_for_part makes up barcodes until no part has one, the
\* part itself included.
BeginGenerate(r, p) ==
    /\ p \in LiveParts
    /\ \E b \in Barcode : BarcodeFree(NoPart, b) /\ Begin(r, p, [row[p] EXCEPT !.barcode = b])

\* The image of a barcode; a part without one is given one.
BeginImage(r, p) == row[p].barcode = NoBarcode /\ BeginGenerate(r, p)

BeginDelete(r, p) ==
    /\ p \in LiveParts
    /\ Begin(r, p, [row[p] EXCEPT !.state = "deleted"])

-----------------------------------------------------------------------------
(* The write                                                               *)

Flushed == {q \in Req : pc[q] = "flushed"}

\* What the row of a part is going to be when a request commits.
After(r) == Overlay(change[r], row[doc[r]])

Equal(a, b) ==
    /\ a.state = Live /\ b.state = Live
    /\ a.number = b.number \/ (a.barcode = b.barcode /\ a.barcode # NoBarcode)

\* Mutant: there is no unique index.
NoIndex(r) == FALSE

\* The unique indexes: a write that equals a row waits for the requests that
\* have written, and fails when the row stays.
Clashes(r) ==
    \/ \E p \in Part \ {doc[r]} : Equal(After(r), row[p])
    \/ \E q \in Flushed \ {r} : doc[q] # doc[r] /\ Equal(After(r), After(q))

\* INSERT or UPDATE, once no other request has written the row.
Flush(r) ==
    /\ pc[r] = "checked"
    /\ \A q \in Flushed : doc[q] # doc[r]
    /\ ~Clashes(r)
    /\ pc' = [pc EXCEPT ![r] = "flushed"]
    /\ UNCHANGED <<row, active, doc, change>>

End(r) ==
    /\ pc'     = [pc     EXCEPT ![r] = "idle"]
    /\ doc'    = [doc    EXCEPT ![r] = NoPart]
    /\ change' = [change EXCEPT ![r] = NoChange]
    /\ UNCHANGED active

Commit(r) ==
    /\ pc[r] = "flushed"
    /\ row' = [row EXCEPT ![doc[r]] = After(r)]
    /\ End(r)

Rollback(r) ==
    /\ pc[r] # "idle"
    /\ End(r)
    /\ UNCHANGED row

\* create_category and delete_category, which asks no part.
CreateCategory(c) ==
    /\ c \notin active
    /\ active' = active \cup {c}
    /\ UNCHANGED <<row, pc, doc, change>>

DeleteCategory(c) ==
    /\ c \in active
    /\ active' = active \ {c}
    /\ UNCHANGED <<row, pc, doc, change>>

Next ==
    \/ \E r \in Req :
          \/ \E p \in Part, n \in Number, b \in Barcode \cup {NoBarcode} :
                \/ BeginCreate(r, p, n, b)
                \/ BeginUpdate(r, p, n, b)
          \/ \E p \in Part, b \in Barcode : BeginAssign(r, p, b)
          \/ \E p \in Part : BeginGenerate(r, p) \/ BeginImage(r, p) \/ BeginDelete(r, p)
          \/ Flush(r) \/ Commit(r) \/ Rollback(r)
    \/ \E c \in Category : CreateCategory(c) \/ DeleteCategory(c)

Spec == Init /\ [][Next]_vars

-----------------------------------------------------------------------------
(* Properties                                                              *)

\* The parts that are not deleted differ in number, and in barcode when they
\* have one, however the checks and the writes of requests interleave
\* (create_spare_part, update_spare_part, assign_manufacturer_barcode,
\* generate_barcode_for_part): what a scan finds is one part.
IdentifiersUnique ==
    /\ \A p, q \in LiveParts : row[p].number = row[q].number => p = q
    /\ \A b \in Barcode : \A p, q \in Found(b) : p = q

\* A request that read a part before it was deleted, and writes it after, does
\* not bring it back (update_spare_part, delete_spare_part).
DeletedForGood ==
    [][\A p \in Part : row[p].state = "deleted" => row'[p].state = "deleted"]_vars

=============================================================================
