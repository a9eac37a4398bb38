--------------------------- MODULE CatalogueProofs ---------------------------
(***************************************************************************)
(* Theorems about Invoices, PartNumbers, PartPrices, Reports and Notifications, *)
(* for every set of requests, formats, parts, prices, sales, reports and events; *)
(* and, with those of PurchasingProofs, about the types of Office.         *)
(***************************************************************************)
EXTENDS PurchasingProofs

-----------------------------------------------------------------------------
(* Invoices: one document of a format                                      *)

\* The types of what the proof is about.
RequestTypes ==
    /\ rows \in [Format -> Nat]
    /\ paperPc \in [Req -> {"ready", "found", "rendered", "read", "written"}]
    /\ format \in [Req -> Format \cup {NoFormat}]
    /\ overwrite \in [Req -> BOOLEAN]
    /\ \A r \in Req : paperPc[r] \in {"found", "rendered"} => format[r] \in Format

\* A format that no two requests rendered at a time has one at work at most, who
\* may still rely on what he found.
Alone(f) ==
    /\ \A q, r \in Req :
          format[q] = f /\ paperPc[q] = "rendered" /\ format[r] = f /\ paperPc[r] = "rendered"
              => q = r
    /\ \A r \in Req : format[r] = f /\ paperPc[r] = "rendered" /\ ~overwrite[r] => rows[f] = 0
    /\ rows[f] <= 1

\* The requests that found no invoice of a format and go on to insert one.  All of
\* them looked when there was none, so that each inserts one and that is all.
Inserting(f) ==
    {r \in Req : format[r] = f /\ paperPc[r] = "rendered" /\ ~overwrite[r]}
Few(f) ==
    rows[f] = 0 \/ rows[f] + Cardinality(Inserting(f)) <= Cardinality(Req)

\* What the proof of OneInvoice carries.
DocumentInvariant ==
    /\ RequestTypes
    /\ \A f \in Format : f \in paperRaced \/ Alone(f)
    /\ \A f \in Format : Few(f)

\* A step of the composition is a step of Invoices, or leaves it alone.
LEMMA PaperNext == [Next]_vars => [Papers!Next]_(Papers!vars)
BY DEF Next, vars, papers, Papers!vars, Papers!sale, Papers!requests, Papers!history

\* A behaviour starts with no document.
LEMMA DocumentInit == ASSUME NoFormat \notin Format PROVE Papers!Init => DocumentInvariant
BY DEF Papers!Init, DocumentInvariant, RequestTypes, Alone, Few

\* The end of a request leaves the others alone.
LEMMA EndLeavesOthers ==
    ASSUME RequestTypes, NEW r \in Req, Papers!EndRequest(r)
    PROVE  /\ paperPc' \in [Req -> {"ready", "found", "rendered", "read", "written"}]
           /\ format' \in [Req -> Format \cup {NoFormat}]
           /\ overwrite' \in [Req -> BOOLEAN]
           /\ \A q \in Req : paperPc'[q] \in {"found", "rendered"} => format'[q] \in Format
           /\ paperPc'[r] = "ready" /\ format'[r] = NoFormat
           /\ \A q \in Req \ {r} :
                 paperPc'[q] = paperPc[q] /\ format'[q] = format[q] /\ overwrite'[q] = overwrite[q]
BY DEF RequestTypes, Papers!EndRequest

\* With the same invoices stored, and no more about to be, there are still few.
LEMMA FewerInsert ==
    ASSUME IsFiniteSet(Req), RequestTypes, NEW f \in Format, Few(f), rows'[f] = rows[f],
           rows[f] # 0 => Inserting(f)' \subseteq Inserting(f)
    PROVE  Few(f)'
<1>1. CASE rows[f] = 0
  BY <1>1 DEF Few
<1>2. CASE rows[f] # 0
  <2>1. IsFiniteSet(Inserting(f)) /\ Inserting(f)' \in SUBSET Inserting(f)
    BY <1>2, FS_Subset DEF Inserting
  <2>2. IsFiniteSet(Inserting(f)') /\ Cardinality(Inserting(f)') <= Cardinality(Inserting(f))
    BY <2>1, FS_Subset
  <2>3. /\ Cardinality(Inserting(f)) \in Nat /\ Cardinality(Inserting(f)') \in Nat
        /\ Cardinality(Req) \in Nat /\ rows[f] \in Nat
    BY <2>1, <2>2, FS_CardinalityType DEF RequestTypes
  <2>4. rows[f] + Cardinality(Inserting(f)) <= Cardinality(Req)
    BY <1>2 DEF Few
  <2>5. rows'[f] + Cardinality(Inserting(f)') <= Cardinality(Req)
    BY <2>2, <2>3, <2>4
  <2>6. Cardinality(Inserting(f)') = Cardinality(Inserting(f))'
    OBVIOUS
  <2>7. QED
    BY <2>5, <2>6 DEF Few
<1>3. QED
  BY <1>1, <1>2

\* A request that ends without storing an invoice leaves those there are.
LEMMA DocumentEnd ==
    ASSUME IsFiniteSet(Req), NoFormat \notin Format, DocumentInvariant, NEW r \in Req,
           Papers!EndRequest(r), UNCHANGED <<rows, paperRaced>>
    PROVE  DocumentInvariant'
<1>1. RequestTypes' /\ \A f \in Format : f \in paperRaced' \/ Alone(f)'
  BY EndLeavesOthers DEF DocumentInvariant, RequestTypes, Alone
<1>2. ASSUME NEW f \in Format PROVE Few(f)'
  <2>1. Inserting(f)' \subseteq Inserting(f)
    BY EndLeavesOthers DEF DocumentInvariant, Inserting
  <2>2. QED
    BY <2>1, FewerInsert DEF DocumentInvariant
<1>3. QED
  BY <1>1, <1>2 DEF DocumentInvariant

\* A format that has a request in "rendered" when another one gets there has
\* been raced.
LEMMA SecondRenderIsARace ==
    ASSUME NEW f \in Format, Papers!Render(f), f \notin paperRaced'
    PROVE  f \notin paperRaced /\ \A q \in Req : ~(format[q] = f /\ paperPc[q] = "rendered")
BY DEF Papers!Render, Papers!Rendering

\* A request that begins to generate finds no other at work on the format, or
\* makes it a race, and is not one to insert.
LEMMA DocumentBegin ==
    ASSUME IsFiniteSet(Req), NoFormat \notin Format, DocumentInvariant, NEW r \in Req,
           NEW f \in Format, NEW replace \in BOOLEAN, Papers!BeginGenerate(r, f, replace)
    PROVE  DocumentInvariant'
<1> USE DEF DocumentInvariant
<1>1. RequestTypes'
  BY DEF Papers!BeginGenerate, RequestTypes
<1>2. /\ \A q \in Req : format'[q] = IF q = r THEN f ELSE format[q]
      /\ \A q \in Req \ {r} : paperPc'[q] = paperPc[q] /\ overwrite'[q] = overwrite[q]
      /\ paperPc'[r] = "rendered" => overwrite'[r] /\ replace
      /\ UNCHANGED rows
  BY DEF Papers!BeginGenerate, RequestTypes
<1>3. IF replace THEN Papers!Render(f) ELSE UNCHANGED paperRaced
  BY DEF Papers!BeginGenerate
<1>4. ASSUME NEW g \in Format, g \notin paperRaced' PROVE Alone(g)'
  <2>1. g \notin paperRaced
    BY <1>3, <1>4 DEF Papers!Render
  <2>2. CASE replace /\ g = f
    <3>1. \A q \in Req : ~(format[q] = f /\ paperPc[q] = "rendered")
      BY <1>3, <1>4, <2>2, SecondRenderIsARace
    <3>2. QED
      BY <1>2, <2>1, <2>2, <3>1 DEF Alone
  <2>3. CASE ~(replace /\ g = f)
    BY <1>2, <2>1, <2>3 DEF Alone
  <2>4. QED
    BY <2>2, <2>3
<1>5. ASSUME NEW g \in Format PROVE Few(g)'
  <2>1. Inserting(g)' \subseteq Inserting(g)
    BY <1>2 DEF Inserting
  <2>2. QED
    BY <1>2, <2>1, FewerInsert
<1>6. QED
  BY <1>1, <1>4, <1>5

\* A request that finds no invoice joins those that insert one, while there is
\* none.
LEMMA DocumentFind ==
    ASSUME IsFiniteSet(Req), NoFormat \notin Format, DocumentInvariant, NEW r \in Req,
           Papers!FindNoInvoice(r)
    PROVE  DocumentInvariant'
<1> USE DEF DocumentInvariant
<1>1. /\ paperPc[r] = "found" /\ format[r] \in Format /\ rows[format[r]] = 0
      /\ Papers!Render(format[r]) /\ UNCHANGED <<rows, format, overwrite>>
      /\ \A q \in Req : paperPc'[q] = IF q = r THEN "rendered" ELSE paperPc[q]
  BY DEF Papers!FindNoInvoice, Papers!Existing, RequestTypes
<1>2. RequestTypes'
  BY <1>1 DEF Papers!FindNoInvoice, RequestTypes
<1>3. ASSUME NEW g \in Format, g \notin paperRaced' PROVE Alone(g)'
  <2>1. g \notin paperRaced
    BY <1>1, <1>3 DEF Papers!Render
  <2>2. CASE g = format[r]
    <3>1. \A q \in Req : ~(format[q] = g /\ paperPc[q] = "rendered")
      BY <1>1, <1>3, <2>2, SecondRenderIsARace
    <3>2. QED
      BY <1>1, <2>1, <2>2, <3>1 DEF Alone
  <2>3. CASE g # format[r]
    BY <1>1, <2>1, <2>3 DEF Alone
  <2>4. QED
    BY <2>2, <2>3
<1>4. ASSUME NEW g \in Format PROVE Few(g)'
  <2>1. rows[g] # 0 => Inserting(g)' \subseteq Inserting(g)
    BY <1>1 DEF Inserting
  <2>2. QED
    BY <1>1, <2>1, FewerInsert
<1>5. QED
  BY <1>2, <1>3, <1>4

\* A request that stores its document is the only one to, or leaves room for the
\* others.
LEMMA DocumentStore ==
    ASSUME IsFiniteSet(Req), NoFormat \notin Format, DocumentInvariant, NEW r \in Req,
           Papers!StoreInvoice(r)
    PROVE  DocumentInvariant'
<1> USE DEF DocumentInvariant
<1>1. /\ paperPc[r] = "rendered" /\ format[r] \in Format
      /\ Papers!EndRequest(r) /\ UNCHANGED paperRaced
  BY DEF Papers!StoreInvoice, RequestTypes
<1>2. /\ rows' \in [Format -> Nat]
      /\ \A g \in Format : g # format[r] => rows'[g] = rows[g]
      /\ rows'[format[r]] = IF overwrite[r] THEN 1 ELSE rows[format[r]] + 1
      /\ overwrite[r] => rows[format[r]] <= 1
  BY <1>1 DEF Papers!StoreInvoice, RequestTypes
<1>3. ASSUME NEW g \in Format, g \notin paperRaced PROVE Alone(g)'
  <2>1. CASE g = format[r]
    <3>1. rows'[g] = 1 /\ \A q \in Req : ~(format'[q] = g /\ paperPc'[q] = "rendered")
      BY <1>1, <1>2, <1>3, <2>1, EndLeavesOthers DEF RequestTypes, Alone
    <3>2. QED
      BY <3>1 DEF Alone
  <2>2. CASE g # format[r]
    BY <1>1, <1>2, <1>3, <2>2, EndLeavesOthers DEF Alone
  <2>3. QED
    BY <2>1, <2>2
<1>4. ASSUME NEW g \in Format PROVE Few(g)'
  <2>1. /\ Inserting(g)' \subseteq Inserting(g) \ {r}
        /\ r \in Inserting(g) <=> g = format[r] /\ ~overwrite[r]
    BY <1>1, EndLeavesOthers DEF Inserting, RequestTypes
  <2>2. CASE g # format[r]
    BY <1>2, <2>1, <2>2, FewerInsert
  <2>3. CASE g = format[r]
    <3> DEFINE C == Cardinality(Inserting(g))
               D == Cardinality(Inserting(g)')
               N == Cardinality(Req)
    <3>1. IsFiniteSet(Inserting(g)) /\ IsFiniteSet(Req \ {r}) /\ Cardinality(Req \ {r}) = N - 1
      BY FS_Subset, FS_RemoveElement DEF Inserting
    <3>2. IsFiniteSet(Inserting(g) \ {r})
          /\ Cardinality(Inserting(g) \ {r}) = IF r \in Inserting(g) THEN C - 1 ELSE C
      BY <3>1, FS_RemoveElement
    <3>3. IsFiniteSet(Inserting(g)') /\ D <= Cardinality(Inserting(g) \ {r})
      <4>1. Inserting(g)' \in SUBSET (Inserting(g) \ {r})
        BY <2>1
      <4>2. QED
        BY <3>2, <4>1, FS_Subset
    <3>4. D <= N - 1
      <4>1. Inserting(g)' \in SUBSET (Req \ {r})
        BY <2>1 DEF Inserting
      <4>2. QED
        BY <3>1, <4>1, FS_Subset
    <3>5. C \in Nat /\ D \in Nat /\ N \in Nat /\ rows[g] \in Nat
      BY <3>1, <3>3, FS_CardinalityType DEF RequestTypes
    <3>6. D <= IF overwrite[r] THEN C ELSE C - 1
      BY <2>1, <2>3, <3>2, <3>3
    <3>7. rows'[g] = IF overwrite[r] THEN 1 ELSE rows[g] + 1
      BY <1>2, <2>3
    <3>8. rows[g] = 0 \/ rows[g] + C <= N
      BY DEF Few
    <3>9. rows'[g] + D <= N
      <4> HIDE DEF C, D, N
      <4>1. CASE overwrite[r]
        BY <3>4, <3>5, <3>7, <4>1
      <4>2. CASE ~overwrite[r]
        BY <3>4, <3>5, <3>6, <3>7, <3>8, <4>2
      <4>3. QED
        BY <4>1, <4>2
    <3>10. D = Cardinality(Inserting(g))'
      OBVIOUS
    <3>11. QED
      BY <3>9, <3>10 DEF Few
  <2>4. QED
    BY <2>2, <2>3
<1>5. QED
  BY <1>1, <1>2, <1>3, <1>4, EndLeavesOthers DEF RequestTypes

\* Every step of Invoices keeps the invariant.
LEMMA DocumentStep ==
    ASSUME IsFiniteSet(Req), NoFormat \notin Format, DocumentInvariant,
           [Papers!Next]_(Papers!vars)
    PROVE  DocumentInvariant'
<1>1. CASE UNCHANGED <<rows, paperPc, format, overwrite, paperRaced>>
  <2>1. \A f \in Format : Inserting(f)' = Inserting(f)
    BY <1>1 DEF Inserting
  <2>2. \A f \in Format : Few(f)'
    BY <1>1, <2>1, FewerInsert DEF DocumentInvariant
  <2>3. QED
    BY <1>1, <2>2 DEF DocumentInvariant, RequestTypes, Alone
<1>2. ASSUME NEW r \in Req, Papers!BeginNote(r) \/ (Papers!WriteNote(r) /\ ~Papers!EndRequest(r))
      PROVE  DocumentInvariant'
  <2>1. /\ \A q \in Req : paperPc'[q] = paperPc[q] \/ paperPc'[q] \in {"read", "written"}
        /\ UNCHANGED <<rows, format, overwrite, paperRaced>>
        /\ paperPc' \in [Req -> {"ready", "found", "rendered", "read", "written"}]
    BY <1>2 DEF Papers!BeginNote, Papers!WriteNote, DocumentInvariant, RequestTypes
  <2>2. ASSUME NEW f \in Format PROVE Few(f)'
    <3>1. Inserting(f)' \subseteq Inserting(f)
      BY <2>1 DEF Inserting
    <3>2. QED
      BY <2>1, <3>1, FewerInsert DEF DocumentInvariant
  <2>3. RequestTypes' /\ \A f \in Format : f \in paperRaced' \/ Alone(f)'
    BY <2>1 DEF DocumentInvariant, RequestTypes, Alone
  <2>4. QED
    BY <2>2, <2>3 DEF DocumentInvariant
<1>3. ASSUME NEW r \in Req,
             \/ Papers!Refuse(r) \/ Papers!SendNote(r)
             \/ Papers!WriteNote(r) /\ Papers!EndRequest(r)
      PROVE  DocumentInvariant'
  BY <1>3, DocumentEnd DEF Papers!Refuse, Papers!SendNote, Papers!WriteNote
<1>4. ASSUME NEW g \in [Line -> 0..Papers!UnitsSold], Papers!ReturnSale(g) PROVE DocumentInvariant'
  BY <1>1, <1>4 DEF Papers!ReturnSale, Papers!requests
<1>5. CASE Papers!ConfirmSale
  BY <1>1, <1>5 DEF Papers!ConfirmSale, Papers!requests, Papers!history
<1>6. CASE UNCHANGED Papers!vars
  BY <1>1, <1>6 DEF Papers!vars, Papers!requests, Papers!history
<1> QED
  BY <1>2, <1>3, <1>4, <1>5, <1>6, DocumentBegin, DocumentFind, DocumentStore DEF Papers!Next

\* One invoice is stored of a format, replacements included, unless two requests
\* were between the look-up and the insert of that format at a time, and then no
\* more than there are requests (OneInvoice).
THEOREM InvoicesAreStoredOnce ==
    ASSUME IsFiniteSet(Req)
    PROVE  Spec => []OneInvoice
<1>1. Init => DocumentInvariant
  BY DocumentInit, NoneAssumption DEF Init
<1>2. DocumentInvariant /\ [Next]_vars => DocumentInvariant'
  BY DocumentStep, PaperNext, NoneAssumption
<1>3. DocumentInvariant => OneInvoice
  <2> SUFFICES ASSUME DocumentInvariant, NEW f \in Format
               PROVE  rows[f] <= IF f \in paperRaced THEN Papers!Cardinality(Req) ELSE 1
    BY DEF OneInvoice, Papers!OneInvoice
  <2>1. rows[f] \in Nat /\ (f \in paperRaced \/ rows[f] <= 1) /\ Few(f)
    BY DEF DocumentInvariant, RequestTypes, Alone
  <2>2. Cardinality(Req) \in Nat /\ Cardinality(Inserting(f)) \in Nat
    BY FS_Subset, FS_CardinalityType DEF Inserting
  <2>3. rows[f] <= Cardinality(Req)
    BY <2>1, <2>2 DEF Few
  <2>4. Papers!Cardinality(Req) = Cardinality(Req)
    BY DEF Papers!Cardinality, Cardinality
  <2>5. QED
    BY <2>1, <2>3, <2>4
<1>4. QED
  BY <1>1, <1>2, <1>3, PTL DEF Spec

-----------------------------------------------------------------------------
(* Invoices: credit notes                                                  *)

\* The value of the units u of the lines, and what its sum in the code chooses.
WorthEach(u) == [l \in Line |-> u[l] * Value[l]]
WorthOf(u)   == SumOver(WorthEach(u), Line)

WorthSummed(u, h) ==
    h = [S \in SUBSET Line |->
            IF S = {} THEN 0 ELSE u[Pick(S)] * Value[Pick(S)] + h[S \ {Pick(S)}]]

\* What came back of each line, what a credit note has seen of it, and the
\* units that a return moves of a part.
CameBack == [l \in Line |-> IF basket[l] = External THEN external[l] ELSE moved[basket[l]]]
Seen(r)  == [l \in Line |-> IF basket[l] = External THEN paperView[r][l] ELSE moved[basket[l]]]

\* What the sum of a credit note chooses.
NoteSummed(r, h) ==
    h = [S \in SUBSET Line |->
            IF S = {} THEN 0
            ELSE (IF basket[Pick(S)] = External THEN paperView[r][Pick(S)] ELSE moved[basket[Pick(S)]])
                    * Value[Pick(S)] + h[S \ {Pick(S)}]]

\* The units that a return g moves of a part p.
MovedEach(p, g) == [l \in Line |-> IF basket[l] = p THEN g[l] ELSE 0]
MovedSummed(p, g, h) ==
    h = [S \in SUBSET Line |->
            IF S = {} THEN 0
            ELSE (IF basket[Pick(S)] = p THEN g[Pick(S)] ELSE 0) + h[S \ {Pick(S)}]]

\* A return adds its fold to what was refunded.
LEMMA RefundUnfolds ==
    \A g : Papers!ReturnSale(g) => refunded' = refunded + (CHOOSE h : WorthSummed(g, h))[Line]
BY DEF Papers!ReturnSale, Papers!MapThenSumSet, Papers!MapThenFoldSet, WorthSummed, Pick

\* A credit note is the fold of what it has seen.
LEMMA NoteUnfolds ==
    \A r : Papers!WriteNote(r) /\ ~Papers!EndRequest(r) =>
              note' = [note EXCEPT ![r] = (CHOOSE h : NoteSummed(r, h))[Line]]
BY DEF Papers!WriteNote, Papers!Units, Papers!MapThenSumSet, Papers!MapThenFoldSet, NoteSummed, Pick

\* What is moved of a part is the fold of its lines.
LEMMA MovedUnfolds ==
    \A p, g : Papers!MovedOf(p, g) = (CHOOSE h : MovedSummed(p, g, h))[Line]
BY DEF Papers!MovedOf, Papers!MapThenSumSet, Papers!MapThenFoldSet, MovedSummed, Pick

\* The fold of a return is its worth.
LEMMA WorthFolded ==
    ASSUME NEW u
    PROVE  (CHOOSE h : WorthSummed(u, h))[Line] = WorthOf(u)
<1> DEFINE f == WorthEach(u)
           g == [S \in SUBSET Line |-> SumOver(f, S)]
<1>1. \A S \in SUBSET Line : S # {} => /\ Pick(S) \in Line /\ S \ {Pick(S)} \in SUBSET Line
                                      /\ f[Pick(S)] = u[Pick(S)] * Value[Pick(S)]
  BY PickIn DEF WorthEach
<1>2. \A S \in SUBSET Line : SumOver(f, S) = IF S = {} THEN 0 ELSE f[Pick(S)] + SumOver(f, S \ {Pick(S)})
  <2> HIDE DEF f
  <2>1. QED
    BY LineAssumption, FS_Subset, SumStep
<1>3. WorthSummed(u, g)
  <2>1. \A S \in SUBSET Line : g[S] = IF S = {} THEN 0 ELSE u[Pick(S)] * Value[Pick(S)] + g[S \ {Pick(S)}]
    <3> HIDE DEF f
    <3>1. QED
      BY <1>1, <1>2
  <2>2. g = [S \in SUBSET Line |-> IF S = {} THEN 0 ELSE u[Pick(S)] * Value[Pick(S)] + g[S \ {Pick(S)}]]
    BY <2>1
  <2>3. QED
    BY <2>2 DEF WorthSummed
<1>4. PICK h : h = CHOOSE i : WorthSummed(u, i)
  OBVIOUS
<1>5. WorthSummed(u, h)
  <2> HIDE DEF g
  <2> QED
    BY <1>3, <1>4
<1>6. \A S \in SUBSET Line : h[S] = IF S = {} THEN 0 ELSE f[Pick(S)] + h[S \ {Pick(S)}]
  BY <1>1, <1>5 DEF WorthSummed
<1>7. h[Line] = SumOver(f, Line)
  <2> HIDE DEF f
  <2> QED
    BY <1>6, LineAssumption, ChoiceSums
<1>8. QED
  BY <1>4, <1>7 DEF WorthOf

\* The fold of a credit note is the worth of what it has seen.
LEMMA NoteFolded ==
    ASSUME NEW r
    PROVE  (CHOOSE h : NoteSummed(r, h))[Line] = WorthOf(Seen(r))
<1> DEFINE f == WorthEach(Seen(r))
           g == [S \in SUBSET Line |-> SumOver(f, S)]
           e(l) == (IF basket[l] = External THEN paperView[r][l] ELSE moved[basket[l]]) * Value[l]
<1>1. \A S \in SUBSET Line : S # {} => /\ Pick(S) \in Line /\ S \ {Pick(S)} \in SUBSET Line
                                      /\ f[Pick(S)] = e(Pick(S))
  BY PickIn DEF WorthEach, Seen
<1>2. \A S \in SUBSET Line : SumOver(f, S) = IF S = {} THEN 0 ELSE f[Pick(S)] + SumOver(f, S \ {Pick(S)})
  <2> HIDE DEF f
  <2>1. QED
    BY LineAssumption, FS_Subset, SumStep
<1>3. NoteSummed(r, g)
  <2>1. \A S \in SUBSET Line : g[S] = IF S = {} THEN 0 ELSE e(Pick(S)) + g[S \ {Pick(S)}]
    <3> HIDE DEF f, e
    <3>1. QED
      BY <1>1, <1>2
  <2>2. g = [S \in SUBSET Line |-> IF S = {} THEN 0 ELSE e(Pick(S)) + g[S \ {Pick(S)}]]
    BY <2>1
  <2>3. QED
    BY <2>2 DEF NoteSummed
<1>4. PICK h : h = CHOOSE i : NoteSummed(r, i)
  OBVIOUS
<1>5. NoteSummed(r, h)
  <2> HIDE DEF g
  <2> QED
    BY <1>3, <1>4
<1>6. \A S \in SUBSET Line : h[S] = IF S = {} THEN 0 ELSE f[Pick(S)] + h[S \ {Pick(S)}]
  BY <1>1, <1>5 DEF NoteSummed
<1>7. h[Line] = SumOver(f, Line)
  <2> HIDE DEF f
  <2> QED
    BY <1>6, LineAssumption, ChoiceSums
<1>8. QED
  BY <1>4, <1>7 DEF WorthOf

\* The fold of the units of a part is their sum.
LEMMA MovedFolded ==
    ASSUME NEW p, NEW q
    PROVE  Papers!MovedOf(p, q) = SumOver(MovedEach(p, q), Line)
<1> DEFINE f == MovedEach(p, q)
           g == [S \in SUBSET Line |-> SumOver(f, S)]
           e(l) == IF basket[l] = p THEN q[l] ELSE 0
<1>1. \A S \in SUBSET Line : S # {} => /\ Pick(S) \in Line /\ S \ {Pick(S)} \in SUBSET Line
                                      /\ f[Pick(S)] = e(Pick(S))
  BY PickIn DEF MovedEach
<1>2. \A S \in SUBSET Line : SumOver(f, S) = IF S = {} THEN 0 ELSE f[Pick(S)] + SumOver(f, S \ {Pick(S)})
  <2> HIDE DEF f
  <2>1. QED
    BY LineAssumption, FS_Subset, SumStep
<1>3. MovedSummed(p, q, g)
  <2>1. \A S \in SUBSET Line : g[S] = IF S = {} THEN 0 ELSE e(Pick(S)) + g[S \ {Pick(S)}]
    <3> HIDE DEF f, e
    <3>1. QED
      BY <1>1, <1>2
  <2>2. g = [S \in SUBSET Line |-> IF S = {} THEN 0 ELSE e(Pick(S)) + g[S \ {Pick(S)}]]
    BY <2>1
  <2>3. QED
    BY <2>2 DEF MovedSummed
<1>4. PICK h : h = CHOOSE i : MovedSummed(p, q, i)
  OBVIOUS
<1>5. MovedSummed(p, q, h)
  <2> HIDE DEF g
  <2> QED
    BY <1>3, <1>4
<1>6. \A S \in SUBSET Line : h[S] = IF S = {} THEN 0 ELSE f[Pick(S)] + h[S \ {Pick(S)}]
  BY <1>1, <1>5 DEF MovedSummed
<1>7. h[Line] = SumOver(f, Line)
  <2> HIDE DEF f
  <2> QED
    BY <1>6, LineAssumption, ChoiceSums
<1>8. QED
  BY <1>4, <1>7, MovedUnfolds

\* The types of what credit notes are about.
NoteTypes ==
    /\ basket \in [Line -> Part \cup {External}]
    /\ external \in [Line -> Nat]
    /\ moved \in [Part -> Nat]
    /\ refunded \in Nat
    /\ paperPc \in [Req -> {"ready", "found", "rendered", "read", "written"}]
    /\ paperView \in [Req -> [Line -> Nat]]
    /\ note \in [Req -> Nat] /\ least \in [Req -> Nat] /\ most \in [Req -> Nat]

\* No part is on two lines of the sale.
PartsApart == \A k, l \in Line : k # l => basket[k] # basket[l] \/ basket[k] = External

\* A credit note that has read the lines lags behind the returns at most, and
\* one that is written lies between what came back before and after.
NoteStands(r) ==
    /\ paperPc[r] = "read" =>
          /\ \A l \in Line : paperView[r][l] <= external[l]
          /\ least[r] <= WorthOf(Seen(r))
    /\ paperPc[r] = "written" => least[r] <= note[r] /\ note[r] <= most[r]

\* What the proof of NoteMatchesRefunds carries.
NoteInvariant ==
    /\ NoteTypes
    /\ PartsApart => /\ refunded = WorthOf(CameBack)
                     /\ \A r \in Req : NoteStands(r)

\* A worth is a number, line by line and in all.
LEMMA WorthType ==
    ASSUME NEW u \in [Line -> Nat]
    PROVE  /\ \A l \in Line : WorthEach(u)[l] = u[l] * Value[l] /\ WorthEach(u)[l] \in Nat
           /\ WorthOf(u) \in Nat
<1>1. \A l \in Line : WorthEach(u)[l] = u[l] * Value[l] /\ WorthEach(u)[l] \in Nat
  <2>1. ASSUME NEW l \in Line PROVE u[l] * Value[l] \in Nat
    BY ValueAssumption
  <2>2. QED
    BY <2>1 DEF WorthEach
<1>2. PICK f : f = WorthEach(u)
  OBVIOUS
<1>3. SumOver(f, Line) \in Nat
  BY <1>1, <1>2, LineAssumption, SumType
<1>4. QED
  BY <1>1, <1>2, <1>3 DEF WorthOf

\* More units are worth more.
LEMMA WorthGrows ==
    ASSUME NEW u \in [Line -> Nat], NEW v \in [Line -> Nat], \A l \in Line : u[l] <= v[l]
    PROVE  WorthOf(u) <= WorthOf(v)
<1>1. PICK f, g : f = WorthEach(u) /\ g = WorthEach(v)
  OBVIOUS
<1>2. ASSUME NEW l \in Line PROVE f[l] \in Int /\ g[l] \in Int /\ f[l] <= g[l]
  <2>1. PICK a \in Nat, b \in Nat, c \in Nat : a = u[l] /\ b = v[l] /\ c = Value[l]
    BY ValueAssumption
  <2>2. a <= b /\ f[l] = a * c /\ g[l] = b * c
    BY <1>1, <2>1 DEF WorthEach
  <2>3. PICK d \in Nat : b = a + d
    <3>1. b - a \in Nat /\ b = a + (b - a)
      BY <2>2
    <3>2. QED
      BY <3>1
  <2>4. b * c = a * c + d * c /\ a * c \in Nat /\ d * c \in Nat
    BY <2>3
  <2>5. PICK m, n : m = a * c /\ n = d * c
    OBVIOUS
  <2>6. m <= m + n
    BY <2>4, <2>5
  <2>7. QED
    BY <2>2, <2>4, <2>5, <2>6
<1>3. SumOver(f, Line) <= SumOver(g, Line)
  BY <1>2, LineAssumption, SumMonotone
<1>4. QED
  BY <1>1, <1>3 DEF WorthOf

\* The worth of units that are put together is put together.
LEMMA WorthAdds ==
    ASSUME NEW u \in [Line -> Nat], NEW v \in [Line -> Nat], NEW w \in [Line -> Nat],
           \A l \in Line : w[l] = u[l] + v[l]
    PROVE  WorthOf(w) = WorthOf(u) + WorthOf(v)
<1>1. PICK f, g, k : f = WorthEach(u) /\ g = WorthEach(v) /\ k = WorthEach(w)
  OBVIOUS
<1>2. ASSUME NEW l \in Line PROVE f[l] \in Int /\ g[l] \in Int /\ k[l] = f[l] + g[l]
  <2>1. PICK a \in Nat, b \in Nat, c \in Nat : a = u[l] /\ b = v[l] /\ c = Value[l]
    BY ValueAssumption
  <2>2. k[l] = (a + b) * c /\ f[l] = a * c /\ g[l] = b * c
    BY <1>1, <2>1 DEF WorthEach
  <2>3. (a + b) * c = a * c + b * c /\ a * c \in Nat /\ b * c \in Nat
    OBVIOUS
  <2>4. QED
    BY <2>2, <2>3
<1>3. SumOver(k, Line) = SumOver(f, Line) + SumOver(g, Line)
  BY <1>2, LineAssumption, SumAdds
<1>4. QED
  BY <1>1, <1>3 DEF WorthOf

\* A return adds to each line what it gives back of it.
LEMMA ReturnAdds ==
    ASSUME NoteTypes, NEW g \in [Line -> 0..Papers!UnitsSold], Papers!ReturnSale(g)
    PROVE  /\ g \in [Line -> Nat]
           /\ external' \in [Line -> Nat] /\ moved' \in [Part -> Nat]
           /\ \A l \in Line : external[l] <= external'[l]
           /\ \A p \in Part : moved[p] <= moved'[p]
           /\ refunded' = refunded + WorthOf(g)
           /\ PartsApart => \A l \in Line : CameBack'[l] = CameBack[l] + g[l]
           /\ UNCHANGED <<basket, paperPc, paperView, note, least, most>>
<1>1. g \in [Line -> Nat]
  OBVIOUS
<1>2. /\ external' = [l \in Line |-> external[l] + IF basket[l] = External THEN g[l] ELSE 0]
      /\ moved' = [p \in Part |-> moved[p] + Papers!MovedOf(p, g)]
      /\ UNCHANGED <<basket, paperPc, paperView, note, least, most>>
  BY DEF Papers!ReturnSale, Papers!requests
<1>3. refunded' = refunded + WorthOf(g)
  BY RefundUnfolds, WorthFolded
<1>4. ASSUME NEW p PROVE Papers!MovedOf(p, g) \in Nat
  <2>1. PICK f : f = MovedEach(p, g)
    OBVIOUS
  <2>2. \A l \in Line : f[l] \in Nat
    BY <1>1, <2>1 DEF MovedEach
  <2>3. SumOver(f, Line) \in Nat
    BY <2>2, LineAssumption, SumType
  <2>4. QED
    BY <2>1, <2>3, MovedFolded
<1>5. /\ external' \in [Line -> Nat] /\ moved' \in [Part -> Nat]
      /\ \A l \in Line : external[l] <= external'[l]
      /\ \A p \in Part : moved[p] <= moved'[p]
  BY <1>1, <1>2, <1>4 DEF NoteTypes
<1>6. ASSUME PartsApart, NEW l \in Line PROVE CameBack'[l] = CameBack[l] + g[l]
  <2>1. CASE basket[l] = External
    BY <1>2, <2>1 DEF CameBack
  <2>2. CASE basket[l] # External
    <3>1. PICK f : f = MovedEach(basket[l], g)
      OBVIOUS
    <3>2. f[l] = g[l] /\ f[l] \in Int /\ \A k \in Line \ {l} : f[k] = 0
      BY <1>1, <1>6, <2>2, <3>1 DEF MovedEach, PartsApart
    <3>3. SumOver(f, Line) = f[l]
      BY <3>2, LineAssumption, SumSingle
    <3>4. Papers!MovedOf(basket[l], g) = g[l]
      BY <3>1, <3>2, <3>3, MovedFolded
    <3>5. basket[l] \in Part /\ basket' = basket
      BY <1>2, <2>2 DEF NoteTypes
    <3>6. moved'[basket[l]] = moved[basket[l]] + g[l]
      BY <1>2, <3>4, <3>5
    <3>7. QED
      BY <2>2, <3>5, <3>6 DEF CameBack
  <2>3. QED
    BY <2>1, <2>2
<1>7. QED
  BY <1>1, <1>2, <1>3, <1>5, <1>6

\* What came back, and what was seen of it, are numbers.
LEMMA BackTypes ==
    ASSUME NoteTypes
    PROVE  CameBack \in [Line -> Nat] /\ \A r \in Req : Seen(r) \in [Line -> Nat]
BY DEF NoteTypes, CameBack, Seen

\* A return keeps the invariant, whoever is in the middle of a credit note.
LEMMA NoteReturned ==
    ASSUME NoteInvariant, NEW g \in [Line -> 0..Papers!UnitsSold], Papers!ReturnSale(g)
    PROVE  NoteInvariant'
<1>1. /\ g \in [Line -> Nat]
      /\ external' \in [Line -> Nat] /\ moved' \in [Part -> Nat]
      /\ \A l \in Line : external[l] <= external'[l]
      /\ \A p \in Part : moved[p] <= moved'[p]
      /\ refunded' = refunded + WorthOf(g)
      /\ PartsApart => \A l \in Line : CameBack'[l] = CameBack[l] + g[l]
      /\ UNCHANGED <<basket, paperPc, paperView, note, least, most>>
  BY ReturnAdds DEF NoteInvariant
<1>2. WorthOf(g) \in Nat
  BY <1>1, WorthType
<1>3. NoteTypes'
  BY <1>1, <1>2 DEF NoteInvariant, NoteTypes
<1>4. CameBack' \in [Line -> Nat] /\ \A r \in Req : Seen(r)' \in [Line -> Nat]
  BY <1>3 DEF NoteTypes, CameBack, Seen
<1>5. CameBack \in [Line -> Nat] /\ \A r \in Req : Seen(r) \in [Line -> Nat]
  BY BackTypes DEF NoteInvariant
<1>6. ASSUME PartsApart PROVE refunded' = WorthOf(CameBack')
  <2>1. WorthOf(CameBack') = WorthOf(CameBack) + WorthOf(g)
    BY <1>1, <1>4, <1>5, <1>6, WorthAdds
  <2>2. QED
    BY <1>1, <1>6, <2>1 DEF NoteInvariant
<1>7. ASSUME PartsApart, NEW r \in Req PROVE NoteStands(r)'
  <2>1. \A l \in Line : Seen(r)[l] <= Seen(r)'[l]
    BY <1>1 DEF Seen, NoteInvariant, NoteTypes
  <2>2. WorthOf(Seen(r)) <= WorthOf(Seen(r)') /\ WorthOf(Seen(r)) \in Nat /\ WorthOf(Seen(r)') \in Nat
    BY <1>4, <1>5, <2>1, WorthGrows, WorthType
  <2>3. paperPc[r] = "read" => least[r] <= WorthOf(Seen(r)')
    BY <1>7, <2>2 DEF NoteInvariant, NoteStands, NoteTypes
  <2>4. paperPc[r] = "read" => \A l \in Line : paperView[r][l] <= external'[l]
    BY <1>1, <1>7 DEF NoteInvariant, NoteStands, NoteTypes
  <2>5. QED
    BY <1>1, <1>7, <2>3, <2>4 DEF NoteInvariant, NoteStands
<1>8. PartsApart' <=> PartsApart
  BY <1>1 DEF PartsApart
<1>9. QED
  BY <1>3, <1>6, <1>7, <1>8 DEF NoteInvariant

\* Whatever leaves the sale alone keeps what holds of a note it leaves alone.
LEMMA NoteElsewhere ==
    ASSUME NoteInvariant, NoteTypes', UNCHANGED <<basket, external, moved, refunded>>,
           PartsApart => \A r \in Req :
              \/ paperPc'[r] \notin {"read", "written"}
              \/ UNCHANGED <<paperPc[r], paperView[r], note[r], least[r], most[r]>>
              \/ NoteStands(r)'
    PROVE  NoteInvariant'
<1>1. PartsApart' <=> PartsApart
  BY DEF PartsApart
<1>2. CameBack' = CameBack
  BY DEF CameBack
<1>3. PartsApart => refunded' = WorthOf(CameBack')
  BY <1>2 DEF NoteInvariant
<1>4. ASSUME PartsApart, NEW r \in Req, UNCHANGED <<paperPc[r], paperView[r], note[r], least[r], most[r]>>
      PROVE  NoteStands(r)'
  <2>1. Seen(r)' = Seen(r)
    BY <1>4 DEF Seen
  <2>2. NoteStands(r)
    BY <1>4 DEF NoteInvariant
  <2>3. QED
    BY <1>4, <2>1, <2>2 DEF NoteStands
<1>5. ASSUME NEW r \in Req, paperPc'[r] \notin {"read", "written"} PROVE NoteStands(r)'
  BY <1>5 DEF NoteStands
<1>6. QED
  BY <1>1, <1>3, <1>4, <1>5 DEF NoteInvariant

\* A request that ends keeps the invariant.
LEMMA NoteEnds ==
    ASSUME NoteInvariant, NEW r \in Req, Papers!EndRequest(r), UNCHANGED <<basket, external, moved, refunded>>
    PROVE  NoteInvariant'
<1>1. /\ NoteTypes' /\ paperPc'[r] = "ready"
      /\ \A q \in Req : q # r =>
            UNCHANGED <<paperPc[q], paperView[q], note[q], least[q], most[q]>>
  BY DEF NoteInvariant, NoteTypes, Papers!EndRequest, Papers!Zero
<1>2. QED
  BY <1>1, NoteElsewhere

\* A note that is written keeps it.
LEMMA NoteWritten ==
    ASSUME NoteInvariant, NEW r \in Req, Papers!WriteNote(r), ~Papers!EndRequest(r)
    PROVE  NoteInvariant'
<1>1. /\ paperPc[r] = "read" /\ paperPc' = [paperPc EXCEPT ![r] = "written"]
      /\ most' = [most EXCEPT ![r] = refunded]
      /\ UNCHANGED <<basket, external, moved, refunded, paperView, least>>
  BY DEF Papers!WriteNote, Papers!sale
<1>2. note' = [note EXCEPT ![r] = WorthOf(Seen(r))]
  BY NoteUnfolds, NoteFolded
<1>3. Seen(r) \in [Line -> Nat] /\ CameBack \in [Line -> Nat]
  BY BackTypes DEF NoteInvariant
<1>4. WorthOf(Seen(r)) \in Nat /\ WorthOf(CameBack) \in Nat
  BY <1>3, WorthType
<1>5. NoteTypes'
  BY <1>1, <1>2, <1>4 DEF NoteInvariant, NoteTypes
<1>6. ASSUME PartsApart PROVE NoteStands(r)'
  <2>1. ASSUME NEW l \in Line PROVE Seen(r)[l] <= CameBack[l]
    <3>1. paperView[r][l] <= external[l]
      BY <1>1, <1>6 DEF NoteInvariant, NoteStands
    <3>2. CASE basket[l] = External
      BY <3>1, <3>2 DEF Seen, CameBack
    <3>3. CASE basket[l] # External
      <4>1. Seen(r)[l] = moved[basket[l]] /\ CameBack[l] = moved[basket[l]]
        BY <3>3 DEF Seen, CameBack
      <4>2. moved[basket[l]] \in Nat
        BY <3>3 DEF NoteInvariant, NoteTypes
      <4>3. QED
        BY <4>1, <4>2
    <3>4. QED
      BY <3>2, <3>3
  <2>2. WorthOf(Seen(r)) <= WorthOf(CameBack)
    BY <1>3, <2>1, WorthGrows
  <2>3. least[r] <= WorthOf(Seen(r)) /\ refunded = WorthOf(CameBack)
    BY <1>1, <1>6 DEF NoteInvariant, NoteStands
  <2>4. note'[r] = WorthOf(Seen(r)) /\ most'[r] = refunded /\ paperPc'[r] = "written" /\ least'[r] = least[r]
    BY <1>1, <1>2 DEF NoteInvariant, NoteTypes
  <2>5. QED
    BY <2>2, <2>3, <2>4 DEF NoteStands
<1>7. \A q \in Req : q # r => UNCHANGED <<paperPc[q], paperView[q], note[q], least[q], most[q]>>
  BY <1>1, <1>2 DEF NoteInvariant, NoteTypes
<1>8. QED
  BY <1>1, <1>5, <1>6, <1>7, NoteElsewhere

\* A note that has read the lines keeps it.
LEMMA NoteBegun ==
    ASSUME NoteInvariant, NEW r \in Req, Papers!BeginNote(r)
    PROVE  NoteInvariant'
<1>1. /\ paperPc' = [paperPc EXCEPT ![r] = "read"] /\ paperView' = [paperView EXCEPT ![r] = external]
      /\ least' = [least EXCEPT ![r] = refunded]
      /\ UNCHANGED <<basket, external, moved, refunded, note, most>>
  BY DEF Papers!BeginNote, Papers!sale
<1>2. NoteTypes'
  BY <1>1 DEF NoteInvariant, NoteTypes
<1>3. ASSUME PartsApart PROVE NoteStands(r)'
  <2>1. paperView'[r] = external /\ least'[r] = refunded /\ paperPc'[r] = "read"
    BY <1>1 DEF NoteInvariant, NoteTypes
  <2>2. Seen(r)' = CameBack
    BY <1>1, <2>1 DEF Seen, CameBack
  <2>3. refunded = WorthOf(CameBack) /\ refunded \in Nat
    BY <1>3 DEF NoteInvariant, NoteTypes
  <2>4. least'[r] <= WorthOf(Seen(r)')
    BY <2>1, <2>2, <2>3
  <2>5. \A l \in Line : paperView'[r][l] <= external'[l]
    BY <1>1, <2>1 DEF NoteInvariant, NoteTypes
  <2>6. QED
    BY <2>1, <2>4, <2>5 DEF NoteStands
<1>4. \A q \in Req : q # r => UNCHANGED <<paperPc[q], paperView[q], note[q], least[q], most[q]>>
  BY <1>1 DEF NoteInvariant, NoteTypes
<1>5. QED
  BY <1>1, <1>2, <1>3, <1>4, NoteElsewhere

\* Every step of Invoices keeps the invariant.
LEMMA NoteStep ==
    ASSUME NoteInvariant, [Papers!Next]_(Papers!vars)
    PROVE  NoteInvariant'
<1>1. ASSUME UNCHANGED <<basket, external, moved, refunded, paperView, note, least, most>>,
             paperPc' \in [Req -> {"ready", "found", "rendered", "read", "written"}],
             \A r \in Req : paperPc'[r] = paperPc[r] \/ paperPc'[r] \notin {"read", "written"}
      PROVE  NoteInvariant'
  <2>1. NoteTypes'
    BY <1>1 DEF NoteInvariant, NoteTypes
  <2>2. QED
    BY <1>1, <2>1, NoteElsewhere
<1>2. ASSUME NEW r \in Req, NEW f \in Format, NEW replace \in BOOLEAN, Papers!BeginGenerate(r, f, replace)
      PROVE  NoteInvariant'
  BY <1>1, <1>2 DEF Papers!BeginGenerate, Papers!sale, NoteInvariant, NoteTypes
<1>3. ASSUME NEW r \in Req, Papers!FindNoInvoice(r) PROVE NoteInvariant'
  BY <1>1, <1>3 DEF Papers!FindNoInvoice, Papers!sale, Papers!history, NoteInvariant, NoteTypes
<1>4. ASSUME NEW r \in Req, Papers!Refuse(r) \/ Papers!StoreInvoice(r) \/ Papers!SendNote(r)
      PROVE  NoteInvariant'
  BY <1>4, NoteEnds DEF Papers!Refuse, Papers!StoreInvoice, Papers!SendNote, Papers!sale
<1>5. ASSUME NEW r \in Req, Papers!WriteNote(r) PROVE NoteInvariant'
  <2>1. CASE Papers!EndRequest(r)
    BY <1>5, <2>1, NoteEnds DEF Papers!WriteNote, Papers!sale
  <2>2. CASE ~Papers!EndRequest(r)
    BY <1>5, <2>2, NoteWritten
  <2>3. QED
    BY <2>1, <2>2
<1>6. CASE Papers!ConfirmSale
  BY <1>1, <1>6 DEF Papers!ConfirmSale, Papers!requests, Papers!history, NoteInvariant, NoteTypes
<1>7. CASE UNCHANGED Papers!vars
  BY <1>1, <1>7 DEF Papers!vars, Papers!sale, Papers!requests, Papers!history, NoteInvariant, NoteTypes
<1>8. QED
  BY <1>2, <1>3, <1>4, <1>5, <1>6, <1>7, NoteReturned, NoteBegun DEF Papers!Next

\* A behaviour starts with nothing returned.
LEMMA NoteInit == Papers!Init => NoteInvariant
<1> SUFFICES ASSUME Papers!Init PROVE NoteInvariant
  OBVIOUS
<1>1. NoteTypes
  BY DEF Papers!Init, Papers!Zero, NoteTypes
<1>2. refunded = WorthOf(CameBack)
  <2>1. \A l \in Line : CameBack[l] = 0
    BY DEF Papers!Init, Papers!Zero, CameBack
  <2>2. PICK f : f = WorthEach(CameBack)
    OBVIOUS
  <2>3. ASSUME NEW l \in Line PROVE f[l] = 0
    <3>1. 0 * Value[l] = 0
      BY ValueAssumption
    <3>2. QED
      BY <2>1, <2>2, <3>1 DEF WorthEach
  <2>4. SumOver(f, Line) = 0
    BY <2>3, LineAssumption, SumType
  <2>5. QED
    BY <2>2, <2>4 DEF WorthOf, Papers!Init
<1>3. \A r \in Req : NoteStands(r)
  BY DEF Papers!Init, NoteStands
<1>4. QED
  BY <1>1, <1>2, <1>3 DEF NoteInvariant

\* The credit note of a sale with no part on two lines is for at least what came
\* back before the sale was read and at most what came back before the movements
\* were (NoteMatchesRefunds).
THEOREM NotesMatchRefunds == Spec => []NoteMatchesRefunds
<1>1. Init => NoteInvariant
  BY NoteInit DEF Init
<1>2. NoteInvariant /\ [Next]_vars => NoteInvariant'
  BY NoteStep, PaperNext
<1>3. NoteInvariant => NoteMatchesRefunds
  BY DEF NoteInvariant, PartsApart, NoteStands, NoteMatchesRefunds, Papers!NoteMatchesRefunds
<1>4. QED
  BY <1>1, <1>2, <1>3, PTL DEF Spec

-----------------------------------------------------------------------------
(* PartNumbers                                                             *)

\* Some columns of a row.
PartialRow(f) ==
    /\ DOMAIN f \subseteq Labels!Columns
    /\ "state" \in DOMAIN f => f["state"] \in {"live", "deleted"}
    /\ "number" \in DOMAIN f => f["number"] \in Number \cup {NoNumber}
    /\ "barcode" \in DOMAIN f => f["barcode"] \in Barcode \cup {NoBarcode}

\* A request at work writes columns of a part.
WritesColumns ==
    /\ DOMAIN change = Req
    /\ \A r \in Req : partPc[r] = "idle" => partDoc[r] = NoPart /\ DOMAIN change[r] = {}
    /\ \A r \in Req : partPc[r] # "idle" =>
          /\ partDoc[r] \in Part
          /\ PartialRow(change[r])

\* Who brings a part to life created it, and nobody else works on it.
Creates(r) ==
    partPc[r] # "idle" /\ "state" \in DOMAIN change[r] /\ change[r].state = "live" =>
        /\ row[partDoc[r]] = Labels!NoRow
        /\ \A q \in Req \ {r} : partPc[q] # "idle" => partDoc[q] # partDoc[r]

\* What requests have written, and not committed, is apart from the rows that
\* they leave alone and from what the others have written.
WritesApart ==
    \A r \in Labels!Flushed :
        /\ \A q \in Labels!Flushed \ {r} :
              partDoc[q] # partDoc[r] /\ ~Labels!Equal(Labels!After(r), Labels!After(q))
        /\ \A p \in Part \ {partDoc[r]} : ~Labels!Equal(Labels!After(r), row[p])

\* What IdentifiersUnique says, and of deleted rows too.
RowsApart == \A p, q \in Part : p # q => ~Labels!Equal(row[p], row[q])

\* What both proofs about identifiers carry.
LabelInvariant ==
    /\ row \in [Part -> Labels!Rows]
    /\ active \subseteq Category
    /\ partPc \in [Req -> {"idle", "checked", "flushed"}]
    /\ partDoc \in [Req -> Part \cup {NoPart}]
    /\ WritesColumns
    /\ \A r \in Req : Creates(r)
    /\ WritesApart
    /\ RowsApart

\* A step of the composition is a step of PartNumbers, or leaves it alone.
LEMMA LabelNext == [Next]_vars => [Labels!Next]_(Labels!vars)
BY DEF Next, vars, catalogue, Labels!vars

\* To have an identifier in common is mutual.
LEMMA EqualSym == \A x, y : Labels!Equal(x, y) <=> Labels!Equal(y, x)
BY DEF Labels!Equal

\* Some columns over a row make a row.
LEMMA OverlayTyped ==
    ASSUME NEW f, PartialRow(f), NEW g \in Labels!Rows
    PROVE  Labels!Overlay(f, g) \in Labels!Rows
<1> DEFINE h == Labels!Overlay(f, g)
<1>1. DOMAIN g = Labels!Columns
  BY DEF Labels!Rows, Labels!Columns
<1>2. h = [c \in Labels!Columns |-> IF c \in DOMAIN f THEN f[c] ELSE g[c]]
  BY <1>1 DEF Labels!Overlay
<1>3. /\ h["state"] \in {"none", "live", "deleted"}
      /\ h["number"] \in Number \cup {NoNumber}
      /\ h["barcode"] \in Barcode \cup {NoBarcode}
  BY <1>2 DEF PartialRow, Labels!Rows, Labels!Columns, Labels!Live
<1>4. h = [state |-> h["state"], number |-> h["number"], barcode |-> h["barcode"]]
  BY <1>2 DEF Labels!Columns
<1> QED
  BY <1>3, <1>4 DEF Labels!Rows, Labels!Live

\* What the session emits is some columns of a row.
LEMMA DifferPartial ==
    ASSUME NEW to \in Labels!Rows, NEW old, to.state \in {"live", "deleted"}
    PROVE  PartialRow(Labels!Differ(to, old))
BY DEF Labels!Differ, PartialRow, Labels!Rows, Labels!Columns

\* The invariant has the types.
LEMMA LabelTypes == LabelInvariant => Labels!TypeOK
BY OverlayTyped DEF LabelInvariant, WritesColumns, PartialRow, Labels!TypeOK

\* A behaviour starts with no part.
LEMMA LabelInit == Labels!Init => LabelInvariant
BY DEF Labels!Init, LabelInvariant, WritesColumns, Creates, WritesApart, RowsApart, Labels!NoRow,
       Labels!Rows, Labels!Flushed, Labels!Equal, Labels!Live, Labels!NoChange

\* A request that starts has written nothing, and creates only a part that
\* nobody works on.
LEMMA LabelBegin ==
    ASSUME LabelInvariant, NEW r \in Req, NEW p \in Part, NEW to, Labels!Begin(r, p, to),
           to \in Labels!Rows, to.state \in {"live", "deleted"},
           \/ row[p].state = "live"
           \/ row[p] = Labels!NoRow /\ \A q \in Req : partDoc[q] # p
    PROVE  LabelInvariant'
<1> USE DEF LabelInvariant, Labels!Begin
<1>1. \A q \in Req : /\ partPc'[q] = IF q = r THEN "checked" ELSE partPc[q]
                     /\ partDoc'[q] = IF q = r THEN p ELSE partDoc[q]
                     /\ change'[q] = IF q = r THEN Labels!Differ(to, row[p]) ELSE change[q]
  BY DEF WritesColumns
<1>2. partPc[r] = "idle" /\ UNCHANGED row
  OBVIOUS
<1>3. "state" \in DOMAIN Labels!Differ(to, row[p]) =>
          Labels!Differ(to, row[p]).state = to.state /\ to.state # row[p].state
  BY DEF Labels!Differ
<1>4. WritesColumns'
  <2>1. PartialRow(Labels!Differ(to, row[p]))
    BY <1>3, DifferPartial
  <2>2. QED
    BY <1>1, <2>1 DEF WritesColumns
<1>5. ASSUME NEW q \in Req PROVE Creates(q)'
  <2>1. CASE q = r
    BY <1>1, <1>2, <1>3, <2>1 DEF Creates
  <2>2. CASE q # r
    <3>1. Creates(q)
      OBVIOUS
    <3>2. Labels!NoRow.state # "live"
      BY DEF Labels!NoRow
    <3>3. QED
      BY <1>1, <1>2, <2>2, <3>1, <3>2 DEF Creates
  <2>3. QED
    BY <2>1, <2>2
<1>6. WritesApart'
  BY <1>1, <1>2 DEF WritesApart, Labels!Flushed, Labels!After
<1>7. QED
  BY <1>2, <1>4, <1>5, <1>6 DEF RowsApart

\* A request that ends leaves what it wrote, or nothing.
LEMMA LabelEnd ==
    ASSUME LabelInvariant, NEW r \in Req, Labels!End(r),
           \/ UNCHANGED row
           \/ partPc[r] = "flushed" /\ row' = [row EXCEPT ![partDoc[r]] = Labels!After(r)],
           row' \in [Part -> Labels!Rows]
    PROVE  LabelInvariant'
<1> USE DEF LabelInvariant, Labels!End
<1>1. \A q \in Req : /\ partPc'[q] = IF q = r THEN "idle" ELSE partPc[q]
                     /\ q # r => partDoc'[q] = partDoc[q] /\ change'[q] = change[q]
  BY DEF WritesColumns
<1>2. WritesColumns'
  BY <1>1 DEF WritesColumns, Labels!NoChange
<1>3. \A q \in Req \ {r} : partPc[q] # "idle" /\ row'[partDoc[q]] # row[partDoc[q]] =>
          partDoc[q] = partDoc[r] /\ partPc[r] = "flushed"
  BY DEF WritesColumns
<1>4. ASSUME NEW q \in Req PROVE Creates(q)'
  BY <1>1, <1>3 DEF Creates
<1>5. WritesApart'
  <2>1. \A q \in Labels!Flushed' : q \in Labels!Flushed \ {r} /\ partDoc'[q] = partDoc[q]
    BY <1>1 DEF Labels!Flushed
  <2>2. \A q \in Labels!Flushed \ {r} : row'[partDoc[q]] = row[partDoc[q]]
    BY <1>3 DEF WritesApart, Labels!Flushed
  <2>3. \A q \in Labels!Flushed' : Labels!After(q)' = Labels!After(q)
    BY <1>1, <2>1, <2>2 DEF Labels!After, Labels!Flushed
  <2>4. ASSUME NEW q \in Labels!Flushed', NEW p \in Part \ {partDoc[q]}
        PROVE  ~Labels!Equal(Labels!After(q), row'[p])
    BY <2>1, EqualSym DEF WritesApart, Labels!Flushed
  <2>5. QED
    BY <2>1, <2>3, <2>4 DEF WritesApart
<1>6. RowsApart'
  <2>1. CASE UNCHANGED row
    BY <2>1 DEF RowsApart
  <2>2. CASE partPc[r] = "flushed" /\ row' = [row EXCEPT ![partDoc[r]] = Labels!After(r)]
    BY <2>2, EqualSym DEF RowsApart, WritesApart, Labels!Flushed
  <2>3. QED
    BY <2>1, <2>2
<1>7. QED
  BY <1>1, <1>2, <1>4, <1>5, <1>6

\* Every step of PartNumbers keeps the invariant: the unique indexes hold up
\* whoever would write an identifier that another has written.
LEMMA LabelStep ==
    ASSUME LabelInvariant, [Labels!Next]_(Labels!vars)
    PROVE  LabelInvariant'
<1> USE DEF LabelInvariant
<1>1. CASE UNCHANGED Labels!vars
  BY <1>1 DEF Labels!vars, WritesColumns, Creates, WritesApart, RowsApart, Labels!Flushed,
              Labels!After
<1>2. ASSUME NEW r \in Req, NEW p \in Part, NEW n \in Number, NEW b \in Barcode \cup {NoBarcode},
             Labels!BeginCreate(r, p, n, b)
      PROVE  LabelInvariant'
  <2> DEFINE to == [state |-> "live", number |-> n, barcode |-> b]
  <2>1. to \in Labels!Rows /\ to.state = "live"
    BY DEF Labels!Rows, Labels!Live
  <2>2. Labels!Begin(r, p, to)
    BY <1>2 DEF Labels!BeginCreate, Labels!Live
  <2>3. row[p] = Labels!NoRow /\ \A q \in Req : partDoc[q] # p
    BY <1>2 DEF Labels!BeginCreate, Labels!Creatable
  <2> HIDE DEF to
  <2>4. QED
    BY <2>1, <2>2, <2>3, LabelBegin
<1>3. ASSUME NEW r \in Req, NEW p \in Part, NEW n \in Number \cup {NoNumber},
             NEW b \in Barcode \cup {NoBarcode}, p \in Labels!LiveParts,
             Labels!Begin(r, p, [row[p] EXCEPT !.number = n, !.barcode = b])
      PROVE  LabelInvariant'
  <2> DEFINE to == [row[p] EXCEPT !.number = n, !.barcode = b]
  <2>1. row[p].state = "live"
    BY <1>3 DEF Labels!LiveParts, Labels!Live
  <2>2. to \in Labels!Rows /\ to.state = "live"
    BY <2>1 DEF Labels!Rows, Labels!Live
  <2>3. Labels!Begin(r, p, to)
    BY <1>3
  <2> HIDE DEF to
  <2>4. QED
    BY <2>1, <2>2, <2>3, LabelBegin
<1>4. ASSUME NEW r \in Req, NEW p \in Part, NEW n \in Number, NEW b \in Barcode \cup {NoBarcode},
             Labels!BeginUpdate(r, p, n, b)
      PROVE  LabelInvariant'
  BY <1>3, <1>4 DEF Labels!BeginUpdate, Labels!Renumberable
<1>5. ASSUME NEW r \in Req, NEW p \in Part, NEW b \in Barcode, p \in Labels!LiveParts,
             Labels!Begin(r, p, [row[p] EXCEPT !.barcode = b])
      PROVE  LabelInvariant'
  <2> DEFINE to == [row[p] EXCEPT !.barcode = b]
  <2>1. row[p].state = "live"
    BY <1>5 DEF Labels!LiveParts, Labels!Live
  <2>2. to \in Labels!Rows /\ to.state = "live"
    BY <2>1 DEF Labels!Rows, Labels!Live
  <2>3. Labels!Begin(r, p, to)
    BY <1>5
  <2> HIDE DEF to
  <2>4. QED
    BY <2>1, <2>2, <2>3, LabelBegin
<1>6. ASSUME NEW r \in Req, NEW p \in Part, NEW b \in Barcode, Labels!BeginAssign(r, p, b)
      PROVE  LabelInvariant'
  BY <1>5, <1>6 DEF Labels!BeginAssign, Labels!Labelable
<1>7. ASSUME NEW r \in Req, NEW p \in Part, Labels!BeginGenerate(r, p) PROVE LabelInvariant'
  BY <1>5, <1>7 DEF Labels!BeginGenerate
<1>8. ASSUME NEW r \in Req, NEW p \in Part, Labels!BeginDelete(r, p) PROVE LabelInvariant'
  <2> DEFINE to == [row[p] EXCEPT !.state = "deleted"]
  <2>1. row[p].state = "live"
    BY <1>8 DEF Labels!BeginDelete, Labels!LiveParts, Labels!Live
  <2>2. to \in Labels!Rows /\ to.state = "deleted"
    BY DEF Labels!Rows
  <2>3. Labels!Begin(r, p, to)
    BY <1>8 DEF Labels!BeginDelete
  <2> HIDE DEF to
  <2>4. QED
    BY <2>1, <2>2, <2>3, LabelBegin
<1>9. ASSUME NEW r \in Req, Labels!Flush(r) PROVE LabelInvariant'
  <2>1. /\ UNCHANGED <<row, partDoc, change>>
        /\ \A q \in Req : partPc'[q] = IF q = r THEN "flushed" ELSE partPc[q]
        /\ partPc[r] = "checked"
    BY <1>9 DEF Labels!Flush
  <2>2. \A q \in Req : Creates(q)'
    BY <2>1 DEF Creates
  <2>3. Labels!Flushed' = Labels!Flushed \cup {r}
    BY <2>1 DEF Labels!Flushed
  <2>4. \A q \in Req : Labels!After(q)' = Labels!After(q)
    BY <2>1 DEF Labels!After
  <2>5. WritesApart'
    BY <1>9, <2>1, <2>3, <2>4, EqualSym DEF Labels!Flush, Labels!Clashes, WritesApart, Labels!Flushed
  <2>6. QED
    BY <1>9, <2>1, <2>2, <2>5 DEF Labels!Flush, WritesColumns, RowsApart
<1>10. ASSUME NEW r \in Req, Labels!Commit(r) PROVE LabelInvariant'
  <2>1. partPc[r] = "flushed" /\ partDoc[r] \in Part /\ PartialRow(change[r])
    BY <1>10 DEF Labels!Commit, WritesColumns
  <2>2. Labels!After(r) \in Labels!Rows
    BY <2>1, OverlayTyped DEF Labels!After
  <2>3. row' = [row EXCEPT ![partDoc[r]] = Labels!After(r)] /\ Labels!End(r)
    BY <1>10 DEF Labels!Commit
  <2>4. QED
    BY <2>1, <2>2, <2>3, LabelEnd
<1>11. ASSUME NEW r \in Req, Labels!Rollback(r) PROVE LabelInvariant'
  BY <1>11, LabelEnd DEF Labels!Rollback
<1>12. ASSUME NEW c \in Category, Labels!CreateCategory(c) \/ Labels!DeleteCategory(c)
       PROVE  LabelInvariant'
  <2>1. UNCHANGED <<row, partPc, partDoc, change>> /\ active' \subseteq Category
    BY <1>12 DEF Labels!CreateCategory, Labels!DeleteCategory
  <2>2. QED
    BY <2>1 DEF WritesColumns, Creates, WritesApart, RowsApart, Labels!Flushed, Labels!After
<1> QED
  BY <1>1, <1>2, <1>4, <1>6, <1>7, <1>8, <1>9, <1>10, <1>11, <1>12
  DEF Labels!Next, Labels!BeginImage

\* Two parts in use have no number and no barcode in common, however many requests
\* assign the same one at a time (IdentifiersUnique).
THEOREM PartsAreFoundByOne == Spec => []IdentifiersUnique
<1>1. Init => LabelInvariant
  BY LabelInit DEF Init
<1>2. LabelInvariant /\ [Next]_vars => LabelInvariant'
  BY LabelStep, LabelNext
<1>3. LabelInvariant => IdentifiersUnique
  BY NoneAssumption DEF LabelInvariant, RowsApart, Labels!Equal, IdentifiersUnique, Labels!IdentifiersUnique,
         Labels!LiveParts, Labels!Found
<1>4. QED
  BY <1>1, <1>2, <1>3, PTL DEF Spec

\* A step never brings a deleted part back.
LEMMA DeletedStays ==
    ASSUME LabelInvariant, [Labels!Next]_(Labels!vars), NEW p \in Part, row[p].state = "deleted"
    PROVE  row'[p].state = "deleted"
<1>1. CASE UNCHANGED row
  BY <1>1
<1>2. ASSUME NEW r \in Req, Labels!Commit(r) PROVE row'[p].state = "deleted"
  <2>1. CASE partDoc[r] # p
    BY <1>2, <2>1 DEF Labels!Commit, LabelInvariant
  <2>2. CASE partDoc[r] = p
    <3>1. "state" \in DOMAIN change[r] => change[r]["state"] = "deleted"
      BY <1>2, <2>2 DEF Labels!Commit, LabelInvariant, Creates, WritesColumns, PartialRow, Labels!NoRow
    <3>2. row'[p] = Labels!Overlay(change[r], row[p])
      BY <1>2, <2>2 DEF Labels!Commit, LabelInvariant, Labels!After
    <3>3. "state" \in DOMAIN row[p]
      BY DEF LabelInvariant, Labels!Rows
    <3>4. QED
      BY <3>1, <3>2, <3>3 DEF Labels!Overlay
  <2>3. QED
    BY <2>1, <2>2
<1>3. QED
  BY <1>1, <1>2 DEF Labels!Next, Labels!vars, Labels!BeginCreate, Labels!BeginUpdate,
     Labels!BeginAssign, Labels!BeginGenerate, Labels!BeginImage, Labels!BeginDelete, Labels!Begin,
     Labels!Flush, Labels!Rollback, Labels!CreateCategory, Labels!DeleteCategory

\* A deleted part stays deleted, whatever a request writes that read it before
\* (DeletedForGood).
THEOREM DeletedPartsStay == Spec => DeletedForGood
<1>1. Init => LabelInvariant
  BY LabelInit DEF Init
<1>2. LabelInvariant /\ [Next]_vars => LabelInvariant'
  BY LabelStep, LabelNext
<1>3. LabelInvariant /\ [Next]_vars =>
          [\A p \in Part : row[p].state = "deleted" => row'[p].state = "deleted"]_(Labels!vars)
  BY DeletedStays, LabelNext
<1>4. Spec => [][\A p \in Part : row[p].state = "deleted" => row'[p].state = "deleted"]_(Labels!vars)
  BY <1>1, <1>2, <1>3, PTL DEF Spec
<1>5. QED
  BY <1>4 DEF DeletedForGood, Labels!DeletedForGood

-----------------------------------------------------------------------------
(* PartPrices                                                              *)

\* A request at work has judged the row that it makes of what it read.
Judged(r) ==
    priceOp[r] = "update" \/ (priceOp[r] = "receive" /\ new[r].price > 0) =>
        (new[r].review <=> Pricing!Thin(new[r]))

\* A receipt without a price to judge leaves price and flag alone.
Unjudged(r) ==
    priceOp[r] = "receive" /\ ~(new[r].price > 0) =>
        new[r].price = priceView[r].price /\ new[r].review = priceView[r].review

\* What the proof of ReviewFlagTells carries.
PriceInvariant ==
    /\ prices \in Pricing!Rows
    /\ pricePc \in [Req -> {"idle", "checked", "flushed"}]
    /\ priceOp \in [Req -> {"none", "update", "receive", "dismiss"}]
    /\ DOMAIN priceView = Req /\ DOMAIN new = Req
    /\ \A r \in Req : pricePc[r] # "idle" =>
          /\ priceView[r] \in Pricing!Rows /\ new[r] \in Pricing!Rows
          /\ Judged(r) /\ Unjudged(r)
    /\ judged \in BOOLEAN
    /\ Pricing!ReviewFlagTells

\* A step of the composition is a step of PartPrices, or leaves it alone.
LEMMA PriceNext == [Next]_vars => [Pricing!Next]_(Pricing!vars)
BY DEF Next, vars, pricing, Pricing!vars, Pricing!local

\* A behaviour starts with a row that tells.
LEMMA PriceInit == Pricing!Init => PriceInvariant
BY DEF Pricing!Init, PriceInvariant, Pricing!ReviewFlagTells

\* The invariant has the types.
LEMMA PriceTypes == PriceInvariant => Pricing!TypeOK
BY DEF PriceInvariant, Pricing!TypeOK

\* A request that starts judges the row that it makes of what it read.
LEMMA PriceBegin ==
    ASSUME PriceInvariant, NEW r \in Req, NEW what \in {"update", "receive", "dismiss"},
           NEW to \in Pricing!Rows, Pricing!Begin(r, what, to),
           what = "update" \/ (what = "receive" /\ to.price > 0) => (to.review <=> Pricing!Thin(to)),
           what = "receive" /\ ~(to.price > 0) => to.price = prices.price /\ to.review = prices.review
    PROVE  PriceInvariant'
<1> USE DEF PriceInvariant, Pricing!Begin
<1>1. \A q \in Req : /\ pricePc'[q] = IF q = r THEN "checked" ELSE pricePc[q]
                     /\ priceOp'[q] = IF q = r THEN what ELSE priceOp[q]
                     /\ priceView'[q] = IF q = r THEN prices ELSE priceView[q]
                     /\ new'[q] = IF q = r THEN to ELSE new[q]
  OBVIOUS
<1>2. ASSUME NEW q \in Req, pricePc'[q] # "idle"
      PROVE  /\ priceView'[q] \in Pricing!Rows /\ new'[q] \in Pricing!Rows
             /\ Judged(q)' /\ Unjudged(q)'
  BY <1>1, <1>2 DEF Judged, Unjudged
<1>3. Pricing!ReviewFlagTells'
  BY DEF Pricing!ReviewFlagTells, Pricing!Listed, Pricing!Thin
<1> QED
  BY <1>2, <1>3

\* The end of a request leaves the others alone.
LEMMA PriceEnd ==
    ASSUME PriceInvariant, NEW r \in Req, Pricing!End(r), prices' \in Pricing!Rows,
           judged' \in BOOLEAN, Pricing!ReviewFlagTells'
    PROVE  PriceInvariant'
<1> USE DEF PriceInvariant, Pricing!End
<1>1. \A q \in Req : pricePc'[q] # "idle" =>
          /\ q # r /\ pricePc'[q] = pricePc[q] /\ priceOp'[q] = priceOp[q]
          /\ priceView'[q] = priceView[q] /\ new'[q] = new[q]
  OBVIOUS
<1>2. ASSUME NEW q \in Req, pricePc'[q] # "idle"
      PROVE  /\ priceView'[q] \in Pricing!Rows /\ new'[q] \in Pricing!Rows
             /\ Judged(q)' /\ Unjudged(q)'
  BY <1>1, <1>2 DEF Judged, Unjudged
<1> QED
  BY <1>2

\* A write that read the prices as they are leaves what it made of them.
LEMMA PriceCommit ==
    ASSUME PriceInvariant, NEW r \in Req, Pricing!Commit(r)
    PROVE  PriceInvariant'
<1> USE DEF PriceInvariant
<1>1. /\ priceView[r] \in Pricing!Rows /\ new[r] \in Pricing!Rows /\ Judged(r) /\ Unjudged(r)
      /\ Pricing!End(r)
  BY DEF Pricing!Commit
<1>2. DOMAIN prices = {"cost", "price", "review"}
  BY DEF Pricing!Rows
<1>3. prices' = [cost   |-> IF new[r].cost # priceView[r].cost THEN new[r].cost ELSE prices.cost,
                 price  |-> IF new[r].price # priceView[r].price THEN new[r].price ELSE prices.price,
                 review |-> IF new[r].review # priceView[r].review THEN new[r].review
                            ELSE prices.review]
  BY <1>2 DEF Pricing!Commit
<1>4. prices' \in Pricing!Rows
  BY <1>1, <1>3 DEF Pricing!Rows
<1>5. priceView[r] = prices => prices' = new[r]
  BY <1>1, <1>3 DEF Pricing!Rows
<1>6. ~Pricing!Writes(r) => prices' = prices
  BY <1>3 DEF Pricing!Writes, Pricing!Rows
<1>7. judged' \in BOOLEAN
  BY DEF Pricing!Commit, Pricing!Writes, Pricing!Judges
<1>8. ASSUME judged' PROVE prices'.review <=> Pricing!Thin(prices')
  <2>1. CASE Pricing!Judges(r) /\ priceView[r] = prices
    BY <1>1, <1>5, <2>1 DEF Pricing!Judges, Judged
  <2>2. CASE judged /\ ~Pricing!Writes(r)
    BY <1>6, <2>2 DEF Pricing!ReviewFlagTells, Pricing!Listed
  <2>3. CASE judged /\ priceOp[r] = "receive" /\ priceView[r] = prices /\ ~Pricing!Judges(r)
    BY <1>1, <1>5, <2>3 DEF Pricing!Judges, Unjudged, Pricing!ReviewFlagTells,
       Pricing!Listed, Pricing!Thin
  <2>4. QED
    BY <1>8, <2>1, <2>2, <2>3 DEF Pricing!Commit
<1>9. Pricing!ReviewFlagTells'
  BY <1>8 DEF Pricing!ReviewFlagTells, Pricing!Listed
<1> QED
  BY <1>1, <1>4, <1>7, <1>9, PriceEnd

\* Every step of PartPrices keeps the invariant.
LEMMA PriceStep ==
    ASSUME PriceInvariant, [Pricing!Next]_(Pricing!vars)
    PROVE  PriceInvariant'
<1> USE DEF PriceInvariant
<1>1. CASE UNCHANGED <<prices, judged>> /\ UNCHANGED <<priceOp, priceView, new>>
           /\ pricePc' \in [Req -> {"idle", "checked", "flushed"}]
           /\ \A q \in Req : pricePc'[q] # "idle" => pricePc[q] # "idle"
  BY <1>1 DEF Pricing!ReviewFlagTells, Pricing!Listed, Pricing!Thin, Judged, Unjudged
<1>2. CASE UNCHANGED Pricing!vars
  BY <1>1, <1>2 DEF Pricing!vars, Pricing!local
<1>3. ASSUME NEW r \in Req, Pricing!BeginUpdate(r) PROVE PriceInvariant'
  <2>1. PICK c \in Cost, p \in Price :
            Pricing!Begin(r, "update", [[prices EXCEPT !.cost = c, !.price = p] EXCEPT
                  !.review = Pricing!Thin([prices EXCEPT !.cost = c, !.price = p])])
    BY <1>3 DEF Pricing!BeginUpdate
  <2> DEFINE base == [prices EXCEPT !.cost = c, !.price = p]
             to == [base EXCEPT !.review = Pricing!Thin(base)]
  <2>2. base \in Pricing!Rows /\ Pricing!Thin(base) \in BOOLEAN
    BY DEF Pricing!Rows, Pricing!Thin
  <2>3. to \in Pricing!Rows /\ to.price = base.price /\ to.cost = base.cost
        /\ to.review = Pricing!Thin(base)
    BY <2>2 DEF Pricing!Rows
  <2>4. Pricing!Thin(to) <=> Pricing!Thin(base)
    BY <2>3 DEF Pricing!Thin
  <2>5. Pricing!Begin(r, "update", to)
    BY <2>1
  <2> HIDE DEF to, base
  <2>6. QED
    BY <2>3, <2>4, <2>5, PriceBegin
<1>4. ASSUME NEW r \in Req, Pricing!BeginReceipt(r) PROVE PriceInvariant'
  <2>1. PICK c \in Cost :
            Pricing!Begin(r, "receive", Pricing!ReviewOnReceipt([prices EXCEPT !.cost = c]))
    BY <1>4 DEF Pricing!BeginReceipt
  <2> DEFINE base == [prices EXCEPT !.cost = c]
             to == Pricing!ReviewOnReceipt(base)
  <2>2. base \in Pricing!Rows /\ Pricing!Thin(base) \in BOOLEAN
        /\ base.price = prices.price /\ base.review = prices.review
    BY DEF Pricing!Rows, Pricing!Thin
  <2>3. to \in Pricing!Rows /\ to.price = base.price /\ to.cost = base.cost
        /\ to.review = IF base.price > 0 THEN Pricing!Thin(base) ELSE base.review
    BY <2>2 DEF Pricing!Rows, Pricing!ReviewOnReceipt
  <2>4. Pricing!Thin(to) <=> Pricing!Thin(base)
    BY <2>3 DEF Pricing!Thin
  <2>5. Pricing!Begin(r, "receive", to)
    BY <2>1
  <2> HIDE DEF to, base
  <2>6. QED
    BY <2>2, <2>3, <2>4, <2>5, PriceBegin
<1>5. ASSUME NEW r \in Req, Pricing!BeginDismiss(r) PROVE PriceInvariant'
  <2> DEFINE to == [prices EXCEPT !.review = FALSE]
  <2>1. to \in Pricing!Rows
    BY DEF Pricing!Rows
  <2>2. Pricing!Begin(r, "dismiss", to)
    BY <1>5 DEF Pricing!BeginDismiss
  <2> HIDE DEF to
  <2>3. QED
    BY <2>1, <2>2, PriceBegin
<1>6. ASSUME NEW r \in Req, Pricing!Flush(r) PROVE PriceInvariant'
  BY <1>1, <1>6 DEF Pricing!Flush
<1>7. ASSUME NEW r \in Req, Pricing!Commit(r) PROVE PriceInvariant'
  BY <1>7, PriceCommit
<1>8. ASSUME NEW r \in Req, Pricing!Rollback(r) PROVE PriceInvariant'
  <2>1. Pricing!ReviewFlagTells'
    BY <1>8 DEF Pricing!Rollback, Pricing!ReviewFlagTells, Pricing!Listed,
       Pricing!Thin
  <2>2. QED
    BY <1>8, <2>1, PriceEnd DEF Pricing!Rollback
<1> QED
  BY <1>2, <1>3, <1>4, <1>5, <1>6, <1>7, <1>8 DEF Pricing!Next

\* The list of the parts to review has a part exactly when its margin is thin,
\* for any number of requests and any costs and prices, unless a write overlapped or
\* the flag was dismissed (ReviewFlagTells).
THEOREM ReviewsAreListed == Spec => []ReviewFlagTells
<1>1. Init => PriceInvariant
  BY PriceInit DEF Init
<1>2. PriceInvariant /\ [Next]_vars => PriceInvariant'
  BY PriceStep, PriceNext
<1>3. PriceInvariant => ReviewFlagTells
  BY DEF PriceInvariant, ReviewFlagTells
<1>4. QED
  BY <1>1, <1>2, <1>3, PTL DEF Spec

-----------------------------------------------------------------------------
(* Reports                                                                 *)

\* The sums of the figures, over the sales S, with what they depend on.
RevenueOf(u, S) == Figures!MapThenSumSet(LAMBDA s : u[s] * SalePrice, S)
CostOf(u, S)    == Figures!MapThenSumSet(LAMBDA s : u[s] * SaleCost, S)
CountOf(S)      == Figures!MapThenSumSet(LAMBDA s : 1, S)
BackOf(b, S, D) ==
    Figures!MapThenSumSet(LAMBDA s : SalePrice * Figures!MapThenSumSet(LAMBDA d : b[s][d], D), S)

\* The sales the figures of a period are about, by the days they were made on.
Confirmed(p) == {s \in Sale : saleStatus[s] = "CONFIRMED" /\ Figures!Day(created[s]) \in p[1]..p[2]}
OnCredit == {s \in Sale : credit[s]}

\* The books of a period, in these sums.
LEMMA BooksUnfold ==
    \A p : Figures!Books(p) = [revenue |-> RevenueOf(units, Confirmed(p)), count |-> CountOf(Confirmed(p)),
                               cogs |-> CostOf(units, Confirmed(p)),
                               returns |-> BackOf(back, OnCredit, p[1]..p[2])]
BY DEF Figures!Books, Figures!SumOver, Figures!Total, Figures!Cogs, Figures!Refunds, Figures!ValueBack,
       Figures!DaysOf, Figures!MapThenSumSet, Figures!MapThenFoldSet, RevenueOf, CostOf, CountOf, BackOf,
       Confirmed, OnCredit

\* What generate_sales_report reads.
LEMMA SalesUnfold ==
    ASSUME NEW r, Figures!ReadSales(r)
    PROVE  \E f : /\ read' = [read EXCEPT ![r] = f] /\ DOMAIN f = {"revenue", "count", "cogs", "returns"}
                  /\ f.revenue = RevenueOf(units, Figures!Counted(r))
                  /\ f.count = CountOf(Figures!Counted(r))
                  /\ f.cogs = CostOf(units, Figures!Counted(r))
<1>1. \E f : read' = [read EXCEPT ![r] = f] /\ f = [Figures!Nothing EXCEPT
                  !.revenue = RevenueOf(units, Figures!Counted(r)),
                  !.count = CountOf(Figures!Counted(r)),
                  !.cogs = CostOf(units, Figures!Counted(r))]
  BY DEF Figures!ReadSales, Figures!Read, Figures!SumOver, Figures!Total, Figures!Cogs,
         Figures!MapThenSumSet, Figures!MapThenFoldSet, RevenueOf, CostOf, CountOf
<1>2. QED
  BY <1>1 DEF Figures!Nothing

\* What the first statement of the other reports reads.
LEMMA RevenueUnfold ==
    ASSUME NEW r, Figures!ReadRevenue(r)
    PROVE  \E f : /\ read' = [read EXCEPT ![r] = f] /\ DOMAIN f = {"revenue", "count", "cogs", "returns"}
                  /\ f.revenue = RevenueOf(units, Figures!Counted(r))
                  /\ f.count = CountOf(Figures!Counted(r))
<1>1. \E f : read' = [read EXCEPT ![r] = f] /\ f = [Figures!Nothing EXCEPT
                  !.revenue = RevenueOf(units, Figures!Counted(r)),
                  !.count = CountOf(Figures!Counted(r))]
  BY DEF Figures!ReadRevenue, Figures!Read, Figures!SumOver, Figures!Total,
         Figures!MapThenSumSet, Figures!MapThenFoldSet, RevenueOf, CountOf
<1>2. QED
  BY <1>1 DEF Figures!Nothing

\* What the statement about returns adds.
LEMMA ReturnsUnfold ==
    ASSUME NEW r, Figures!ReadReturns(r)
    PROVE  read' = [read EXCEPT ![r] = [read[r] EXCEPT
                      !.returns = BackOf(back, OnCredit, period[r][1]..period[r][2])]]
BY DEF Figures!ReadReturns, Figures!Read, Figures!Refunds, Figures!ValueBack, Figures!SumOver,
       Figures!DaysOf, Figures!MapThenSumSet, Figures!MapThenFoldSet, BackOf, OnCredit

\* What the statement about costs adds.
LEMMA CogsUnfold ==
    ASSUME NEW r, Figures!ReadCogs(r)
    PROVE  read' = [read EXCEPT ![r] = [read[r] EXCEPT !.cogs = CostOf(units, Figures!Counted(r))]]
BY DEF Figures!ReadCogs, Figures!Read, Figures!SumOver, Figures!Cogs,
       Figures!MapThenSumSet, Figures!MapThenFoldSet, CostOf

\* The day of an instant lies within days exactly if the instant lies within
\* their first and last instants.
LEMMA DayInRange ==
    ASSUME NEW L \in Nat \ {0}, NEW t \in Nat, NEW d \in Nat
    PROVE  /\ t \div L \in Nat
           /\ (d * L <= t) <=> (d <= t \div L)
           /\ (t <= d * L + L - 1) <=> (t \div L <= d)
           /\ (t < (d + 1) * L) <=> (t \div L <= d)
<1> DEFINE q == t \div L
<1>1. q \in Nat /\ q * L <= t /\ t < q * L + L
  OBVIOUS
<1>2. ASSUME NEW x \in Nat, NEW y \in Nat, x < y PROVE x * L + L <= y * L
  <2>1. PICK k \in Nat : y = (x + 1) + k
    <3>1. y - x - 1 \in Nat /\ y = (x + 1) + (y - x - 1)
      BY <1>2
    <3>2. QED
      BY <3>1
  <2>2. k * L \in Nat
    OBVIOUS
  <2>3. y * L = (x * L + L) + k * L
    BY <2>1
  <2>4. x * L + L \in Nat
    OBVIOUS
  <2>5. PICK m, n : m = x * L + L /\ n = k * L
    OBVIOUS
  <2>6. m <= m + n
    BY <2>2, <2>4, <2>5
  <2>7. QED
    BY <2>3, <2>5, <2>6
<1>3. d * L \in Nat /\ q * L \in Nat /\ (d + 1) * L = d * L + L
  BY <1>1
<1> HIDE DEF q
<1>4. q < d => q * L + L <= d * L
  BY <1>1, <1>2
<1>5. d < q => d * L + L <= q * L
  BY <1>1, <1>2
<1>6. d = q => d * L = q * L
  OBVIOUS
<1>7. PICK dl, ql : dl = d * L /\ ql = q * L
  OBVIOUS
<1>8. QED
  BY <1>1, <1>3, <1>4, <1>5, <1>6, <1>7 DEF q

\* A report knows its period, and what it has summed is of its statements.
ReportTypes ==
    /\ now \in Figures!Instants
    /\ created \in [Sale -> Figures!Instants]
    /\ reportPc \in [Reader -> {"idle", "revenue", "returns", "cogs", "done"}]
    /\ kind \in [Reader -> Figures!Kinds]
    /\ period \in [Reader -> Figures!Days \X Figures!Days]
    /\ DOMAIN read = Reader /\ DOMAIN books = Reader
    /\ \A r \in Reader : DOMAIN read[r] = {"revenue", "count", "cogs", "returns"}

\* Only a profit summary has no end, and only some reports have later statements.
ReportAsked(r) ==
    /\ kind[r] = "profit" => period[r][2] = LastDay
    /\ reportPc[r] = "returns" => kind[r] \in {"kpi", "profit"}
    /\ reportPc[r] = "cogs" => kind[r] \in {"summary", "profit"}

\* What a report has read is what the books still say.
RevenueRead(r) ==
    reportPc[r] \in {"returns", "cogs"} =>
        /\ read[r].revenue = RevenueOf(units, Confirmed(period[r]))
        /\ read[r].count = CountOf(Confirmed(period[r]))
ReturnsRead(r) ==
    reportPc[r] = "cogs" /\ kind[r] = "profit" =>
        read[r].returns = BackOf(back, OnCredit, period[r][1]..period[r][2])
AllRead(r) ==
    reportPc[r] = "done" =>
        /\ read[r].revenue = books[r].revenue /\ read[r].count = books[r].count
        /\ kind[r] # "kpi" => read[r].cogs = books[r].cogs
        /\ kind[r] \in {"kpi", "profit"} => read[r].returns = books[r].returns

\* A report that no sale changed under has read what the books say.
ReadStands(r) == r \notin reportRaced => RevenueRead(r) /\ ReturnsRead(r) /\ AllRead(r)

\* What the proof of FiguresAgree carries.
FigureInvariant == ReportTypes /\ \A r \in Reader : ReportAsked(r) /\ ReadStands(r)

\* The bounds of a day, for the instants there are.
LEMMA DayOfInstant ==
    ASSUME NEW t \in Figures!Instants
    PROVE  /\ t \in Nat /\ Figures!Day(t) \in Figures!Days
           /\ \A d \in Figures!Days :
                 /\ (d * DayLength <= t) <=> (d <= Figures!Day(t))
                 /\ (t <= d * DayLength + DayLength - 1) <=> (Figures!Day(t) <= d)
                 /\ (t < (d + 1) * DayLength) <=> (Figures!Day(t) <= d)
<1> DEFINE q == t \div DayLength
<1>1. /\ t \in Nat /\ t <= (LastDay + 1) * DayLength - 1 /\ DayLength \in Nat \ {0} /\ LastDay \in Nat
      /\ (LastDay + 1) * DayLength \in Nat
  BY DayAssumption DEF Figures!Instants
<1>2. \A d \in Nat : /\ q \in Nat
                     /\ (d * DayLength <= t) <=> (d <= q)
                     /\ (t <= d * DayLength + DayLength - 1) <=> (q <= d)
                     /\ (t < (d + 1) * DayLength) <=> (q <= d)
  BY <1>1, DayInRange
<1>3. Figures!Day(t) = q
  BY DEF Figures!Day
<1> HIDE DEF q
<1>4. PICK e : e = (LastDay + 1) * DayLength
  OBVIOUS
<1>5. t < e
  BY <1>1, <1>4
<1>6. q <= LastDay /\ q \in Nat
  BY <1>1, <1>2, <1>4, <1>5
<1>7. q \in 0..LastDay /\ 0..LastDay \subseteq Nat
  BY <1>1, <1>6
<1>8. QED
  BY <1>1, <1>2, <1>3, <1>7 DEF Figures!Days

\* What a report counts is what the books count: by instants or by days.
LEMMA CountedConfirmed ==
    ASSUME ReportTypes, NEW r \in Reader, ReportAsked(r)
    PROVE  Figures!Counted(r) = Confirmed(period[r])
<1>1. period[r] \in Figures!Days \X Figures!Days /\ kind[r] \in Figures!Kinds
  BY DEF ReportTypes
<1>2. PICK a \in Figures!Days, b \in Figures!Days : a = period[r][1] /\ b = period[r][2]
  BY <1>1
<1>3. ASSUME NEW s \in Sale
      PROVE  Figures!InRange(period[r], kind[r], created[s]) <=> Figures!Day(created[s]) \in a..b
  <2>1. PICK t \in Figures!Instants : t = created[s]
    BY DEF ReportTypes
  <2>2. PICK q \in Figures!Days : q = Figures!Day(t)
    BY DayOfInstant
  <2>3. /\ (a * DayLength <= t) <=> (a <= q)
        /\ (t <= b * DayLength + DayLength - 1) <=> (q <= b)
        /\ (t < (b + 1) * DayLength) <=> (q <= b)
    BY <2>2, DayOfInstant
  <2>4. kind[r] = "profit" => b = LastDay /\ q <= b
    BY <1>2, DayAssumption DEF ReportAsked, Figures!Days
  <2>5. Figures!InRange(period[r], kind[r], t) <=>
           /\ a * DayLength <= t
           /\ CASE kind[r] = "kpi"    -> t < (b + 1) * DayLength
                [] kind[r] = "profit" -> TRUE
                [] OTHER              -> t <= b * DayLength + DayLength - 1
    BY <1>2 DEF Figures!InRange, Figures!RangeStart, Figures!RangeEnd
  <2>6. Figures!InRange(period[r], kind[r], t) <=> a <= q /\ q <= b
    BY <2>3, <2>4, <2>5
  <2>7. q \in a..b <=> a <= q /\ q <= b
    BY DayAssumption DEF Figures!Days
  <2>8. QED
    BY <2>1, <2>2, <2>6, <2>7
<1>4. QED
  BY <1>2, <1>3 DEF Figures!Counted, Confirmed

\* A sale changes only under reports that are then left out.
LEMMA TouchedKeeps ==
    ASSUME FigureInvariant, Figures!Touch, created' \in [Sale -> Figures!Instants]
    PROVE  FigureInvariant'
<1>1. /\ UNCHANGED <<now, kind, period, read, reportPc, books>>
      /\ reportRaced' = reportRaced \cup {r \in Reader : reportPc[r] \in {"returns", "cogs"}}
  BY DEF Figures!Touch, Figures!reports
<1>2. ReportTypes'
  BY <1>1 DEF FigureInvariant, ReportTypes
<1>3. ASSUME NEW r \in Reader PROVE ReportAsked(r)' /\ ReadStands(r)'
  <2>1. ReportAsked(r)'
    BY <1>1 DEF FigureInvariant, ReportAsked
  <2>2. r \notin reportRaced' => reportPc'[r] \notin {"returns", "cogs"} /\ AllRead(r)'
    BY <1>1 DEF FigureInvariant, ReadStands, AllRead
  <2>3. QED
    BY <2>1, <2>2 DEF ReadStands, RevenueRead, ReturnsRead
<1>4. QED
  BY <1>2, <1>3 DEF FigureInvariant

\* A report that another one's step leaves alone.
ReportSame(r) ==
    /\ reportPc'[r] = reportPc[r] /\ kind'[r] = kind[r] /\ period'[r] = period[r]
    /\ read'[r] = read[r] /\ books'[r] = books[r]
    /\ r \notin reportRaced' => r \notin reportRaced
    /\ UNCHANGED <<saleStatus, created, units, credit, back>>

\* Such a report still stands.
LEMMA ReportSameKeeps ==
    ASSUME NEW r \in Reader, ReportSame(r), ReportAsked(r), ReadStands(r)
    PROVE  ReportAsked(r)' /\ ReadStands(r)'
<1>1. ReportAsked(r)'
  BY DEF ReportSame, ReportAsked
<1>2. \A p : Confirmed(p)' = Confirmed(p) /\ OnCredit' = OnCredit
  BY DEF ReportSame, Confirmed, OnCredit, Figures!Day
<1>3. Confirmed(period[r])' = Confirmed(period[r])
  BY DEF ReportSame, Confirmed, Figures!Day
<1>4. RevenueRead(r) => RevenueRead(r)'
  BY <1>3 DEF ReportSame, RevenueRead
<1>5. ReturnsRead(r) => ReturnsRead(r)'
  BY <1>2 DEF ReportSame, ReturnsRead
<1>6. AllRead(r) => AllRead(r)'
  BY DEF ReportSame, AllRead
<1>7. QED
  BY <1>1, <1>4, <1>5, <1>6 DEF ReportSame, ReadStands

\* A report that begins has read nothing.
LEMMA BeginKeeps ==
    ASSUME FigureInvariant, NEW r \in Reader, NEW k \in Figures!Kinds, NEW p \in Figures!Days \X Figures!Days,
           k = "profit" => p[2] = LastDay, Figures!Begin(r, k, p)
    PROVE  FigureInvariant'
<1>1. /\ kind' = [kind EXCEPT ![r] = k] /\ period' = [period EXCEPT ![r] = p]
      /\ reportPc' = [reportPc EXCEPT ![r] = "revenue"]
      /\ UNCHANGED <<now, saleStatus, created, units, credit, back, read, reportRaced, books>>
  BY DEF Figures!Begin, Figures!shop
<1>2. ReportTypes'
  BY <1>1 DEF FigureInvariant, ReportTypes
<1>3. ASSUME NEW q \in Reader PROVE ReportAsked(q)' /\ ReadStands(q)'
  <2>1. CASE q = r
    BY <1>1, <2>1 DEF FigureInvariant, ReportTypes, ReportAsked, ReadStands, RevenueRead, ReturnsRead, AllRead
  <2>2. CASE q # r
    <3>1. ReportSame(q)
      BY <1>1, <2>2 DEF FigureInvariant, ReportTypes, ReportSame
    <3>2. QED
      BY <3>1, ReportSameKeeps DEF FigureInvariant
  <2>3. QED
    BY <2>1, <2>2
<1>4. QED
  BY <1>2, <1>3 DEF FigureInvariant

\* A statement of a report: it moves on, and the last one closes the books.
LEMMA ReadKeeps ==
    ASSUME FigureInvariant, NEW r \in Reader, NEW f, NEW next \in {"returns", "cogs", "done"},
           DOMAIN f = {"revenue", "count", "cogs", "returns"},
           read' = [read EXCEPT ![r] = f], reportPc' = [reportPc EXCEPT ![r] = next],
           books' = IF next = "done" THEN [books EXCEPT ![r] = Figures!Books(period[r])] ELSE books,
           UNCHANGED <<now, saleStatus, created, units, credit, back, kind, period, reportRaced>>,
           next = "returns" => kind[r] \in {"kpi", "profit"},
           next = "cogs" => kind[r] \in {"summary", "profit"},
           r \notin reportRaced =>
              /\ f.revenue = RevenueOf(units, Confirmed(period[r]))
              /\ f.count = CountOf(Confirmed(period[r]))
              /\ (next = "done" /\ kind[r] # "kpi") => f.cogs = CostOf(units, Confirmed(period[r]))
              /\ (next = "done" /\ kind[r] \in {"kpi", "profit"}) \/ (next = "cogs" /\ kind[r] = "profit") =>
                    f.returns = BackOf(back, OnCredit, period[r][1]..period[r][2])
    PROVE  FigureInvariant'
<1>1. ReportTypes'
  BY DEF FigureInvariant, ReportTypes
<1>2. ASSUME NEW q \in Reader PROVE ReportAsked(q)' /\ ReadStands(q)'
  <2>1. CASE q = r
    <3>1. /\ read'[r] = f /\ reportPc'[r] = next
          /\ next = "done" => books'[r] = Figures!Books(period[r])
      BY DEF FigureInvariant, ReportTypes
    <3>2. ReportAsked(r)'
      BY <3>1 DEF FigureInvariant, ReportAsked
    <3>3. Confirmed(period[r])' = Confirmed(period[r]) /\ OnCredit' = OnCredit
      BY DEF Confirmed, OnCredit, Figures!Day
    <3>4. /\ Figures!Books(period[r]).revenue = RevenueOf(units, Confirmed(period[r]))
          /\ Figures!Books(period[r]).count = CountOf(Confirmed(period[r]))
          /\ Figures!Books(period[r]).cogs = CostOf(units, Confirmed(period[r]))
          /\ Figures!Books(period[r]).returns = BackOf(back, OnCredit, period[r][1]..period[r][2])
      BY BooksUnfold
    <3>5. r \notin reportRaced => AllRead(r)'
      BY <3>1, <3>4 DEF AllRead
    <3>6. r \notin reportRaced => RevenueRead(r)'
      BY <3>1, <3>3 DEF RevenueRead
    <3>7. r \notin reportRaced => ReturnsRead(r)'
      BY <3>1, <3>3 DEF ReturnsRead
    <3>8. QED
      BY <2>1, <3>2, <3>5, <3>6, <3>7 DEF ReadStands
  <2>2. CASE q # r
    <3>1. ReportSame(q)
      BY <2>2 DEF FigureInvariant, ReportTypes, ReportSame
    <3>2. QED
      BY <3>1, ReportSameKeeps DEF FigureInvariant
  <2>3. QED
    BY <2>1, <2>2
<1>3. QED
  BY <1>1, <1>2 DEF FigureInvariant

\* Every step of Reports keeps the invariant.
LEMMA FigureStep ==
    ASSUME FigureInvariant, [Figures!Next]_(Figures!vars)
    PROVE  FigureInvariant'
<1>1. ASSUME \/ UNCHANGED Figures!vars \/ Figures!Tick PROVE FigureInvariant'
  <2>1. /\ UNCHANGED <<saleStatus, created, units, credit, back, kind, period, read, reportPc,
                      reportRaced, books>>
        /\ now' \in Figures!Instants
    BY <1>1 DEF Figures!vars, Figures!shop, Figures!reports, Figures!Tick, FigureInvariant, ReportTypes
  <2>2. ReportTypes'
    BY <2>1 DEF FigureInvariant, ReportTypes
  <2>3. \A r \in Reader : ReportSame(r)
    BY <2>1 DEF ReportSame
  <2>4. QED
    BY <2>2, <2>3, ReportSameKeeps DEF FigureInvariant
<1>2. ASSUME NEW s \in Sale, \/ \E n \in 1..MaxSold, c \in BOOLEAN : Figures!CreateSale(s, n, c)
                            \/ Figures!ConfirmSale(s)
                            \/ \E n \in 1..MaxSold : Figures!ReturnSale(s, n)
      PROVE  FigureInvariant'
  <2>1. Figures!Touch /\ created' \in [Sale -> Figures!Instants]
    BY <1>2 DEF Figures!CreateSale, Figures!ConfirmSale, Figures!ReturnSale, FigureInvariant, ReportTypes
  <2>2. QED
    BY <2>1, TouchedKeeps
<1>3. ASSUME NEW r \in Reader, NEW p \in Figures!Days \X Figures!Days,
             Figures!BeginSalesReport(r, p) \/ Figures!BeginSummary(r, p)
      PROVE  FigureInvariant'
  <2>1. PICK k \in {"sales", "summary"} : Figures!Begin(r, k, p)
    BY <1>3 DEF Figures!BeginSalesReport, Figures!BeginSummary
  <2>2. k \in Figures!Kinds /\ k # "profit"
    BY DEF Figures!Kinds
  <2>3. QED
    BY <2>1, <2>2, BeginKeeps
<1>4. ASSUME NEW r \in Reader, NEW d \in Figures!Days, Figures!BeginProfit(r, d) PROVE FigureInvariant'
  <2>1. LastDay \in Figures!Days
    BY DayAssumption DEF Figures!Days
  <2>2. PICK p \in Figures!Days \X Figures!Days : p = <<d, LastDay>>
    BY <2>1
  <2>3. p[2] = LastDay /\ Figures!Begin(r, "profit", p) /\ "profit" \in Figures!Kinds
    BY <1>4, <2>2 DEF Figures!BeginProfit, Figures!Kinds
  <2>4. QED
    BY <2>3, BeginKeeps
<1>5. ASSUME NEW r \in Reader, Figures!BeginKpis(r) PROVE FigureInvariant'
  <2>1. Figures!Day(now) \in Figures!Days
    BY DayOfInstant DEF FigureInvariant, ReportTypes
  <2>2. <<Figures!Day(now), Figures!Day(now)>> \in Figures!Days \X Figures!Days /\ "kpi" \in Figures!Kinds
    BY <2>1 DEF Figures!Kinds
  <2>3. Figures!Begin(r, "kpi", <<Figures!Day(now), Figures!Day(now)>>)
    BY <1>5 DEF Figures!BeginKpis
  <2>4. QED
    BY <2>2, <2>3, BeginKeeps
<1>6. ASSUME NEW r \in Reader, Figures!ReadSales(r) PROVE FigureInvariant'
  <2>1. /\ reportPc[r] = "revenue" /\ kind[r] = "sales" /\ reportPc' = [reportPc EXCEPT ![r] = "done"]
        /\ books' = [books EXCEPT ![r] = Figures!Books(period[r])]
        /\ UNCHANGED <<now, saleStatus, created, units, credit, back, kind, period, reportRaced>>
    BY <1>6 DEF Figures!ReadSales, Figures!Read, Figures!shop
  <2>2. Figures!Counted(r) = Confirmed(period[r])
    BY CountedConfirmed DEF FigureInvariant
  <2>3. PICK f : /\ read' = [read EXCEPT ![r] = f] /\ DOMAIN f = {"revenue", "count", "cogs", "returns"}
                 /\ f.revenue = RevenueOf(units, Confirmed(period[r]))
                 /\ f.count = CountOf(Confirmed(period[r]))
                 /\ f.cogs = CostOf(units, Confirmed(period[r]))
    BY <1>6, <2>2, SalesUnfold
  <2>4. QED
    BY <2>1, <2>3, ReadKeeps
<1>7. ASSUME NEW r \in Reader, Figures!ReadRevenue(r) PROVE FigureInvariant'
  <2>1. PICK next : next = IF kind[r] = "summary" THEN "cogs" ELSE "returns"
    OBVIOUS
  <2>2. /\ reportPc[r] = "revenue" /\ kind[r] # "sales" /\ reportPc' = [reportPc EXCEPT ![r] = next]
        /\ books' = books
        /\ UNCHANGED <<now, saleStatus, created, units, credit, back, kind, period, reportRaced>>
    BY <1>7, <2>1 DEF Figures!ReadRevenue, Figures!Read, Figures!shop
  <2>3. Figures!Counted(r) = Confirmed(period[r])
    BY CountedConfirmed DEF FigureInvariant
  <2>4. PICK f : /\ read' = [read EXCEPT ![r] = f] /\ DOMAIN f = {"revenue", "count", "cogs", "returns"}
                 /\ f.revenue = RevenueOf(units, Confirmed(period[r]))
                 /\ f.count = CountOf(Confirmed(period[r]))
    BY <1>7, <2>3, RevenueUnfold
  <2>5. kind[r] \in {"sales", "summary", "profit", "kpi"}
    BY DEF FigureInvariant, ReportTypes, Figures!Kinds
  <2>6. QED
    BY <2>1, <2>2, <2>4, <2>5, ReadKeeps
<1>8. ASSUME NEW r \in Reader, Figures!ReadReturns(r) PROVE FigureInvariant'
  <2>1. PICK next : next = IF kind[r] = "profit" THEN "cogs" ELSE "done"
    OBVIOUS
  <2>2. /\ reportPc[r] = "returns" /\ reportPc' = [reportPc EXCEPT ![r] = next]
        /\ books' = IF next = "done" THEN [books EXCEPT ![r] = Figures!Books(period[r])] ELSE books
        /\ UNCHANGED <<now, saleStatus, created, units, credit, back, kind, period, reportRaced>>
    BY <1>8, <2>1 DEF Figures!ReadReturns, Figures!Read, Figures!shop
  <2>3. PICK f : f = [read[r] EXCEPT !.returns = BackOf(back, OnCredit, period[r][1]..period[r][2])]
    OBVIOUS
  <2>4. read' = [read EXCEPT ![r] = f]
    BY <1>8, <2>3, ReturnsUnfold
  <2>5. DOMAIN read[r] = {"revenue", "count", "cogs", "returns"}
    BY DEF FigureInvariant, ReportTypes
  <2>6. /\ DOMAIN f = {"revenue", "count", "cogs", "returns"}
        /\ f.revenue = read[r].revenue /\ f.count = read[r].count
        /\ f.returns = BackOf(back, OnCredit, period[r][1]..period[r][2])
    BY <2>3, <2>5
  <2>7. kind[r] \in {"kpi", "profit"} /\ (r \notin reportRaced => RevenueRead(r))
    BY <2>2 DEF FigureInvariant, ReportAsked, ReadStands
  <2>8. r \notin reportRaced => /\ f.revenue = RevenueOf(units, Confirmed(period[r]))
                               /\ f.count = CountOf(Confirmed(period[r]))
    BY <2>2, <2>6, <2>7 DEF RevenueRead
  <2>9. QED
    BY <2>1, <2>2, <2>4, <2>6, <2>7, <2>8, ReadKeeps
<1>9. ASSUME NEW r \in Reader, Figures!ReadCogs(r) PROVE FigureInvariant'
  <2>1. /\ reportPc[r] = "cogs" /\ reportPc' = [reportPc EXCEPT ![r] = "done"]
        /\ books' = [books EXCEPT ![r] = Figures!Books(period[r])]
        /\ UNCHANGED <<now, saleStatus, created, units, credit, back, kind, period, reportRaced>>
    BY <1>9 DEF Figures!ReadCogs, Figures!Read, Figures!shop
  <2>2. Figures!Counted(r) = Confirmed(period[r])
    BY CountedConfirmed DEF FigureInvariant
  <2>3. PICK f : f = [read[r] EXCEPT !.cogs = CostOf(units, Confirmed(period[r]))]
    OBVIOUS
  <2>4. read' = [read EXCEPT ![r] = f]
    BY <1>9, <2>2, <2>3, CogsUnfold
  <2>5. DOMAIN read[r] = {"revenue", "count", "cogs", "returns"}
    BY DEF FigureInvariant, ReportTypes
  <2>6. /\ DOMAIN f = {"revenue", "count", "cogs", "returns"}
        /\ f.revenue = read[r].revenue /\ f.count = read[r].count /\ f.returns = read[r].returns
        /\ f.cogs = CostOf(units, Confirmed(period[r]))
    BY <2>3, <2>5
  <2>7. /\ kind[r] \in {"summary", "profit"}
        /\ r \notin reportRaced => RevenueRead(r) /\ ReturnsRead(r)
    BY <2>1 DEF FigureInvariant, ReportAsked, ReadStands
  <2>8. r \notin reportRaced =>
           /\ f.revenue = RevenueOf(units, Confirmed(period[r])) /\ f.count = CountOf(Confirmed(period[r]))
           /\ kind[r] = "profit" => f.returns = BackOf(back, OnCredit, period[r][1]..period[r][2])
    BY <2>1, <2>6, <2>7 DEF RevenueRead, ReturnsRead
  <2>9. QED
    BY <2>1, <2>4, <2>6, <2>7, <2>8, ReadKeeps
<1>10. ASSUME NEW r \in Reader, Figures!EndReport(r) PROVE FigureInvariant'
  <2>1. /\ reportPc' = [reportPc EXCEPT ![r] = "idle"] /\ kind' = [kind EXCEPT ![r] = "sales"]
        /\ period' = [period EXCEPT ![r] = <<0, 0>>] /\ read' = [read EXCEPT ![r] = Figures!Nothing]
        /\ reportRaced' = reportRaced \ {r} /\ books' = [books EXCEPT ![r] = Figures!Nothing]
        /\ UNCHANGED <<now, saleStatus, created, units, credit, back>>
    BY <1>10 DEF Figures!EndReport, Figures!shop
  <2>2. <<0, 0>> \in Figures!Days \X Figures!Days /\ "sales" \in Figures!Kinds
        /\ DOMAIN Figures!Nothing = {"revenue", "count", "cogs", "returns"}
    BY DayAssumption DEF Figures!Days, Figures!Kinds, Figures!Nothing
  <2>3. ReportTypes'
    BY <2>1, <2>2 DEF FigureInvariant, ReportTypes
  <2>4. ASSUME NEW q \in Reader PROVE ReportAsked(q)' /\ ReadStands(q)'
    <3>1. CASE q = r
      BY <2>1, <3>1 DEF FigureInvariant, ReportTypes, ReportAsked, ReadStands, RevenueRead, ReturnsRead, AllRead
    <3>2. CASE q # r
      <4>1. ReportSame(q)
        BY <2>1, <3>2 DEF FigureInvariant, ReportTypes, ReportSame
      <4>2. QED
        BY <4>1, ReportSameKeeps DEF FigureInvariant
    <3>3. QED
      BY <3>1, <3>2
  <2>5. QED
    BY <2>3, <2>4 DEF FigureInvariant
<1>11. QED
  <2>1. \/ UNCHANGED Figures!vars \/ Figures!Next
    OBVIOUS
  <2>2. CASE Figures!Next
    <3>1. CASE Figures!Tick
      BY <1>1, <3>1
    <3>2. CASE \E s \in Sale : \/ \E n \in 1..MaxSold, c \in BOOLEAN : Figures!CreateSale(s, n, c)
                              \/ Figures!ConfirmSale(s)
                              \/ \E n \in 1..MaxSold : Figures!ReturnSale(s, n)
      BY <1>2, <3>2
    <3>3. QED
      BY <1>3, <1>4, <1>5, <1>6, <1>7, <1>8, <1>9, <1>10, <2>2, <3>1, <3>2 DEF Figures!Next
  <2>3. QED
    BY <1>1, <2>1, <2>2

\* A behaviour starts with no report.
LEMMA FigureInit == Figures!Init => FigureInvariant
<1> SUFFICES ASSUME Figures!Init PROVE FigureInvariant
  OBVIOUS
<1>1. 0 \in Figures!Instants /\ 0 \in Figures!Days
  <2>1. (LastDay + 1) * DayLength \in Nat \ {0}
    <3>1. LastDay + 1 >= 1 /\ DayLength >= 1 /\ LastDay + 1 \in Nat /\ DayLength \in Nat
      BY DayAssumption
    <3>2. (LastDay + 1) * DayLength = LastDay * DayLength + DayLength /\ LastDay * DayLength \in Nat
      BY DayAssumption
    <3>3. QED
      BY <3>1, <3>2
  <2>2. QED
    BY <2>1, DayAssumption DEF Figures!Instants, Figures!Days
<1>2. ReportTypes
  BY <1>1 DEF Figures!Init, ReportTypes, Figures!Kinds, Figures!Nothing
<1>3. \A r \in Reader : ReportAsked(r) /\ ReadStands(r)
  BY DEF Figures!Init, ReportAsked, ReadStands, RevenueRead, ReturnsRead, AllRead
<1>4. QED
  BY <1>2, <1>3 DEF FigureInvariant

\* A step of the composition is a step of Reports, or leaves it alone.
LEMMA FigureNext == [Next]_vars => [Figures!Next]_(Figures!vars)
BY DEF Next, vars, figures, Figures!vars, Figures!shop, Figures!reports

\* Sales report, financial summary, profit summary and dashboard show the figures
\* of the days asked for, and so agree, unless a sale changed between two of a
\* report's statements (FiguresAgree).
THEOREM ReportsAgree == Spec => []FiguresAgree
<1>1. Init => FigureInvariant
  BY FigureInit DEF Init
<1>2. FigureInvariant /\ [Next]_vars => FigureInvariant'
  BY FigureStep, FigureNext
<1>3. FigureInvariant => FiguresAgree
  BY DEF FigureInvariant, ReadStands, AllRead, FiguresAgree, Figures!FiguresAgree
<1>4. QED
  BY <1>1, <1>2, <1>3, PTL DEF Spec

-----------------------------------------------------------------------------
(* Notifications                                                           *)

\* Only what the table holds is shown, listed and marked.
Known ==
    /\ \A e \in Event : shown[e] # "hidden" => alerts[e] # NoAlert
    /\ fetch # Bell!NoCall => \A e \in Event : fetch.got[e] # "hidden" => alerts[e] # NoAlert
    /\ mark # Bell!NoCall => alerts[mark.of] # NoAlert

\* One call is on its way at most.
OneAtATime ==
    /\ fetch # Bell!NoCall => mark = Bell!NoCall /\ markAll = "none"
    /\ mark # Bell!NoCall => markAll = "none"

\* What a call on its way has already marked.
Pending(e) == markAll = "answered" \/ (mark # Bell!NoCall /\ mark.at = "answered" /\ mark.of = e)

\* What is shown agrees with the table but for what a call on its way has
\* already marked.
ShownAgrees ==
    \A e \in Event : shown[e] # "hidden" => Pending(e) \/ shown[e] = Bell!Look(alerts[e])

\* So does the list that is on its way.
ListAgrees ==
    fetch # Bell!NoCall =>
        \A e \in Event : fetch.got[e] # "hidden" => fetch.got[e] = Bell!Look(alerts[e])

\* A mark that was answered is in the table.
MarkAgrees ==
    mark # Bell!NoCall =>
        /\ mark.at = "read" => mark.view = alerts[mark.of]
        /\ mark.at = "answered" => alerts[mark.of].read = mark.as

\* So is the mark of all.
AllAgrees ==
    markAll = "answered" => \A e \in Event : shown[e] # "hidden" => alerts[e].read

\* What is read has the date when it was.
DatesAgree == \A e \in Event : alerts[e] # NoAlert => alerts[e].read = alerts[e].dated

\* What holds while no two calls overlapped and no answer was lost.
PageAgrees == OneAtATime /\ ShownAgrees /\ ListAgrees /\ MarkAgrees /\ AllAgrees /\ DatesAgree

\* What the proof of PageTells carries.
PageInvariant == Bell!TypeOK /\ Known /\ (overlapped \/ lost \/ PageAgrees)

\* A step of the composition is a step of Notifications, or leaves it alone.
LEMMA BellNext == [Next]_vars => [Bell!Next]_(Bell!vars)
BY DEF Next, vars, noticing, Bell!vars, Bell!page

\* A behaviour starts with an empty table and page.
LEMMA BellInit == Bell!Init => PageInvariant
<1> SUFFICES ASSUME Bell!Init PROVE PageInvariant
  OBVIOUS
<1>1. Bell!TypeOK
  BY DEF Bell!Init, Bell!TypeOK, Bell!Hidden, Bell!Looks, Bell!NoCall, Bell!Tabs
<1>2. Known /\ PageAgrees
  BY DEF Bell!Init, Bell!Hidden, Known, Bell!NoCall,
         PageAgrees, OneAtATime, ShownAgrees, ListAgrees, MarkAgrees, AllAgrees, DatesAgree
<1>3. QED
  BY <1>1, <1>2 DEF PageInvariant

\* Every step keeps the types.
LEMMA BellTypes ==
    ASSUME Bell!TypeOK, Known, [Bell!Next]_(Bell!vars)
    PROVE  Bell!TypeOK' /\ Known'
<1> USE RowAssumption DEF Bell!TypeOK, Known, Bell!Looks, Bell!Loading
<1>1. ASSUME NEW e \in Event, Bell!Insert(e) PROVE Bell!TypeOK' /\ Known'
  BY <1>1 DEF Bell!Insert, Bell!Unread, Bell!page
<1>2. ASSUME NEW t \in Bell!Tabs, Bell!ChooseTab(t) PROVE Bell!TypeOK' /\ Known'
  BY <1>2 DEF Bell!ChooseTab, Bell!Hidden, Bell!NoCall
<1>3. CASE Bell!OpenPage
  BY <1>3 DEF Bell!OpenPage, Bell!Hidden, Bell!NoCall, Bell!Tabs
<1>4. CASE Bell!ListNotifications
  BY <1>4 DEF Bell!ListNotifications, Bell!Look, Bell!NoCall
<1>5. CASE Bell!ShowList
  BY <1>5 DEF Bell!ShowList, Bell!NoCall
<1>6. CASE Bell!FetchFails
  BY <1>6 DEF Bell!FetchFails
<1>7. ASSUME NEW e \in Event, NEW as \in BOOLEAN, Bell!Click(e, as) PROVE Bell!TypeOK' /\ Known'
  BY <1>7 DEF Bell!Click, Bell!Calls, Bell!Unread, Bell!NoCall
<1>8. CASE Bell!GetNotification
  <2>1. mark \in Bell!Calls /\ alerts[mark.of] \in [read : BOOLEAN, dated : BOOLEAN]
    BY <1>8 DEF Bell!GetNotification, Bell!Calls, Bell!NoCall
  <2>2. mark' \in Bell!Calls /\ mark'.of = mark.of /\ UNCHANGED <<alerts, tab, shown, fetch, markAll, overlapped, lost>>
    BY <1>8, <2>1 DEF Bell!GetNotification, Bell!Calls
  <2>3. QED
    BY <2>1, <2>2
<1>9. CASE Bell!MarkNotification
  BY <1>9 DEF Bell!MarkNotification, Bell!Calls, Bell!NoCall
<1>10. CASE Bell!ShowMark
  BY <1>10 DEF Bell!ShowMark, Bell!Calls, Bell!Look, Bell!NoCall
<1>11. CASE Bell!MarkFails
  BY <1>11 DEF Bell!MarkFails, Bell!NoCall
<1>12. CASE Bell!ClickMarkAll
  BY <1>12 DEF Bell!ClickMarkAll
<1>13. CASE Bell!MarkAllRead
  <2>1. \A e \in Event : \/ alerts'[e] = alerts[e]
                         \/ alerts'[e] = [read |-> TRUE, dated |-> TRUE]
    BY <1>13 DEF Bell!MarkAllRead, Bell!Read
  <2>2. [read |-> TRUE, dated |-> TRUE] \in [read : BOOLEAN, dated : BOOLEAN]
    OBVIOUS
  <2>3. /\ \A e \in Event : alerts'[e] \in {NoAlert} \cup [read : BOOLEAN, dated : BOOLEAN]
        /\ alerts' = [e \in Event |-> alerts'[e]]
    BY <1>13, <2>1, <2>2 DEF Bell!MarkAllRead
  <2>4. /\ \A e \in Event : alerts[e] # NoAlert => alerts'[e] # NoAlert
        /\ markAll' = "answered" /\ UNCHANGED <<tab, shown, fetch, mark, overlapped, lost>>
    BY <1>13, <2>1, <2>2 DEF Bell!MarkAllRead
  <2>5. mark # Bell!NoCall => mark.of \in Event
    BY DEF Bell!Calls
  <2>6. alerts' \in [Event -> {NoAlert} \cup [read : BOOLEAN, dated : BOOLEAN]]
    BY <2>3
  <2>7. Bell!TypeOK'
    BY <2>4, <2>6
  <2>8. Known'
    BY <2>4, <2>5
  <2>9. QED
    BY <2>7, <2>8
<1>14. CASE Bell!ShowAllRead
  BY <1>14 DEF Bell!ShowAllRead
<1>15. CASE Bell!MarkAllFails
  BY <1>15 DEF Bell!MarkAllFails
<1>16. CASE UNCHANGED Bell!vars
  BY <1>16 DEF Bell!vars, Bell!page
<1> QED
  BY <1>1, <1>2, <1>3, <1>4, <1>5, <1>6, <1>7, <1>8, <1>9, <1>10, <1>11, <1>12, <1>13, <1>14, <1>15, <1>16
  DEF Bell!Next, Bell!TriggerPendingApproval, Bell!TriggerLowStock

\* Every step keeps the page in agreement with the table.
LEMMA BellAgrees ==
    ASSUME Bell!TypeOK, Known, PageAgrees, [Bell!Next]_(Bell!vars)
    PROVE  overlapped' \/ lost' \/ PageAgrees'
<1> DEFINE Agreed == overlapped' \/ lost' \/ PageAgrees'
<1> USE RowAssumption DEF Bell!TypeOK, Known, Bell!Looks, Bell!Loading, PageAgrees, OneAtATime,
        ShownAgrees, Pending, ListAgrees, MarkAgrees, AllAgrees, DatesAgree
<1>1. ASSUME NEW e \in Event, Bell!Insert(e) PROVE Agreed
  <2>1. /\ alerts[e] = NoAlert /\ alerts'[e].read = FALSE /\ alerts'[e].dated = FALSE
        /\ \A f \in Event \ {e} : alerts'[f] = alerts[f]
        /\ UNCHANGED <<tab, shown, fetch, mark, markAll>>
    BY <1>1 DEF Bell!Insert, Bell!Unread, Bell!page
  <2>2. mark # Bell!NoCall => mark.of \in Event
    BY DEF Bell!Calls
  <2>3. \A f \in Event : shown[f] # "hidden" => f # e
    BY <2>1
  <2>4. OneAtATime' /\ ShownAgrees'
    BY <2>1, <2>3
  <2>5. ListAgrees'
    BY <2>1, <2>2
  <2>6. MarkAgrees'
    BY <2>1, <2>2
  <2>7. AllAgrees'
    BY <2>1, <2>3
  <2>8. ASSUME NEW f \in Event, alerts'[f] # NoAlert PROVE alerts'[f].read = alerts'[f].dated
    <3>1. CASE f = e
      BY <2>1, <3>1
    <3>2. CASE f # e
      BY <2>1, <2>8, <3>2
    <3>3. QED
      BY <3>1, <3>2
  <2>9. QED
    BY <2>4, <2>5, <2>6, <2>7, <2>8
<1>2. ASSUME NEW t \in Bell!Tabs, Bell!ChooseTab(t) PROVE Agreed
  BY <1>2 DEF Bell!ChooseTab, Bell!Hidden, Bell!NoCall
<1>3. CASE Bell!OpenPage
  BY <1>3 DEF Bell!OpenPage, Bell!Hidden, Bell!NoCall
<1>4. CASE Bell!ListNotifications
  BY <1>4 DEF Bell!ListNotifications, Bell!NoCall
<1>5. CASE Bell!ShowList
  BY <1>5 DEF Bell!ShowList, Bell!NoCall
<1>6. CASE Bell!FetchFails
  BY <1>6 DEF Bell!FetchFails
<1>7. ASSUME NEW e \in Event, NEW as \in BOOLEAN, Bell!Click(e, as) PROVE Agreed
  BY <1>7 DEF Bell!Click, Bell!Clickable, Bell!Unread, Bell!NoCall
<1>8. CASE Bell!GetNotification
  BY <1>8 DEF Bell!GetNotification, Bell!Calls, Bell!NoCall
<1>9. CASE Bell!MarkNotification
  BY <1>9 DEF Bell!MarkNotification, Bell!Calls, Bell!NoCall
<1>10. CASE Bell!ShowMark
  BY <1>10 DEF Bell!ShowMark, Bell!Calls, Bell!Look, Bell!NoCall
<1>11. CASE Bell!MarkFails
  BY <1>11 DEF Bell!MarkFails, Bell!NoCall
<1>12. CASE Bell!ClickMarkAll
  BY <1>12 DEF Bell!ClickMarkAll
<1>13. CASE Bell!MarkAllRead
  BY <1>13 DEF Bell!MarkAllRead, Bell!Read
<1>14. CASE Bell!ShowAllRead
  BY <1>14 DEF Bell!ShowAllRead, Bell!Look
<1>15. CASE Bell!MarkAllFails
  BY <1>15 DEF Bell!MarkAllFails
<1>16. CASE UNCHANGED Bell!vars
  BY <1>16 DEF Bell!vars, Bell!page
<1> QED
  BY <1>1, <1>2, <1>3, <1>4, <1>5, <1>6, <1>7, <1>8, <1>9, <1>10, <1>11, <1>12, <1>13, <1>14, <1>15, <1>16
  DEF Bell!Next, Bell!TriggerPendingApproval, Bell!TriggerLowStock

\* Every step of Notifications keeps the invariant.
LEMMA BellStep ==
    ASSUME PageInvariant, [Bell!Next]_(Bell!vars)
    PROVE  PageInvariant'
<1>1. Bell!TypeOK' /\ Known'
  BY BellTypes DEF PageInvariant
<1>2. (overlapped \/ lost) => (overlapped' \/ lost')
  BY DEF PageInvariant, Bell!Next, Bell!vars, Bell!page, Bell!TriggerPendingApproval, Bell!TriggerLowStock,
     Bell!Insert, Bell!ChooseTab, Bell!OpenPage, Bell!ListNotifications, Bell!ShowList, Bell!FetchFails,
     Bell!Click, Bell!GetNotification, Bell!MarkNotification, Bell!ShowMark, Bell!MarkFails,
     Bell!ClickMarkAll, Bell!MarkAllRead, Bell!ShowAllRead, Bell!MarkAllFails
<1>3. QED
  BY <1>1, <1>2, BellAgrees DEF PageInvariant

\* The notifications page shows what the table holds, once no call is on its way,
\* unless two calls overlapped or an answer was lost (PageTells).
THEOREM PageShowsTable == Spec => []PageTells
<1>1. Init => PageInvariant
  BY BellInit DEF Init
<1>2. PageInvariant /\ [Next]_vars => PageInvariant'
  BY BellStep, BellNext
<1>3. PageInvariant => PageTells
  BY DEF PageInvariant, PageAgrees, Known, ShownAgrees, Pending, DatesAgree, PageTells, Bell!PageTells
<1>4. QED
  BY <1>1, <1>2, <1>3, PTL DEF Spec

-----------------------------------------------------------------------------
(* What else the types of a sale's documents say.                          *)

\* No more came back of a line, or of a part, than was sold in all.
PaperRest ==
    /\ basket \in [Line -> Part \cup {External}]
    /\ paperStatus \in {"DRAFT", "CONFIRMED", "RETURNED"}
    /\ external \in [Line -> 0..Papers!UnitsSold]
    /\ moved \in [Part -> 0..Papers!UnitsSold]
    /\ paperView \in [Req -> [Line -> 0..Papers!UnitsSold]]
    /\ paperRaced \subseteq Format

\* What is sold is a number of units, and no less than some units of its lines.
LEMMA SoldBounds ==
    /\ Papers!UnitsSold = SumOver(Quantity, Line) /\ Papers!UnitsSold \in Nat
    /\ \A l \in Line : Quantity[l] <= Papers!UnitsSold
    /\ \A f : (\A l \in Line : f[l] \in Nat /\ f[l] <= Quantity[l]) => SumOver(f, Line) <= Papers!UnitsSold
<1>1. Papers!UnitsSold = SumOver(Quantity, Line)
  BY DEF Papers!UnitsSold, Papers!Sum, Papers!MapThenSumSet, Papers!MapThenFoldSet, SumOver, Summing, Pick
<1>2. \A l \in Line : Quantity[l] \in Nat
  BY QuantityAssumption
<1>3. SumOver(Quantity, Line) \in Nat
  BY <1>2, LineAssumption, SumType
<1>4. ASSUME NEW l \in Line PROVE Quantity[l] <= SumOver(Quantity, Line)
  <2>1. SumOver(Quantity, Line) = Quantity[l] + SumOver(Quantity, Line \ {l})
    BY <1>2, LineAssumption, SumRemove
  <2>2. SumOver(Quantity, Line \ {l}) \in Nat
    <3>1. IsFiniteSet(Line \ {l}) /\ \A k \in Line \ {l} : Quantity[k] \in Nat
      BY <1>2, LineAssumption, FS_Subset
    <3>2. QED
      BY <3>1, SumType
  <2>3. QED
    BY <1>2, <2>1, <2>2
<1>5. ASSUME NEW f, \A l \in Line : f[l] \in Nat /\ f[l] <= Quantity[l]
      PROVE  SumOver(f, Line) <= SumOver(Quantity, Line)
  BY <1>2, <1>5, LineAssumption, SumMonotone
<1>6. QED
  BY <1>1, <1>3, <1>4, <1>5

\* A return of lines that are each compared with what came back of their part
\* moves no more of it than was sold, if the part is on several lines too.
LEMMA MovedBound ==
    ASSUME PaperRest, NEW g \in [Line -> 0..Papers!UnitsSold], Papers!Returnable(g), NEW p \in Part
    PROVE  moved[p] + Papers!MovedOf(p, g) \in 0..Papers!UnitsSold
<1>1. PICK f : f = MovedEach(p, g)
  OBVIOUS
<1>2. /\ Papers!MovedOf(p, g) = SumOver(f, Line) /\ Papers!UnitsSold \in Nat
      /\ g \in [Line -> Nat] /\ moved[p] \in Nat /\ moved[p] <= Papers!UnitsSold
  BY <1>1, MovedFolded, SoldBounds DEF PaperRest
<1>3. \A l \in Line : f[l] \in Nat /\ f[l] = IF basket[l] = p THEN g[l] ELSE 0
  BY <1>1, <1>2 DEF MovedEach
<1>4. SumOver(f, Line) \in Nat
  BY <1>3, LineAssumption, SumType
<1>5. CASE \A l \in Line : f[l] = 0
  <2>1. SumOver(f, Line) = 0
    BY <1>5, LineAssumption, SumType
  <2>2. QED
    BY <1>2, <2>1
<1>6. ASSUME NEW l \in Line, f[l] # 0 PROVE moved[p] + SumOver(f, Line) <= Papers!UnitsSold
  <2> DEFINE e == [k \in Line |-> IF k = l THEN moved[p] ELSE 0]
             h == [k \in Line |-> f[k] + e[k]]
  <2>1. ASSUME NEW k \in Line, f[k] # 0 PROVE f[k] + moved[p] <= Quantity[k]
    <3>1. basket[k] = p /\ f[k] = g[k] /\ basket[k] # External
      BY <1>3, <2>1, NoneAssumption
    <3>2. g[k] <= Quantity[k] - moved[p]
      BY <2>1, <3>1 DEF Papers!Returnable, Papers!Returned
    <3>3. QED
      BY <1>2, <3>1, <3>2, QuantityAssumption
  <2>2. \A k \in Line : h[k] \in Nat /\ h[k] <= Quantity[k]
    BY <1>2, <1>3, <1>6, <2>1, QuantityAssumption
  <2>3. \A k \in Line : f[k] \in Int /\ e[k] \in Int /\ h[k] = f[k] + e[k]
    BY <1>2, <1>3
  <2>4. e[l] = moved[p] /\ e[l] \in Int /\ \A k \in Line \ {l} : e[k] = 0
    BY <1>2
  <2> HIDE DEF e, h
  <2>5. SumOver(h, Line) <= Papers!UnitsSold
    BY <2>2, SoldBounds
  <2>6. SumOver(h, Line) = SumOver(f, Line) + SumOver(e, Line)
    BY <2>3, LineAssumption, SumAdds
  <2>7. SumOver(e, Line) = moved[p]
    BY <2>4, LineAssumption, SumSingle
  <2>8. QED
    BY <1>2, <1>4, <2>5, <2>6, <2>7
<1>7. QED
  BY <1>2, <1>4, <1>5, <1>6

\* Every step of Invoices keeps these types.
LEMMA PaperRestStep ==
    ASSUME RequestTypes, PaperRest, [Papers!Next]_(Papers!vars)
    PROVE  PaperRest'
<1> USE DEF PaperRest
<1>a. Papers!UnitsSold' = Papers!UnitsSold /\ Papers!UnitsSold \in Nat
  BY SoldBounds DEF Papers!UnitsSold, Papers!Sum, Papers!MapThenSumSet, Papers!MapThenFoldSet
<1>1. ASSUME UNCHANGED <<basket, external, moved>>,
             paperStatus' \in {"DRAFT", "CONFIRMED", "RETURNED"}, paperRaced' \subseteq Format,
             \/ UNCHANGED paperView
             \/ \E r \in Req, t \in [Line -> 0..Papers!UnitsSold] : paperView' = [paperView EXCEPT ![r] = t]
      PROVE  PaperRest'
  BY <1>a, <1>1
<1>2. ASSUME \/ UNCHANGED Papers!vars \/ Papers!ConfirmSale
             \/ \E r \in Req : \/ Papers!FindNoInvoice(r)
                               \/ \E f \in Format, replace \in BOOLEAN : Papers!BeginGenerate(r, f, replace)
      PROVE  PaperRest'
  <2>1. /\ UNCHANGED <<basket, external, moved, paperView>> /\ paperRaced' \subseteq Format
        /\ paperStatus' \in {"DRAFT", "CONFIRMED", "RETURNED"}
    BY <1>2 DEF Papers!vars, Papers!sale, Papers!requests, Papers!history, Papers!ConfirmSale,
                Papers!FindNoInvoice, Papers!BeginGenerate, Papers!Render, RequestTypes
  <2>2. QED
    BY <1>1, <2>1
<1>3. ASSUME NEW r \in Req, Papers!BeginNote(r) PROVE PaperRest'
  BY <1>1, <1>3 DEF Papers!BeginNote, Papers!sale
<1>4. ASSUME NEW r \in Req, \/ Papers!Refuse(r) \/ Papers!StoreInvoice(r) \/ Papers!WriteNote(r)
                           \/ Papers!SendNote(r)
      PROVE  PaperRest'
  <2>1. /\ UNCHANGED <<basket, external, moved, paperStatus, paperRaced>>
        /\ UNCHANGED paperView \/ paperView' = [paperView EXCEPT ![r] = Papers!Zero]
    BY <1>4 DEF Papers!Refuse, Papers!StoreInvoice, Papers!WriteNote, Papers!SendNote,
                Papers!EndRequest, Papers!sale
  <2>2. Papers!Zero \in [Line -> 0..Papers!UnitsSold]
    BY <1>a DEF Papers!Zero
  <2>3. QED
    BY <1>1, <2>1, <2>2
<1>5. ASSUME NEW g \in [Line -> 0..Papers!UnitsSold], Papers!ReturnSale(g) PROVE PaperRest'
  <2>1. /\ external' = [l \in Line |-> external[l] + IF basket[l] = External THEN g[l] ELSE 0]
        /\ moved' = [p \in Part |-> moved[p] + Papers!MovedOf(p, g)]
        /\ paperStatus' \in {paperStatus, "RETURNED"} /\ Papers!Returnable(g)
        /\ UNCHANGED <<basket, paperView, paperRaced>>
    BY <1>5 DEF Papers!ReturnSale, Papers!requests
  <2>2. moved' \in [Part -> 0..Papers!UnitsSold]
    <3>1. \A p \in Part : moved[p] + Papers!MovedOf(p, g) \in 0..Papers!UnitsSold
      BY <2>1, MovedBound
    <3>2. QED
      BY <2>1, <3>1
  <2>3. ASSUME NEW l \in Line PROVE external'[l] \in 0..Papers!UnitsSold
    <3>1. CASE basket[l] # External \/ g[l] = 0
      BY <1>a, <2>1, <3>1
    <3>2. CASE basket[l] = External /\ g[l] # 0
      <4>1. g[l] <= Quantity[l] - external[l]
        BY <2>1, <3>2 DEF Papers!Returnable, Papers!Returned
      <4>2. Quantity[l] \in Nat /\ Quantity[l] <= Papers!UnitsSold
        BY SoldBounds, QuantityAssumption
      <4>3. g[l] \in Nat /\ external[l] \in Nat /\ external'[l] = external[l] + g[l]
        BY <1>a, <2>1, <3>2
      <4>4. QED
        BY <1>a, <4>1, <4>2, <4>3
    <3>3. QED
      BY <3>1, <3>2
  <2>4. QED
    BY <1>a, <2>1, <2>2, <2>3
<1> HIDE DEF PaperRest
<1>6. QED
  BY <1>2, <1>3, <1>4, <1>5 DEF Papers!Next

\* A behaviour starts with nothing returned.
LEMMA PaperRestInit == Papers!Init => PaperRest
<1>1. Papers!Zero \in [Line -> 0..Papers!UnitsSold] /\ 0 \in 0..Papers!UnitsSold
  BY SoldBounds DEF Papers!Zero
<1>2. QED
  BY <1>1 DEF Papers!Init, PaperRest

\* The types of a sale's documents.
LEMMA PaperTypes == RequestTypes /\ NoteTypes /\ PaperRest => Papers!TypeOK
BY DEF RequestTypes, NoteTypes, PaperRest, Papers!TypeOK

-----------------------------------------------------------------------------
(* What else the types of the reports say.                                 *)

\* What a report shows is sums of finitely many sales, none of which brings back
\* more than it sold.
ReportRest ==
    /\ saleStatus \in [Sale -> Figures!Status]
    /\ units \in [Sale -> 0..MaxSold]
    /\ credit \in [Sale -> BOOLEAN]
    /\ back \in [Sale -> [Figures!Days -> 0..MaxSold]]
    /\ read \in [Reader -> Figures!Figures]
    /\ reportRaced \subseteq Reader
    /\ books \in [Reader -> Figures!Figures]

\* What units are worth, each at w.
ValueOf(u, w, S) == Figures!MapThenSumSet(LAMBDA s : u[s] * w, S)

\* That is a number.
LEMMA ValuesFolded ==
    ASSUME NEW D, IsFiniteSet(D), NEW u, NEW w \in Nat, \A s \in D : u[s] \in Nat
    PROVE  ValueOf(u, w, D) \in Nat
<1> DEFINE f == [s \in D |-> u[s] * w]
           Q(h) == h = [S \in SUBSET D |-> IF S = {} THEN 0 ELSE u[Pick(S)] * w + h[S \ {Pick(S)}]]
           P(h) == Summing(f, D, h)
<1>1. \A S \in SUBSET D : S # {} => f[Pick(S)] = u[Pick(S)] * w
  BY PickIn
<1>2. \A h : P(h) <=> Q(h)
  BY <1>1 DEF Summing
<1>3. \A s \in D : f[s] \in Nat
  OBVIOUS
<1>4. ValueOf(u, w, D) = (CHOOSE h : Q(h))[D]
  BY DEF Figures!MapThenSumSet, Figures!MapThenFoldSet, Pick, ValueOf
<1> HIDE DEF f, P, Q
<1>5. PICK h : h = CHOOSE i : Q(i)
  OBVIOUS
<1>6. P(h)
  <2>1. P(CHOOSE i : P(i))
    BY SummingExists DEF P
  <2>2. QED
    BY <1>2, <1>5, <2>1
<1>7. h[D] = SumOver(f, D)
  <2>1. h = [S \in SUBSET D |-> IF S = {} THEN 0 ELSE f[Pick(S)] + h[S \ {Pick(S)}]]
    BY <1>6 DEF P, Summing
  <2>2. \A S \in SUBSET D : h[S] = IF S = {} THEN 0 ELSE f[Pick(S)] + h[S \ {Pick(S)}]
    BY <2>1
  <2>3. QED
    BY <2>2, ChoiceSums
<1>8. QED
  BY <1>3, <1>4, <1>5, <1>7, SumType

\* A sum that counts.
LEMMA SalesCounted ==
    ASSUME NEW D, IsFiniteSet(D)
    PROVE  CountOf(D) \in Nat
<1> DEFINE f == [s \in D |-> 1]
           Q(h) == h = [S \in SUBSET D |-> IF S = {} THEN 0 ELSE 1 + h[S \ {Pick(S)}]]
           P(h) == Summing(f, D, h)
<1>1. \A S \in SUBSET D : S # {} => f[Pick(S)] = 1
  BY PickIn
<1>2. \A h : P(h) <=> Q(h)
  BY <1>1 DEF Summing
<1>3. \A s \in D : f[s] \in Nat
  OBVIOUS
<1>4. CountOf(D) = (CHOOSE h : Q(h))[D]
  BY DEF Figures!MapThenSumSet, Figures!MapThenFoldSet, Pick, CountOf
<1> HIDE DEF f, P, Q
<1>5. PICK h : h = CHOOSE i : Q(i)
  OBVIOUS
<1>6. P(h)
  <2>1. P(CHOOSE i : P(i))
    BY SummingExists DEF P
  <2>2. QED
    BY <1>2, <1>5, <2>1
<1>7. h[D] = SumOver(f, D)
  <2>1. h = [S \in SUBSET D |-> IF S = {} THEN 0 ELSE f[Pick(S)] + h[S \ {Pick(S)}]]
    BY <1>6 DEF P, Summing
  <2>2. \A S \in SUBSET D : h[S] = IF S = {} THEN 0 ELSE f[Pick(S)] + h[S \ {Pick(S)}]
    BY <2>1
  <2>3. QED
    BY <2>2, ChoiceSums
<1>8. QED
  BY <1>3, <1>4, <1>5, <1>7, SumType

\* The units that came back of a sale on some days.
BackOn(b, s, E) == Figures!MapThenSumSet(LAMBDA d : b[s][d], E)

\* They are a sum as well.
LEMMA BackSummed == \A b, s, E : BackOn(b, s, E) = SumOver(b[s], E)
BY DEF BackOn, SumOver, Summing, Pick, Figures!MapThenSumSet, Figures!MapThenFoldSet

\* A sum of what came back.
LEMMA BackFolded ==
    ASSUME NEW D, IsFiniteSet(D), NEW b, NEW E, SalePrice \in Nat,
           \A s \in D : BackOn(b, s, E) \in Nat
    PROVE  BackOf(b, D, E) \in Nat
<1> DEFINE f == [s \in D |-> SalePrice * BackOn(b, s, E)]
           Q(h) == h = [S \in SUBSET D |-> IF S = {} THEN 0 ELSE SalePrice * BackOn(b, Pick(S), E) + h[S \ {Pick(S)}]]
           P(h) == Summing(f, D, h)
<1>1. \A S \in SUBSET D : S # {} => f[Pick(S)] = SalePrice * BackOn(b, Pick(S), E)
  BY PickIn
<1>2. \A h : P(h) <=> Q(h)
  BY <1>1 DEF Summing
<1>3. \A s \in D : f[s] \in Nat
  OBVIOUS
<1>4. BackOf(b, D, E) = (CHOOSE h : Q(h))[D]
  BY DEF Figures!MapThenSumSet, Figures!MapThenFoldSet, Pick, BackOf, BackOn
<1> HIDE DEF f, P, Q
<1>5. PICK h : h = CHOOSE i : Q(i)
  OBVIOUS
<1>6. P(h)
  <2>1. P(CHOOSE i : P(i))
    BY SummingExists DEF P
  <2>2. QED
    BY <1>2, <1>5, <2>1
<1>7. h[D] = SumOver(f, D)
  <2>1. h = [S \in SUBSET D |-> IF S = {} THEN 0 ELSE f[Pick(S)] + h[S \ {Pick(S)}]]
    BY <1>6 DEF P, Summing
  <2>2. \A S \in SUBSET D : h[S] = IF S = {} THEN 0 ELSE f[Pick(S)] + h[S \ {Pick(S)}]
    BY <2>1
  <2>3. QED
    BY <2>2, ChoiceSums
<1>8. QED
  BY <1>3, <1>4, <1>5, <1>7, SumType

\* Whatever the sales, the figures of a report are numbers.
LEMMA FigureTypes ==
    ASSUME IsFiniteSet(Sale), ReportTypes, ReportRest, NEW S \in SUBSET Sale, NEW p \in Figures!Days \X Figures!Days
    PROVE  /\ RevenueOf(units, S) \in Nat /\ CountOf(S) \in Nat /\ CostOf(units, S) \in Nat
           /\ BackOf(back, S, p[1]..p[2]) \in Nat
<1>1. IsFiniteSet(S)
  BY FS_Subset
<1>2. \A s \in S : units[s] \in Nat
  BY ShopAssumption DEF ReportRest
<1>3. RevenueOf(units, S) \in Nat /\ CostOf(units, S) \in Nat
  <2>1. RevenueOf(units, S) = ValueOf(units, SalePrice, S) /\ CostOf(units, S) = ValueOf(units, SaleCost, S)
    BY DEF RevenueOf, CostOf, ValueOf, Figures!MapThenSumSet, Figures!MapThenFoldSet
  <2>2. QED
    BY <1>1, <1>2, <2>1, ValuesFolded, ShopAssumption
<1>4. CountOf(S) \in Nat
  BY <1>1, SalesCounted
<1>5. PICK E : E = p[1]..p[2]
  OBVIOUS
<1>6. IsFiniteSet(E) /\ E \subseteq Figures!Days
  <2>1. p[1] \in 0..LastDay /\ p[2] \in 0..LastDay
    BY DEF Figures!Days
  <2>2. E \subseteq 0..LastDay
    <3>1. PICK a \in 0..LastDay, b \in 0..LastDay : E = a..b
      BY <1>5, <2>1
    <3>2. QED
      BY <3>1, DayAssumption
  <2>3. IsFiniteSet(0..LastDay)
    BY FS_Interval, DayAssumption
  <2>4. QED
    BY <2>2, <2>3, FS_Subset DEF Figures!Days
<1>7. ASSUME NEW s \in S PROVE BackOn(back, s, E) \in Nat
  <2>1. \A d \in E : back[s][d] \in Nat
    BY <1>6, ShopAssumption DEF ReportRest
  <2>2. QED
    BY <1>6, <2>1, BackSummed, SumType
<1>8. BackOf(back, S, E) \in Nat
  BY <1>1, <1>7, BackFolded, ShopAssumption
<1>9. QED
  BY <1>3, <1>4, <1>5, <1>8

\* What is left of a sale bounds what may come back of it.
LEMMA BackBound ==
    ASSUME ReportTypes, ReportRest, NEW s \in Sale, NEW n \in 1..MaxSold, n <= units[s] - Figures!Returned(s),
           NEW d \in Figures!Days
    PROVE  back[s][d] + n \in 0..MaxSold
<1>1. Figures!Returned(s) = SumOver(back[s], Figures!Days)
  BY DEF Figures!Returned, Figures!SumOver, SumOver, Summing, Pick, Figures!MapThenSumSet, Figures!MapThenFoldSet
<1>2. IsFiniteSet(Figures!Days) /\ \A e \in Figures!Days : back[s][e] \in Nat
  <2>1. IsFiniteSet(Figures!Days)
    BY FS_Interval, DayAssumption DEF Figures!Days
  <2>2. back[s] \in [Figures!Days -> 0..MaxSold]
    BY DEF ReportRest
  <2>3. QED
    BY <2>1, <2>2, ShopAssumption
<1>3. SumOver(back[s], Figures!Days) = back[s][d] + SumOver(back[s], Figures!Days \ {d})
  BY <1>2, SumRemove
<1>4. SumOver(back[s], Figures!Days \ {d}) \in Nat
  <2>1. IsFiniteSet(Figures!Days \ {d})
    BY <1>2, FS_Subset
  <2>2. QED
    BY <1>2, <2>1, SumType
<1>5. units[s] \in 0..MaxSold /\ back[s][d] \in Nat /\ MaxSold \in Nat
  BY <1>2, ShopAssumption DEF ReportRest
<1>6. QED
  BY <1>1, <1>3, <1>4, <1>5

\* Every step of Reports keeps these types.
LEMMA ReportRestStep ==
    ASSUME IsFiniteSet(Sale), FigureInvariant, ReportRest, [Figures!Next]_(Figures!vars)
    PROVE  ReportRest'
<1>a. ReportTypes /\ Figures!Nothing \in Figures!Figures
  BY DEF FigureInvariant, Figures!Nothing, Figures!Figures
<1>1. ASSUME UNCHANGED <<saleStatus, units, credit, back>>, reportRaced' \subseteq Reader,
             \/ UNCHANGED <<read, books>>
             \/ \E r \in Reader, f \in Figures!Figures, k \in Figures!Figures :
                   /\ read' = [read EXCEPT ![r] = f]
                   /\ books' \in {books, [books EXCEPT ![r] = k]}
      PROVE  ReportRest'
  BY <1>1 DEF ReportRest
<1>b. reportRaced \subseteq Reader
  BY DEF ReportRest
<1>2. ASSUME \/ UNCHANGED Figures!vars \/ Figures!Tick
             \/ \E r \in Reader : \/ \E p \in Figures!Days \X Figures!Days :
                                        Figures!BeginSalesReport(r, p) \/ Figures!BeginSummary(r, p)
                                  \/ \E d \in Figures!Days : Figures!BeginProfit(r, d)
                                  \/ Figures!BeginKpis(r)
      PROVE  ReportRest'
  BY <1>1, <1>2, <1>b DEF Figures!vars, Figures!shop, Figures!reports, Figures!Tick, Figures!BeginSalesReport,
     Figures!BeginSummary, Figures!BeginProfit, Figures!BeginKpis, Figures!Begin
<1>3. ASSUME NEW s \in Sale, NEW n \in 1..MaxSold, NEW c \in BOOLEAN, Figures!CreateSale(s, n, c)
      PROVE  ReportRest'
  <2>1. n \in 0..MaxSold
    BY ShopAssumption
  <2>2. QED
    BY <1>3, <2>1 DEF Figures!CreateSale, Figures!Touch, Figures!reports, ReportRest, Figures!Status
<1>4. ASSUME NEW s \in Sale, Figures!ConfirmSale(s) PROVE ReportRest'
  BY <1>4 DEF Figures!ConfirmSale, Figures!Touch, Figures!reports, ReportRest, Figures!Status
<1>5. ASSUME NEW s \in Sale, NEW n \in 1..MaxSold, Figures!ReturnSale(s, n) PROVE ReportRest'
  <2>1. PICK d : d = Figures!Day(now)
    OBVIOUS
  <2>2. d \in Figures!Days
    BY <1>a, <2>1, DayOfInstant DEF ReportTypes
  <2>3. /\ back' = [back EXCEPT ![s][d] = @ + n] /\ n <= units[s] - Figures!Returned(s)
        /\ saleStatus' \in {saleStatus, [saleStatus EXCEPT ![s] = "RETURNED"]}
        /\ reportRaced' \subseteq Reader /\ UNCHANGED <<units, credit, read, books>>
    BY <1>5, <1>b, <2>1 DEF Figures!ReturnSale, Figures!Touch, Figures!reports
  <2>4. back[s][d] + n \in 0..MaxSold
    BY <1>a, <2>2, <2>3, BackBound
  <2>5. back' \in [Sale -> [Figures!Days -> 0..MaxSold]]
    BY <2>2, <2>3, <2>4 DEF ReportRest
  <2>6. saleStatus' \in [Sale -> Figures!Status]
    BY <2>3 DEF ReportRest, Figures!Status
  <2>7. QED
    BY <2>3, <2>5, <2>6 DEF ReportRest
<1>6. ASSUME NEW r \in Reader PROVE Figures!Books(period[r]) \in Figures!Figures
  <2>1. period[r] \in Figures!Days \X Figures!Days
    BY <1>a DEF ReportTypes
  <2>2. Confirmed(period[r]) \in SUBSET Sale /\ OnCredit \in SUBSET Sale
    BY DEF Confirmed, OnCredit
  <2>3. /\ RevenueOf(units, Confirmed(period[r])) \in Nat /\ CountOf(Confirmed(period[r])) \in Nat
        /\ CostOf(units, Confirmed(period[r])) \in Nat
        /\ BackOf(back, OnCredit, period[r][1]..period[r][2]) \in Nat
    BY <1>a, <2>1, <2>2, FigureTypes
  <2>4. QED
    BY <2>3, BooksUnfold DEF Figures!Figures
<1>7. ASSUME NEW r \in Reader, NEW f \in Figures!Figures, read' = [read EXCEPT ![r] = f],
             UNCHANGED <<saleStatus, units, credit, back, reportRaced>>,
             books' \in {books, [books EXCEPT ![r] = Figures!Books(period[r])]}
      PROVE  ReportRest'
  BY <1>1, <1>6, <1>7, <1>b
<1>8. ASSUME NEW r \in Reader
      PROVE  /\ RevenueOf(units, Figures!Counted(r)) \in Nat /\ CountOf(Figures!Counted(r)) \in Nat
             /\ CostOf(units, Figures!Counted(r)) \in Nat
             /\ BackOf(back, OnCredit, period[r][1]..period[r][2]) \in Nat
             /\ read[r] \in Figures!Figures
  <2>1. period[r] \in Figures!Days \X Figures!Days /\ read[r] \in Figures!Figures
    BY <1>a DEF ReportTypes, ReportRest
  <2>2. Figures!Counted(r) \in SUBSET Sale /\ OnCredit \in SUBSET Sale
    BY DEF Figures!Counted, OnCredit
  <2>3. QED
    BY <1>a, <2>1, <2>2, FigureTypes
<1>9. ASSUME NEW r \in Reader, Figures!ReadSales(r) PROVE ReportRest'
  <2>1. PICK f : f = [Figures!Nothing EXCEPT !.revenue = RevenueOf(units, Figures!Counted(r)),
                         !.count = CountOf(Figures!Counted(r)), !.cogs = CostOf(units, Figures!Counted(r))]
    OBVIOUS
  <2>2. f \in Figures!Figures
    BY <1>8, <2>1 DEF Figures!Nothing, Figures!Figures
  <2>3. /\ read' = [read EXCEPT ![r] = f] /\ books' \in {books, [books EXCEPT ![r] = Figures!Books(period[r])]}
        /\ UNCHANGED <<saleStatus, units, credit, back, reportRaced>>
    BY <1>9, <2>1 DEF Figures!ReadSales, Figures!Read, Figures!SumOver, Figures!Total, Figures!Cogs, Figures!shop,
       Figures!MapThenSumSet, Figures!MapThenFoldSet, RevenueOf, CostOf, CountOf
  <2>4. QED
    BY <1>7, <2>2, <2>3
<1>10. ASSUME NEW r \in Reader, Figures!ReadRevenue(r) PROVE ReportRest'
  <2>1. PICK f : f = [Figures!Nothing EXCEPT !.revenue = RevenueOf(units, Figures!Counted(r)),
                         !.count = CountOf(Figures!Counted(r))]
    OBVIOUS
  <2>2. f \in Figures!Figures
    BY <1>8, <2>1 DEF Figures!Nothing, Figures!Figures
  <2>3. /\ read' = [read EXCEPT ![r] = f] /\ books' \in {books, [books EXCEPT ![r] = Figures!Books(period[r])]}
        /\ UNCHANGED <<saleStatus, units, credit, back, reportRaced>>
    BY <1>10, <2>1 DEF Figures!ReadRevenue, Figures!Read, Figures!SumOver, Figures!Total, Figures!shop,
       Figures!MapThenSumSet, Figures!MapThenFoldSet, RevenueOf, CountOf
  <2>4. QED
    BY <1>7, <2>2, <2>3
<1>11. ASSUME NEW r \in Reader, Figures!ReadReturns(r) \/ Figures!ReadCogs(r) PROVE ReportRest'
  <2>1. PICK n \in Nat, m \in Nat : /\ n = BackOf(back, OnCredit, period[r][1]..period[r][2])
                                    /\ m = CostOf(units, Figures!Counted(r))
    BY <1>8
  <2>2. PICK f : /\ f \in {[read[r] EXCEPT !.returns = n], [read[r] EXCEPT !.cogs = m]}
                 /\ read' = [read EXCEPT ![r] = f]
    BY <1>11, <2>1, ReturnsUnfold, CogsUnfold
  <2>3. f \in Figures!Figures
    BY <1>8, <2>1, <2>2 DEF Figures!Figures
  <2>4. /\ books' \in {books, [books EXCEPT ![r] = Figures!Books(period[r])]}
        /\ UNCHANGED <<saleStatus, units, credit, back, reportRaced>>
    BY <1>11 DEF Figures!ReadReturns, Figures!ReadCogs, Figures!Read, Figures!shop
  <2>5. QED
    BY <1>7, <2>2, <2>3, <2>4
<1>12. ASSUME NEW r \in Reader, Figures!EndReport(r) PROVE ReportRest'
  <2>1. /\ read' = [read EXCEPT ![r] = Figures!Nothing] /\ books' = [books EXCEPT ![r] = Figures!Nothing]
        /\ UNCHANGED <<saleStatus, units, credit, back>> /\ reportRaced' \subseteq Reader
    BY <1>12, <1>b DEF Figures!EndReport, Figures!shop
  <2>2. QED
    BY <1>1, <1>a, <2>1
<1>13. QED
  BY <1>2, <1>3, <1>4, <1>5, <1>9, <1>10, <1>11, <1>12 DEF Figures!Next

\* A behaviour starts without sales.
LEMMA ReportRestInit == Figures!Init => ReportRest
<1>1. Figures!Nothing \in Figures!Figures /\ 0 \in 0..MaxSold
  BY ShopAssumption DEF Figures!Nothing, Figures!Figures
<1>2. QED
  BY <1>1 DEF Figures!Init, ReportRest, Figures!Status

\* The types of the reports.
LEMMA ReportsTyped == ReportTypes /\ ReportRest => Figures!TypeOK
BY DEF ReportTypes, ReportRest, Figures!TypeOK

-----------------------------------------------------------------------------
(* The types of all modules.                                               *)

\* They follow from what the proofs carry.
OfficeTypes ==
    /\ OrderInvariant /\ AccountInvariant /\ AuditInvariant /\ AuditRest
    /\ LabelInvariant /\ PriceInvariant
    /\ DocumentInvariant /\ NoteInvariant /\ PaperRest
    /\ FigureInvariant /\ ReportRest
    /\ PageInvariant

\* Orders, suppliers' accounts, audits, parts, prices, documents, reports and
\* notifications are well typed whatever requests interleave: no more of a sale
\* comes back than was sold, and counts and sums are numbers (the columns of
\* app/models and the figures of app/services).
THEOREM OfficeTyped ==
    ASSUME IsFiniteSet(Req), IsFiniteSet(Sale)
    PROVE  Spec => []TypeOK
<1>1. Init => OfficeTypes
  BY OrderInit, AccountInit, AuditInit, AuditRestInit, LabelInit, PriceInit, DocumentInit, NoteInit,
     PaperRestInit, FigureInit, ReportRestInit, BellInit, NoneAssumption DEF Init, OfficeTypes
<1>2. OfficeTypes /\ [Next]_vars => OfficeTypes'
  <2> SUFFICES ASSUME OfficeTypes, [Next]_vars PROVE OfficeTypes'
    OBVIOUS
  <2> USE DEF OfficeTypes
  <2>1. OrderInvariant' /\ AccountInvariant'
    BY OrderStep, PurchaseNext, AccountStep, AccountNext
  <2>2. AuditInvariant' /\ AuditRest'
    BY AuditStep, AuditRestStep, AuditNext
  <2>3. LabelInvariant' /\ PriceInvariant'
    BY LabelStep, LabelNext, PriceStep, PriceNext
  <2>4. DocumentInvariant' /\ NoteInvariant' /\ PaperRest'
    BY DocumentStep, NoteStep, PaperRestStep, PaperNext, NoneAssumption DEF DocumentInvariant
  <2>5. FigureInvariant' /\ ReportRest'
    BY FigureStep, ReportRestStep, FigureNext
  <2>6. PageInvariant'
    BY BellStep, BellNext
  <2>7. QED
    BY <2>1, <2>2, <2>3, <2>4, <2>5, <2>6
<1>3. OfficeTypes => TypeOK
  <2> SUFFICES ASSUME OfficeTypes PROVE TypeOK
    OBVIOUS
  <2> USE DEF OfficeTypes
  <2>1. Purchases!TypeOK /\ Payments!TypeOK /\ Audits!TypeOK
    BY OrderTypes, AuditTypes DEF AccountInvariant
  <2>2. Labels!TypeOK /\ Pricing!TypeOK
    BY LabelTypes, PriceTypes
  <2>3. Papers!TypeOK /\ Figures!TypeOK
    BY PaperTypes, ReportsTyped DEF DocumentInvariant, NoteInvariant, FigureInvariant
  <2>4. Bell!TypeOK
    BY DEF PageInvariant
  <2>5. QED
    BY <2>1, <2>2, <2>3, <2>4 DEF TypeOK
<1>4. QED
  BY <1>1, <1>2, <1>3, PTL DEF Spec

=============================================================================
