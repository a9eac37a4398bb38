-------------------------------- MODULE Reports --------------------------------
(***************************************************************************)
(* The figures of reports and dashboard.  A report is one transaction at   *)
(* READ COMMITTED that sums what is committed in several statements, while *)
(* sales are confirmed and returned.                                       *)
(*                                                                         *)
(* Of a sale a report sees its status, when it was created, what was sold  *)
(* and the RETURN entries of its customer's ledger.  Time is counted in    *)
(* instants, DayLength to a day.                                           *)
(***************************************************************************)
EXTENDS Integers, FiniteSetsExt

CONSTANTS
    Reader, Sale,
    MaxUnits,       \* model bound: of all sales
    Price, Cost,    \* of a unit
    DayLength,
    LastDay         \* model bound

VARIABLES
    now,
    status, created, units, credit,     \* the sale
    back,                               \* sale -> day -> units that came back
    pc, kind, period,
    read,                               \* what a report has summed
    \* history
    raced,      \* reports during which a sale changed
    books       \* what the figures stood for when the report ended

shop    == <<status, created, units, credit, back>>
reports == <<pc, kind, period, read>>
vars    == <<now, shop, reports, raced, books>>

Instants == 0 .. (LastDay + 1) * DayLength - 1
Days     == 0 .. LastDay
Day(t)   == t \div DayLength

Status == {"NONE", "DRAFT", "CONFIRMED", "RETURNED"}
Kinds  == {"sales", "summary", "profit", "kpi"}
Figures == [revenue : Nat, count : Nat, cogs : Nat, returns : Nat]
Nothing == [revenue |-> 0, count |-> 0, cogs |-> 0, returns |-> 0]

TypeOK ==
    /\ now \in Instants
    /\ status \in [Sale -> Status]
    /\ created \in [Sale -> Instants]
    /\ units \in [Sale -> 0..MaxUnits]
    /\ credit \in [Sale -> BOOLEAN]
    /\ back \in [Sale -> [Days -> 0..MaxUnits]]
    /\ pc \in [Reader -> {"idle", "revenue", "returns", "cogs", "done"}]
    /\ kind \in [Reader -> Kinds]
    /\ period \in [Reader -> Days \X Days]
    /\ read \in [Reader -> Figures]
    /\ raced \subseteq Reader
    /\ books \in [Reader -> Figures]

Init ==
    /\ now = 0
    /\ status = [s \in Sale |-> "NONE"]
    /\ created = [s \in Sale |-> 0]
    /\ units = [s \in Sale |-> 0]
    /\ credit = [s \in Sale |-> FALSE]
    /\ back = [s \in Sale |-> [d \in Days |-> 0]]
    /\ pc = [r \in Reader |-> "idle"]
    /\ kind = [r \in Reader |-> "sales"]
    /\ period = [r \in Reader |-> <<0, 0>>]
    /\ read = [r \in Reader |-> Nothing]
    /\ raced = {}
    /\ books = [r \in Reader |-> Nothing]

-----------------------------------------------------------------------------
(* Sales                                                                   *)

SumOver(S, F(_)) == MapThenSumSet(F, S)

Total(s)    == units[s] * Price
Cogs(s)     == units[s] * Cost
Returned(s) == SumOver(Days, LAMBDA d : back[s][d])

\* A sale changes under the reports that have read something.
Touch ==
    /\ raced' = raced \cup {r \in Reader : pc[r] \in {"returns", "cogs"}}
    /\ UNCHANGED <<now, reports, books>>

CreateSale(s, n, c) ==
    /\ status[s] = "NONE"
    /\ n + SumOver(Sale, LAMBDA o : units[o]) <= MaxUnits
    /\ status'  = [status  EXCEPT ![s] = "DRAFT"]
    /\ created' = [created EXCEPT ![s] = now]
    /\ units'   = [units   EXCEPT ![s] = n]
    /\ credit'  = [credit  EXCEPT ![s] = c]
    /\ Touch
    /\ UNCHANGED back

ConfirmSale(s) ==
    /\ status[s] = "DRAFT"
    /\ status' = [status EXCEPT ![s] = "CONFIRMED"]
    /\ Touch
    /\ UNCHANGED <<created, units, credit, back>>

\* Only a full return changes the status.
ReturnSale(s, n) ==
    /\ status[s] = "CONFIRMED"
    /\ n <= units[s] - Returned(s)
    /\ back' = [back EXCEPT ![s][Day(now)] = @ + n]
    /\ status' = IF n = units[s] - Returned(s) THEN [status EXCEPT ![s] = "RETURNED"] ELSE status
    /\ Touch
    /\ UNCHANGED <<created, units, credit>>

Tick ==
    /\ now + 1 \in Instants
    /\ now' = now + 1
    /\ UNCHANGED <<shop, reports, raced, books>>

-----------------------------------------------------------------------------
(* Reports                                                                 *)

\* DateRange.to_datetime_range: up to the last instant of the last day.
RangeStart(p) == p[1] * DayLength
RangeEnd(p)   == p[2] * DayLength + DayLength - 1

\* Mutant: up to the midnight the last day begins with.
MidnightEnd(p, k, t) == RangeStart(p) <= t /\ t <= p[2] * DayLength

\* The condition on created_at.  A day of the dashboard ends before the next,
\* its profit summary has no end.
InRange(p, k, t) ==
    /\ RangeStart(p) <= t
    /\ CASE k = "kpi"    -> t < (p[2] + 1) * DayLength
         [] k = "profit" -> TRUE
         [] OTHER        -> t <= RangeEnd(p)

Counted(r) == {s \in Sale : status[s] = "CONFIRMED" /\ InRange(period[r], kind[r], created[s])}

DaysOf(p)      == p[1] .. p[2]
ValueBack(S, p) == SumOver(S, LAMBDA s : Price * SumOver(DaysOf(p), LAMBDA d : back[s][d]))

\* The RETURN entries of a period: only what was sold on credit is given back
\* on the customer's ledger.
Refunds(p) == ValueBack({s \in Sale : credit[s]}, p)

\* What the figures of a period stand for, by days, of the sales that are
\* confirmed.
Books(p) ==
    LET C == {s \in Sale : status[s] = "CONFIRMED" /\ Day(created[s]) \in DaysOf(p)}
    IN  [revenue |-> SumOver(C, Total), count   |-> SumOver(C, LAMBDA s : 1),
         cogs    |-> SumOver(C, Cogs),  returns |-> Refunds(p)]

Begin(r, k, p) ==
    /\ pc[r] = "idle"
    /\ kind'   = [kind   EXCEPT ![r] = k]
    /\ period' = [period EXCEPT ![r] = p]
    /\ pc'     = [pc     EXCEPT ![r] = "revenue"]
    /\ UNCHANGED <<now, shop, read, raced, books>>

\* Two reports are asked for from one day to another ...
BeginSalesReport(r, p) == p[1] <= p[2] /\ Begin(r, "sales", p)
BeginSummary(r, p)     == p[1] <= p[2] /\ Begin(r, "summary", p)

\* ... the profit from some day on, the start of a week, month or year, and
\* the dashboard for today.
BeginProfit(r, d) == d <= Day(now) /\ Begin(r, "profit", <<d, LastDay>>)
BeginKpis(r)      == Begin(r, "kpi", <<Day(now), Day(now)>>)

\* A statement has run; the last one ends the report.
Read(r, figures, next) ==
    /\ read'  = [read EXCEPT ![r] = figures]
    /\ pc'    = [pc EXCEPT ![r] = next]
    /\ books' = IF next = "done" THEN [books EXCEPT ![r] = Books(period[r])] ELSE books
    /\ UNCHANGED <<now, shop, kind, period, raced>>

\* generate_sales_report reads the sales and adds up their items itself.
ReadSales(r) ==
    /\ pc[r] = "revenue" /\ kind[r] = "sales"
    /\ Read(r, [Nothing EXCEPT !.revenue = SumOver(Counted(r), Total),
                               !.count   = SumOver(Counted(r), LAMBDA s : 1),
                               !.cogs    = SumOver(Counted(r), Cogs)], "done")

ReadRevenue(r) ==
    /\ pc[r] = "revenue" /\ kind[r] # "sales"
    /\ Read(r, [Nothing EXCEPT !.revenue = SumOver(Counted(r), Total),
                               !.count   = SumOver(Counted(r), LAMBDA s : 1)],
            IF kind[r] = "summary" THEN "cogs" ELSE "returns")

ReadReturns(r) ==
    /\ pc[r] = "returns"
    /\ Read(r, [read[r] EXCEPT !.returns = Refunds(period[r])],
            IF kind[r] = "profit" THEN "cogs" ELSE "done")

ReadCogs(r) ==
    /\ pc[r] = "cogs"
    /\ Read(r, [read[r] EXCEPT !.cogs = SumOver(Counted(r), Cogs)], "done")

\* The answer is sent.
EndReport(r) ==
    /\ pc[r] = "done"
    /\ pc'    = [pc EXCEPT ![r] = "idle"]
    /\ kind'  = [kind EXCEPT ![r] = "sales"]
    /\ period' = [period EXCEPT ![r] = <<0, 0>>]
    /\ read'  = [read EXCEPT ![r] = Nothing]
    /\ raced' = raced \ {r}
    /\ books' = [books EXCEPT ![r] = Nothing]
    /\ UNCHANGED <<now, shop>>

Next ==
    \/ \E s \in Sale :
          \/ \E n \in 1..MaxUnits, c \in BOOLEAN : CreateSale(s, n, c)
          \/ ConfirmSale(s)
          \/ \E n \in 1..MaxUnits : ReturnSale(s, n)
    \/ \E r \in Reader :
          \/ \E p \in Days \X Days : BeginSalesReport(r, p) \/ BeginSummary(r, p)
          \/ \E d \in Days : BeginProfit(r, d)
          \/ BeginKpis(r)
          \/ ReadSales(r) \/ ReadRevenue(r) \/ ReadReturns(r) \/ ReadCogs(r)
          \/ EndReport(r)
    \/ Tick

Spec == Init /\ [][Next]_vars

-----------------------------------------------------------------------------
(* Properties                                                              *)

\* Sales report, financial summary, profit summary and dashboard take the
\* same figures from the same sales: those of the days asked for, their first
\* and last instants included, unless a sale changed between two of the
\* report's statements (generate_sales_report, generate_financial_summary,
\* get_profit_summary, get_kpis).
FiguresAgree ==
    \A r \in Reader \ raced : pc[r] = "done" =>
        LET book == books[r]
        IN  /\ read[r].revenue = book.revenue /\ read[r].count = book.count
            /\ kind[r] # "kpi" => read[r].cogs = book.cogs
            /\ kind[r] \in {"kpi", "profit"} => read[r].returns = book.returns

=============================================================================
