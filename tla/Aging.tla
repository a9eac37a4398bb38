--------------------------------- MODULE Aging ---------------------------------
(***************************************************************************)
(* What is still open of the debits of an account, when its credits pay    *)
(* the oldest debits first, and how late each open amount is.  The code    *)
(* does this in three places: calculate_aging of suppliers, aging_analysis *)
(* of customers, and the supplier's payment schedule.                      *)
(*                                                                         *)
(* An account is the sequence of its entries in the order of created_at.   *)
(* An entry has a signed amount; an age, the half days from created_at to  *)
(* the report, so that "an hour ago" differs both from "now" and from "a   *)
(* day ago"; and terms, the days it may stay unpaid, NoDate if it has no   *)
(* due date.                                                               *)
(***************************************************************************)
EXTENDS Integers, Sequences, SequencesExt

CONSTANT NoDate

IsDebit(e) == e.amount > 0

\* What the entries that count add up to.
SumWhere(es, Counts(_)) ==
    MapThenSumSet(LAMBDA i : es[i].amount, {i \in DOMAIN es : Counts(es[i])})

Credits(es) == -SumWhere(es, LAMBDA e : ~IsDebit(e))
Balance(es) == FoldLeft(LAMBDA sum, e : sum + e.amount, 0, es)

\* Mutant: the credits pay each debit anew.
OpenUnspent(es) ==
    FoldLeft(LAMBDA acc, e :
                 IF ~IsDebit(e) THEN acc
                 ELSE LET apply == IF e.amount < acc.credit THEN e.amount ELSE acc.credit
                      IN  [credit |-> acc.credit,
                           open   |-> Append(acc.open, [e EXCEPT !.amount = @ - apply])],
             [credit |-> Credits(es), open |-> <<>>], es).open

\* The debits with what the credits leave open of each, oldest first.
Open(es) ==
    FoldLeft(LAMBDA acc, e :
                 IF ~IsDebit(e) THEN acc
                 ELSE LET apply == IF e.amount < acc.credit THEN e.amount ELSE acc.credit
                      IN  [credit |-> acc.credit - apply,
                           open   |-> Append(acc.open, [e EXCEPT !.amount = @ - apply])],
             [credit |-> Credits(es), open |-> <<>>], es).open

\* How long ago an entry was due: its due date counts, or created_at if it has
\* none (the only case for customers).  In half days, and in whole days rounded
\* down as timedelta.days is.
Late(e) == IF e.terms = NoDate THEN e.age ELSE e.age - 2 * e.terms
DaysOverdue(e) == Late(e) \div 2

\* The aging report: what is open in the buckets of entries at least d days
\* late, what of it has no due date, and what is open in all buckets.
AgedAtLeast(es, d) == SumWhere(Open(es), LAMBDA e : DaysOverdue(e) >= d)
UndatedAged(es, d) ==
    SumWhere(Open(es), LAMBDA e : e.terms = NoDate /\ DaysOverdue(e) >= d)
AgingTotal(es)     == Balance(Open(es))

\* The payment schedule compares instants, and leaves out entries without a
\* due date, however old they are.
ScheduledOverdue(es)  == SumWhere(Open(es), LAMBDA e : e.terms # NoDate /\ Late(e) > 0)
ScheduledUpcoming(es) == SumWhere(Open(es), LAMBDA e : e.terms # NoDate /\ Late(e) <= 0)
Undated(es)           == SumWhere(Open(es), LAMBDA e : e.terms = NoDate)

=============================================================================
