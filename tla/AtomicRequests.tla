----------------------------- MODULE AtomicRequests -----------------------------
(***************************************************************************)
(* What the backend promises of a request that moves stock: it is applied  *)
(* completely, in one step, or not at all.  Nothing is said of rows, locks *)
(* or the order of statements.                                             *)
(***************************************************************************)
EXTENDS Integers, Sequences, SequencesExt

CONSTANTS Req, Key, Item

VARIABLES
    stock,   \* sum of the movements of each stock key
    job      \* the items each request was asked to move; <<>> when none

vars == <<stock, job>>

\* What the items of a request add to the stock of one key.
Net(items, k) ==
    FoldLeft(LAMBDA n, i : IF i.key = k THEN n + i.qty ELSE n, 0, items)

Init ==
    /\ stock = [k \in Key |-> 0]
    /\ job = [r \in Req |-> <<>>]

Submit(r) ==
    /\ job[r] = <<>>
    /\ job'[r] \in Seq(Item) \ {<<>>}
    /\ job' = [job EXCEPT ![r] = job'[r]]
    /\ UNCHANGED stock

Finish(r) ==
    /\ job[r] # <<>>
    /\ job' = [job EXCEPT ![r] = <<>>]

Apply(r) ==
    /\ Finish(r)
    /\ stock' = [k \in Key |-> stock[k] + Net(job[r], k)]

Refuse(r) ==
    /\ Finish(r)
    /\ UNCHANGED stock

Next == \E r \in Req : Submit(r) \/ Apply(r) \/ Refuse(r)

Spec == Init /\ [][Next]_vars

=============================================================================
